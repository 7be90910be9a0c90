--------------------------- MODULE Updates_proofs ---------------------------
(***************************************************************************)
(* Proofs about the aggregation of an update log, for any log, any number  *)
(* of workers, failures and cancellations; about id sets, for any sequence *)
(* of operations on ranges of any size; and about the structs of a client, *)
(* for any sequence of merges and collections.                             *)
(*                                                                         *)
(* Aggregation: PassesComplete looks at a pass when it ends.  Before that, *)
(* Jobs says where each job is: with a worker or sent, as long as the      *)
(* context is alive; and Returned why a worker returned: the context is    *)
(* done or no job is left.                                                 *)
(*                                                                         *)
(* Id sets: the loops over ranges are recursive functions on 0..n.  What   *)
(* holds of their values for every input is an induction over data, which  *)
(* LeastNumber and UpTo give for a set in place of a predicate; Recursion  *)
(* says that such a function exists, so that it satisfies its equation at  *)
(* each index.  RangeInv is RangesExact with Covers in place of Clocks,    *)
(* which needs no bound on the clocks.                                     *)
(*                                                                         *)
(* Structs: Row says that structs follow each other without a hole and     *)
(* Held which clocks they hold, over positions in the list.  Woven is the  *)
(* invariant of a merge under way, whose rounds end because two of them    *)
(* use up a struct; ClientInv accounts for every struct of the document.   *)
(***************************************************************************)
EXTENDS Aggregation, ClientStructs, SequenceTheorems, WellFoundedInduction, TLAPS

-----------------------------------------------------------------------------
(* Recursive functions over 0..n and what holds of their values.           *)

\* A set of numbers has a least one.
LEMMA LeastNumber ==
  ASSUME NEW S \in SUBSET Nat, S # {}
  PROVE  \E x \in S : \A y \in S : x <= y
<1> DEFINE R == OpToRel(<, Nat)
<1>1. IsWellFoundedOn(R, Nat) BY NatLessThanWellFounded
<1>2. \A x, y \in Nat : <<y, x>> \in R <=> y < x BY DEF OpToRel
<1> HIDE DEF R
<1>3. PICK x \in S : \A y \in S : ~(<<y, x>> \in R) BY <1>1, WFMin
<1>4. ASSUME NEW y \in S PROVE x <= y
  <2>1. x \in Nat /\ y \in Nat OBVIOUS
  <2>2. ~(y < x) BY <1>2, <1>3, <2>1
  <2> QED BY <2>1, <2>2
<1> QED BY <1>4

\* Induction up to a bound, for a set instead of a predicate.
LEMMA UpTo ==
  ASSUME NEW n \in Nat, NEW P, 0 \in P,
         \A i \in 0..(n - 1) : i \in P => i + 1 \in P
  PROVE  \A i \in 0..n : i \in P
<1> DEFINE Out == {i \in 0..n : i \notin P}
<1>1. SUFFICES ASSUME Out # {} PROVE FALSE OBVIOUS
<1>2. Out \in SUBSET Nat OBVIOUS
<1> HIDE DEF Out
<1>3. PICK m \in Out : \A y \in Out : m <= y BY <1>1, <1>2, LeastNumber
<1>4. m \in 0..n /\ m \notin P BY <1>3 DEF Out
<1>5. m # 0 BY <1>4
<1>6. m - 1 \in 0..(n - 1) BY <1>4, <1>5
<1>7. m - 1 \notin Out
  <2>1. ~(m <= m - 1) BY <1>4
  <2> QED BY <2>1, <1>3
<1>8. m - 1 \in P BY <1>6, <1>7 DEF Out
<1>9. (m - 1) + 1 \in P BY <1>6, <1>8
<1>10. (m - 1) + 1 = m BY <1>4
<1> QED BY <1>9, <1>10, <1>4

\* There is a function on 0..n with the value b at 0 that follows the step G.
Defined(n, V, b, G) ==
  \E p \in [0..n -> V] : p[0] = b /\ \A i \in 1..n : p[i] = G[i][p[i - 1]]

\* There is one for each value and each step within a set.
LEMMA Recursion ==
  ASSUME NEW n \in Nat, NEW V, NEW b \in V, NEW G \in [1..n -> [V -> V]]
  PROVE  Defined(n, V, b, G)
<1> DEFINE Good(m, p) == p[0] = b /\ \A i \in 1..m : p[i] = G[i][p[i - 1]]
           P == {m \in 0..n : \E p \in [0..m -> V] : Good(m, p)}
<1>1. 0 \in P
  <2>1. PICK p : p = [i \in 0..0 |-> b] OBVIOUS
  <2>2. p \in [0..0 -> V] /\ Good(0, p) BY <2>1
  <2> HIDE DEF Good
  <2> QED BY <2>2
<1>2. ASSUME NEW m \in 0..(n - 1), m \in P PROVE m + 1 \in P
  <2>1. PICK p \in [0..m -> V] : Good(m, p) BY <1>2
  <2>2. m + 1 \in 1..n /\ m \in 0..m OBVIOUS
  <2>3. PICK v \in V : v = G[m + 1][p[m]] BY <2>2
  <2> DEFINE q == [i \in 0..(m + 1) |-> IF i = m + 1 THEN v ELSE p[i]]
  <2>4. q \in [0..(m + 1) -> V] OBVIOUS
  <2>5. Good(m + 1, q)
    <3>1. q[0] = b BY <2>1
    <3>2. ASSUME NEW i \in 1..(m + 1) PROVE q[i] = G[i][q[i - 1]]
      <4>1. CASE i = m + 1
        <5>1. q[i] = v /\ q[i - 1] = p[m] BY <4>1
        <5> QED BY <5>1, <2>3, <4>1
      <4>2. CASE i # m + 1
        <5>1. i \in 1..m BY <4>2
        <5>2. q[i] = p[i] /\ q[i - 1] = p[i - 1] BY <5>1
        <5> QED BY <5>1, <5>2, <2>1
      <4> QED BY <4>1, <4>2
    <3> QED BY <3>1, <3>2
  <2>6. m + 1 \in 0..n OBVIOUS
  <2> QED BY <2>4, <2>5, <2>6
<1> HIDE DEF P
<1>3. \A m \in 0..n : m \in P BY <1>1, <1>2, UpTo
<1>4. n \in P BY <1>3
<1> QED BY <1>4 DEF P, Defined

\* A function that follows such a step keeps its values in V.
LEMMA RecursionType ==
  ASSUME NEW n \in Nat, NEW V, NEW q, q[0] \in V,
         \A i \in 1..n : q[i - 1] \in V => q[i] \in V
  PROVE  \A i \in 0..n : q[i] \in V
<1>1. PICK P : P = {i \in 0..n : q[i] \in V} OBVIOUS
<1>2. 0 \in P BY <1>1
<1>3. ASSUME NEW i \in 0..(n - 1), i \in P PROVE i + 1 \in P
  <2>1. i + 1 \in 1..n /\ (i + 1) - 1 = i /\ i + 1 \in 0..n OBVIOUS
  <2>2. q[(i + 1) - 1] \in V BY <1>1, <1>3, <2>1
  <2>3. q[i + 1] \in V BY <2>1, <2>2
  <2> QED BY <2>1, <2>3, <1>1
<1>4. \A i \in 0..n : i \in P BY <1>2, <1>3, UpTo
<1> QED BY <1>4, <1>1

-----------------------------------------------------------------------------
(* The payloads that are not of no bytes.                                  *)

\* FilledUpTo is the function its definition describes.
LEMMA FilledStep ==
  ASSUME NEW S, NEW s \in Seq(S)
  PROVE  /\ FilledUpTo(s)[0] = <<>>
         /\ \A i \in 1..Len(s) :
              FilledUpTo(s)[i] = IF s[i].fmt = "none" THEN FilledUpTo(s)[i - 1]
                                 ELSE Append(FilledUpTo(s)[i - 1], s[i])
         /\ \A i \in 0..Len(s) : FilledUpTo(s)[i] \in Seq(S)
<1>1. PICK n \in Nat : n = Len(s) OBVIOUS
<1>2. PICK V : V = Seq(S) OBVIOUS
<1> DEFINE Step(i, v) == IF s[i].fmt = "none" THEN v ELSE Append(v, s[i])
           Is(p) == p = [i \in 0..n |-> IF i = 0 THEN <<>> ELSE Step(i, p[i - 1])]
<1>3. \A i \in 1..n, v \in V : Step(i, v) \in V BY <1>1, <1>2
<1>4. <<>> \in V BY <1>2
<1>5. PICK b \in V : b = <<>> BY <1>4
<1>6. \A q : Is(q) <=> q = [i \in 0..n |-> IF i = 0 THEN <<>>
                              ELSE IF s[i].fmt = "none" THEN q[i - 1] ELSE Append(q[i - 1], s[i])]
  OBVIOUS
<1>7. FilledUpTo(s) = CHOOSE q : Is(q) BY <1>1 DEF FilledUpTo
<1> HIDE DEF Step
<1>8. PICK G : G = [i \in 1..n |-> [v \in V |-> Step(i, v)]] OBVIOUS
<1>9. G \in [1..n -> [V -> V]] BY <1>3, <1>8
<1>10. Defined(n, V, b, G) BY <1>9, Recursion
<1>11. \A i \in 1..n, v \in V : G[i][v] = Step(i, v) BY <1>8
<1>12. PICK p \in [0..n -> V] : p[0] = b /\ \A i \in 1..n : p[i] = G[i][p[i - 1]]
  BY <1>10 DEF Defined
<1>13. ASSUME NEW i \in 1..n PROVE p[i] = Step(i, p[i - 1])
  <2>1. i - 1 \in 0..n OBVIOUS
  <2>2. p[i - 1] \in V BY <2>1
  <2> QED BY <2>2, <1>11, <1>12
<1>14. Is(p)
  <2>1. ASSUME NEW i \in 0..n PROVE p[i] = IF i = 0 THEN <<>> ELSE Step(i, p[i - 1])
    BY <1>5, <1>12, <1>13
  <2> QED BY <2>1
<1>15. PICK f : f = FilledUpTo(s) OBVIOUS
<1>16. Is(f) BY <1>14, <1>7, <1>15
<1>17. f[0] = <<>> BY <1>16
<1>18. \A i \in 1..n : f[i] = Step(i, f[i - 1]) BY <1>16
<1>19. \A i \in 1..n : f[i - 1] \in V => f[i] \in V BY <1>18, <1>3
<1>20. \A i \in 0..n : f[i] \in V BY <1>17, <1>4, <1>19, RecursionType
<1> QED BY <1>1, <1>2, <1>15, <1>17, <1>18, <1>20 DEF Step

\* The payloads kept are payloads of the log, and none is of no bytes.
LEMMA FilledSound ==
  ASSUME NEW S, NEW s \in Seq(S)
  PROVE  /\ Filled(s) \in Seq(S)
         /\ \A k \in DOMAIN Filled(s) : \E i \in DOMAIN s : Filled(s)[k] = s[i] /\ s[i].fmt # "none"
<1>1. PICK n \in Nat : n = Len(s) OBVIOUS
<1>2. PICK V : V = {v \in Seq(S) : \A k \in DOMAIN v : \E i \in DOMAIN s : v[k] = s[i] /\ s[i].fmt # "none"}
  OBVIOUS
<1>3. PICK f : f = FilledUpTo(s) OBVIOUS
<1>4. f[0] = <<>> /\ \A i \in 1..n : f[i] = IF s[i].fmt = "none" THEN f[i - 1] ELSE Append(f[i - 1], s[i])
  BY <1>1, <1>3, FilledStep
<1>5. f[0] \in V BY <1>2, <1>4
<1>6. ASSUME NEW i \in 1..n, f[i - 1] \in V PROVE f[i] \in V
  <2>1. PICK v \in Seq(S) : v = f[i - 1] BY <1>6, <1>2
  <2>2. \A k \in DOMAIN v : \E j \in DOMAIN s : v[k] = s[j] /\ s[j].fmt # "none" BY <1>6, <1>2, <2>1
  <2>3. CASE s[i].fmt = "none" BY <2>3, <1>4, <1>6
  <2>4. CASE s[i].fmt # "none"
    <3>1. s[i] \in S /\ i \in DOMAIN s BY <1>1
    <3>2. Append(v, s[i]) \in Seq(S) BY <3>1
    <3>3. PICK u \in Seq(S) : u = Append(v, s[i]) BY <3>2
    <3>4. DOMAIN u = 1..(Len(v) + 1) BY <3>3
    <3>5. ASSUME NEW k \in DOMAIN u PROVE \E j \in DOMAIN s : u[k] = s[j] /\ s[j].fmt # "none"
      <4>1. CASE k = Len(v) + 1
        <5>1. u[k] = s[i] BY <4>1, <3>1, <3>3
        <5> QED BY <5>1, <3>1, <2>4
      <4>2. CASE k # Len(v) + 1
        <5>1. k \in 1..Len(v) BY <4>2, <3>4
        <5>2. DOMAIN v = 1..Len(v) OBVIOUS
        <5>3. k \in DOMAIN v /\ u[k] = v[k] BY <5>1, <5>2, <3>1, <3>3
        <5> QED BY <5>3, <2>2
      <4> QED BY <4>1, <4>2
    <3>6. u \in V BY <3>5, <1>2
    <3> QED BY <3>6, <3>3, <2>1, <2>4, <1>4
  <2> QED BY <2>3, <2>4
<1>7. \A i \in 0..n : f[i] \in V BY <1>5, <1>6, RecursionType
<1>8. f[n] \in V BY <1>7
<1> QED BY <1>8, <1>1, <1>2, <1>3 DEF Filled

-----------------------------------------------------------------------------
(* The aggregation.                                                        *)

\* As long as the context is alive each job that was taken is with a worker
\* or its result was sent, and a failed result is an error.
Jobs ==
  Aggregating /\ ~Sequential =>
    /\ \A w \in Workers : agg.worker[w].pc = "busy" => agg.worker[w].task # 0
    /\ ~agg.cancelled => \A i \in 1..(agg.next - 1) :
         \/ i \in agg.sent
         \/ \E w \in Workers : agg.worker[w].pc = "busy" /\ agg.worker[w].task = i
    /\ \A i \in agg.sent : ExtractFails(log[i]) => i \in agg.errs

\* A worker returned because the context is done or no job is left.
Returned ==
  Aggregating /\ ~Sequential =>
    \A w \in Workers : agg.worker[w].pc = "done" => agg.cancelled \/ agg.next > Len(log)

\* Without workers the payloads are taken in order and none failed.
OneByOne ==
  Aggregating /\ Sequential =>
    /\ agg.sent = 1..(agg.next - 1) /\ agg.errs = {}
    /\ \A i \in agg.sent : ~ExtractFails(log[i])
    /\ \A w \in Workers : agg.worker[w].pc = "idle"

\* The detect pass let only payloads of one format through, and dropped those
\* of no bytes.
Detected ==
  stage \in {"merge", "merged"} =>
    \A i, j \in DOMAIN log :
      log[i].fmt \notin {"none", "bad"} /\ FormatOf(log[i]) = FormatOf(log[j])

Inv == AggTypeOK /\ Jobs /\ Returned /\ OneByOne /\ Detected /\ MergedUniform

\* The parts of an aggregation's state.
Pcs == {"idle", "busy", "cancel", "done"}
AggOver(n) ==
  [next : 1..(n + 1), worker : [Workers -> [pc : Pcs, task : 0..n]],
   sent : SUBSET (1..n), errs : SUBSET (1..n), cancelled : BOOLEAN]

\* A log that is a sequence of payloads.
LogOK(l) == l \in Seq({l[i] : i \in DOMAIN l}) /\ \A i \in DOMAIN l : l[i].fmt \in Formats

\* A new aggregation has its type.
LEMMA NewAggType ==
  ASSUME NEW n \in Nat, NEW c \in BOOLEAN
  PROVE  [NewAgg EXCEPT !.cancelled = c] \in AggOver(n) /\ NewAgg \in AggOver(n)
BY DEF NewAgg, AggOver, Idle, Pcs

\* The log that goes into the merge pass is one, of payloads of the log.
LEMMA FilledLog ==
  ASSUME NEW l, LogOK(l)
  PROVE  /\ LogOK(Filled(l))
         /\ \A k \in DOMAIN Filled(l) : \E i \in DOMAIN l : Filled(l)[k] = l[i] /\ l[i].fmt # "none"
<1>1. PICK S : S = {l[i] : i \in DOMAIN l} OBVIOUS
<1>2. l \in Seq(S) BY <1>1 DEF LogOK
<1>3. PICK f : f = Filled(l) OBVIOUS
<1>4. f \in Seq(S) /\ \A k \in DOMAIN f : \E i \in DOMAIN l : f[k] = l[i] /\ l[i].fmt # "none"
  BY <1>2, <1>3, FilledSound
<1>5. PICK T : T = {f[i] : i \in DOMAIN f} OBVIOUS
<1>6. f \in Seq(T)
  <2>1. \A i \in 1..Len(f) : f[i] \in T BY <1>4, <1>5
  <2>2. Len(f) \in Nat /\ f = [i \in 1..Len(f) |-> f[i]] BY <1>4
  <2> QED BY <2>1, <2>2
<1>7. \A k \in DOMAIN f : f[k].fmt \in Formats BY <1>4 DEF LogOK
<1> QED BY <1>3, <1>4, <1>5, <1>6, <1>7 DEF LogOK

\* The types of the log and of the aggregation.
LEMMA Typed ==
  ASSUME AggTypeOK
  PROVE  /\ LogOK(log) /\ Len(log) \in Nat /\ DOMAIN log = 1..Len(log)
         /\ agg \in AggOver(Len(log)) /\ agg.next \in Nat
BY DEF AggTypeOK, LogOK, AggOver, Pcs

\* A new aggregation, on whatever log, satisfies the invariant but for what
\* the detect pass settled.
LEMMA FreshInv ==
  ASSUME NEW c \in BOOLEAN, LogOK(log)', stage' \in {"detect", "merge", "failed"},
         agg' = NewAgg \/ agg' = [NewAgg EXCEPT !.cancelled = c], Detected'
  PROVE  Inv'
<1>1. (Len(log) \in Nat)' /\ (DOMAIN log = 1..Len(log))' BY DEF LogOK
<1>2. agg' \in AggOver(Len(log)') BY <1>1, NewAggType
<1>3. agg'.next = 1 /\ agg'.sent = {} /\ agg'.errs = {} /\ \A w \in Workers : agg'.worker[w] = Idle
  BY DEF NewAgg
<1>4. \A w \in Workers : agg'.worker[w].pc = "idle" BY <1>3 DEF Idle
<1>5. AggTypeOK'
  <2>1. (agg \in AggOver(Len(log)))' BY <1>2
  <2>2. (\A w \in Workers : agg.worker[w].pc \in {"idle", "done"})' BY <1>4
  <2> QED BY <2>1, <2>2 DEF AggTypeOK, LogOK, AggOver, Pcs
<1>6. Jobs' BY <1>3, <1>4 DEF Jobs
<1>7. Returned' BY <1>4 DEF Returned
<1>8. OneByOne'
  <2>1. 1..(agg'.next - 1) = {} BY <1>3
  <2> QED BY <2>1, <1>3, <1>4 DEF OneByOne
<1>9. MergedUniform' BY DEF MergedUniform
<1> QED BY <1>5, <1>6, <1>7, <1>8, <1>9 DEF Inv

\* A failed aggregation is a new one without a log.
LEMMA FailInv ==
  ASSUME Fail
  PROVE  Inv'
<1>1. LogOK(<<>>) BY DEF LogOK
<1>2. Detected' BY DEF Fail, Detected
<1>3. LogOK(log)' BY <1>1 DEF Fail
<1> QED BY <1>2, <1>3, FreshInv DEF Fail

\* A reduction with all results and no failed one keeps the invariant.
LEMMA ReduceInv ==
  ASSUME Inv, Aggregating, Reduce, agg.sent = DOMAIN log,
         \A i \in DOMAIN log : ~ExtractFails(log[i]),
         \A w \in Workers : agg.worker[w].pc \in {"idle", "done"}
  PROVE  Inv'
<1>1. CASE stage = "detect" /\ ~OneFormat
  <2>1. Fail BY <1>1 DEF Reduce
  <2> QED BY <2>1, FailInv
<1>2. CASE stage = "detect" /\ OneFormat
  <2>1. stage' = "merge" /\ log' = Filled(log) /\ agg' = [NewAgg EXCEPT !.cancelled = agg.cancelled]
    BY <1>2 DEF Reduce
  <2>2. LogOK(log) /\ agg.cancelled \in BOOLEAN BY Typed DEF Inv, AggOver
  <2>3. LogOK(log)' BY <2>1, <2>2, FilledLog
  <2>4. PICK f : f = log' OBVIOUS
  <2>5. \A k \in DOMAIN f : \E i \in DOMAIN log : f[k] = log[i] /\ log[i].fmt # "none"
    BY <2>1, <2>2, <2>4, FilledLog
  <2>6. ASSUME NEW k \in DOMAIN f, NEW m \in DOMAIN f
        PROVE  f[k].fmt \notin {"none", "bad"} /\ FormatOf(f[k]) = FormatOf(f[m])
    <3>1. PICK i \in DOMAIN log : f[k] = log[i] /\ log[i].fmt # "none" BY <2>5
    <3>2. PICK j \in DOMAIN log : f[m] = log[j] /\ log[j].fmt # "none" BY <2>5
    <3>3. log[i].fmt # "bad" BY <1>2 DEF ExtractFails
    <3>4. FormatOf(log[i]) = FormatOf(log[j]) BY <3>1, <3>2, <1>2 DEF OneFormat
    <3> QED BY <3>1, <3>2, <3>3, <3>4
  <2>7. Detected' BY <2>4, <2>6 DEF Detected
  <2> QED BY <2>1, <2>2, <2>3, <2>7, FreshInv
<1>3. CASE stage = "merge"
  <2>1. stage' = "merged" /\ log' = log /\ agg' = agg BY <1>3 DEF Reduce
  <2>2. AggTypeOK' BY <2>1 DEF Inv, AggTypeOK
  <2>3. Jobs' /\ Returned' /\ OneByOne' BY <2>1 DEF Jobs, Returned, OneByOne, Aggregating
  <2>4. Detected' BY <2>1, <1>3 DEF Inv, Detected, FormatOf
  <2>5. ASSUME NEW i \in DOMAIN log, NEW j \in DOMAIN log
        PROVE  log[i].fmt \in {"v1", "v2"} /\ log[i].fmt = log[j].fmt
    <3>1. log[i].fmt \in Formats /\ log[j].fmt \in Formats BY Typed DEF Inv, LogOK
    <3>2. log[i].fmt # "torn" /\ log[j].fmt # "torn" BY <1>3 DEF ExtractFails
    <3>3. log[i].fmt \notin {"none", "bad"} /\ FormatOf(log[i]) = FormatOf(log[j])
      BY <1>3 DEF Inv, Detected
    <3> QED BY <3>1, <3>2, <3>3 DEF Formats, FormatOf
  <2>6. MergedUniform' BY <2>1, <2>5 DEF MergedUniform
  <2> QED BY <2>2, <2>3, <2>4, <2>6 DEF Inv
<1> QED BY <1>1, <1>2, <1>3 DEF Aggregating

\* A step of one worker that leaves stage and log alone keeps the invariant if
\* its new state, and the results and errors, fit.
LEMMA WorkerStep ==
  ASSUME Inv, NEW w \in Workers, ~(Aggregating /\ Sequential),
         stage' = stage, log' = log, agg' \in AggOver(Len(log)),
         NEW r \in [pc : Pcs, task : 0..Len(log)], agg'.worker = [agg.worker EXCEPT ![w] = r],
         Aggregating, agg.sent \subseteq agg'.sent, agg.errs \subseteq agg'.errs,
         agg.next <= agg'.next, agg.cancelled => agg'.cancelled,
         r.pc = "busy" => r.task # 0,
         r.pc = "done" => agg'.cancelled \/ agg'.next > Len(log),
         \A i \in agg'.sent : i \notin agg.sent /\ ExtractFails(log[i]) => i \in agg'.errs,
         ~agg'.cancelled => \A i \in 1..(agg'.next - 1) :
           \/ i \in agg'.sent
           \/ r.pc = "busy" /\ r.task = i
           \/ i \in 1..(agg.next - 1) /\ ~(agg.worker[w].pc = "busy" /\ agg.worker[w].task = i)
  PROVE  Inv'
<1>1. LogOK(log) /\ Len(log) \in Nat /\ agg \in AggOver(Len(log)) /\ agg.next \in Nat BY Typed DEF Inv
<1>2. \A v \in Workers : agg'.worker[v] = IF v = w THEN r ELSE agg.worker[v]
  BY <1>1 DEF AggOver
<1>3. ~Sequential /\ ~Sequential' /\ Aggregating' /\ \A i \in DOMAIN log : ExtractFails(log[i])' = ExtractFails(log[i])
  BY DEF Sequential, Aggregating, ExtractFails
<1>4. AggTypeOK' BY <1>1, <1>3 DEF AggTypeOK, LogOK, AggOver, Pcs, Aggregating
<1>5. Jobs'
  <2>1. ASSUME NEW v \in Workers, agg'.worker[v].pc = "busy" PROVE agg'.worker[v].task # 0
    BY <2>1, <1>2, <1>3 DEF Inv, Jobs
  <2>2. ASSUME ~agg'.cancelled, NEW i \in 1..(agg'.next - 1)
        PROVE  i \in agg'.sent \/ \E v \in Workers : agg'.worker[v].pc = "busy" /\ agg'.worker[v].task = i
    <3>1. CASE i \in agg'.sent BY <3>1
    <3>2. CASE r.pc = "busy" /\ r.task = i BY <3>2, <1>2
    <3>3. CASE i \in 1..(agg.next - 1) /\ ~(agg.worker[w].pc = "busy" /\ agg.worker[w].task = i)
      <4>1. CASE i \in agg.sent BY <4>1
      <4>2. CASE i \notin agg.sent
        <5>1. ~agg.cancelled BY <2>2
        <5>2. PICK v \in Workers : agg.worker[v].pc = "busy" /\ agg.worker[v].task = i
          BY <5>1, <4>2, <3>3, <1>3 DEF Inv, Jobs
        <5>3. v # w BY <5>2, <3>3
        <5> QED BY <5>2, <5>3, <1>2
      <4> QED BY <4>1, <4>2
    <3> QED BY <2>2, <3>1, <3>2, <3>3
  <2>3. ASSUME NEW i \in agg'.sent, ExtractFails(log[i]) PROVE i \in agg'.errs
    <3>1. CASE i \in agg.sent BY <3>1, <2>3, <1>3 DEF Inv, Jobs
    <3>2. CASE i \notin agg.sent BY <3>2, <2>3
    <3> QED BY <3>1, <3>2
  <2>4. agg'.sent \subseteq DOMAIN log BY <1>1 DEF AggOver, LogOK
  <2> QED BY <2>1, <2>2, <2>3, <2>4, <1>3 DEF Jobs
<1>6. Returned'
  <2>1. ASSUME NEW v \in Workers, agg'.worker[v].pc = "done"
        PROVE  agg'.cancelled \/ agg'.next > Len(log)
    <3>1. CASE v = w BY <3>1, <2>1, <1>2
    <3>2. CASE v # w
      <4>1. agg.cancelled \/ agg.next > Len(log) BY <3>2, <2>1, <1>2, <1>3 DEF Inv, Returned
      <4>2. agg'.next \in Nat BY <1>1 DEF AggOver
      <4> QED BY <4>1, <4>2, <1>1
    <3> QED BY <3>1, <3>2
  <2> QED BY <2>1 DEF Returned
<1>7. OneByOne' BY <1>3 DEF OneByOne
<1>8. Detected' /\ MergedUniform' BY DEF Inv, Detected, MergedUniform, Aggregating, FormatOf
<1> QED BY <1>4, <1>5, <1>6, <1>7, <1>8 DEF Inv

\* A worker that is busy, or has to cancel, belongs to a parallel pass.
LEMMA WorkerAtWork ==
  ASSUME Inv, NEW w \in Workers, agg.worker[w].pc \in {"busy", "cancel"}
  PROVE  Aggregating /\ ~Sequential /\ (agg.worker[w].pc = "busy" => agg.worker[w].task \in 1..Len(log))
<1>1. Aggregating BY DEF Inv, AggTypeOK, Aggregating
<1>2. ~Sequential BY <1>1 DEF Inv, OneByOne
<1>3. agg.worker[w].task \in 0..Len(log) /\ Len(log) \in Nat BY Typed DEF Inv, AggOver
<1>4. agg.worker[w].pc = "busy" => agg.worker[w].task # 0 BY <1>1, <1>2 DEF Inv, Jobs
<1> QED BY <1>1, <1>2, <1>3, <1>4

\* Taking a job keeps the invariant.
LEMMA TakeInv ==
  ASSUME Inv, NEW w \in Workers, Take(w)
  PROVE  Inv'
<1>1. PICK n \in Nat : n = Len(log) BY Typed DEF Inv
<1>2. agg \in AggOver(n) BY <1>1, Typed DEF Inv
<1>3. PICK k \in 1..(n + 1) : k = agg.next BY <1>2 DEF AggOver
<1>4. Aggregating /\ ~Sequential /\ stage' = stage /\ log' = log /\ agg.worker[w].pc = "idle" BY DEF Take
<1>5. CASE k > n
  <2>1. agg' = [agg EXCEPT !.worker[w].pc = "done"] BY <1>1, <1>3, <1>5 DEF Take
  <2>2. PICK r : r = [agg.worker[w] EXCEPT !.pc = "done"] OBVIOUS
  <2>3. r \in [pc : Pcs, task : 0..n] /\ r.pc = "done" BY <1>2, <2>2 DEF AggOver, Pcs
  <2>4. agg'.worker = [agg.worker EXCEPT ![w] = r] BY <1>2, <2>1, <2>2 DEF AggOver
  <2>5. agg'.next = k /\ agg'.sent = agg.sent /\ agg'.errs = agg.errs /\ agg'.cancelled = agg.cancelled
    BY <1>2, <1>3, <2>1 DEF AggOver
  <2>6. agg' \in AggOver(n) BY <1>2, <2>1, <2>2, <2>3 DEF AggOver
  <2> QED BY <1>1, <1>3, <1>4, <1>5, <2>3, <2>4, <2>5, <2>6, WorkerStep
<1>6. CASE ~(k > n)
  <2>1. PICK r : r = IF agg.cancelled THEN [pc |-> "done", task |-> 0] ELSE [pc |-> "busy", task |-> k]
    OBVIOUS
  <2>2. agg' = [agg EXCEPT !.next = @ + 1, !.worker[w] = r] BY <1>1, <1>3, <1>6, <2>1 DEF Take
  <2>3. r \in [pc : Pcs, task : 0..n] BY <2>1, <1>6 DEF Pcs
  <2>4. agg'.worker = [agg.worker EXCEPT ![w] = r] BY <1>2, <2>2 DEF AggOver
  <2>5. agg'.next = k + 1 /\ agg'.sent = agg.sent /\ agg'.errs = agg.errs /\ agg'.cancelled = agg.cancelled
    BY <1>2, <1>3, <2>2 DEF AggOver
  <2>6. k + 1 \in 1..(n + 1) BY <1>6
  <2>7. agg' \in AggOver(n) BY <1>2, <1>3, <2>2, <2>3, <2>6 DEF AggOver
  <2>8. r.pc = "done" => agg'.cancelled BY <2>1, <2>5
  <2>9. r.pc = "busy" => r.task = k /\ r.task # 0 BY <2>1
  <2>10. ASSUME ~agg'.cancelled, NEW i \in 1..(agg'.next - 1)
         PROVE  \/ r.pc = "busy" /\ r.task = i
                \/ i \in 1..(agg.next - 1) /\ ~(agg.worker[w].pc = "busy" /\ agg.worker[w].task = i)
    <3>1. r.pc = "busy" /\ r.task = k BY <2>10, <2>1, <2>5
    <3>2. i = k \/ i \in 1..(k - 1) BY <2>5, <2>6
    <3> QED BY <3>1, <3>2, <1>3, <1>4
  <2> QED BY <1>1, <1>3, <1>4, <2>3, <2>4, <2>5, <2>7, <2>8, <2>9, <2>10, WorkerStep
<1> QED BY <1>5, <1>6

\* Sending a result keeps the invariant.
LEMMA SendInv ==
  ASSUME Inv, NEW w \in Workers, Send(w)
  PROVE  Inv'
<1>1. PICK n \in Nat : n = Len(log) BY Typed DEF Inv
<1>2. agg \in AggOver(n) BY <1>1, Typed DEF Inv
<1>3. PICK t \in 1..n : t = agg.worker[w].task BY <1>1, WorkerAtWork DEF Send
<1>4. Aggregating /\ ~Sequential /\ stage' = stage /\ log' = log /\ agg.worker[w].pc = "busy"
  BY WorkerAtWork DEF Send
<1>5. PICK r : r = [pc |-> IF ExtractFails(log[t]) THEN "cancel" ELSE "idle", task |-> 0] OBVIOUS
<1>6. PICK e : e = IF ExtractFails(log[t]) THEN agg.errs \cup {t} ELSE agg.errs OBVIOUS
<1>7. agg' = [agg EXCEPT !.sent = @ \cup {t}, !.errs = e, !.worker[w] = r]
  BY <1>3, <1>5, <1>6 DEF Send
<1>8. r \in [pc : Pcs, task : 0..n] /\ r.pc # "busy" /\ r.pc # "done" BY <1>5 DEF Pcs
<1>9. agg'.worker = [agg.worker EXCEPT ![w] = r] BY <1>2, <1>7 DEF AggOver
<1>10. agg'.next = agg.next /\ agg'.sent = agg.sent \cup {t} /\ agg'.errs = e /\ agg'.cancelled = agg.cancelled
  BY <1>2, <1>7 DEF AggOver
<1>11. e \in SUBSET (1..n) /\ agg.errs \subseteq e BY <1>2, <1>6 DEF AggOver
<1>12. agg' \in AggOver(n) BY <1>2, <1>7, <1>8, <1>11 DEF AggOver
<1>13. agg.next \in Nat BY Typed DEF Inv
<1>14. ASSUME NEW i \in agg'.sent, i \notin agg.sent, ExtractFails(log[i]) PROVE i \in agg'.errs
  <2>1. i = t BY <1>10, <1>14
  <2> QED BY <2>1, <1>6, <1>10, <1>14
<1>15. ASSUME NEW i \in 1..(agg'.next - 1)
       PROVE  \/ i \in agg'.sent
              \/ i \in 1..(agg.next - 1) /\ ~(agg.worker[w].pc = "busy" /\ agg.worker[w].task = i)
  BY <1>3, <1>10
<1> QED BY <1>1, <1>4, <1>8, <1>9, <1>10, <1>11, <1>12, <1>13, <1>14, <1>15, WorkerStep

\* Giving up, or cancelling after an error, keeps the invariant.
LEMMA ReturnInv ==
  ASSUME Inv, NEW w \in Workers, GiveUp(w) \/ Cancel(w)
  PROVE  Inv'
<1>1. PICK n \in Nat : n = Len(log) BY Typed DEF Inv
<1>2. agg \in AggOver(n) BY <1>1, Typed DEF Inv
<1>3. Aggregating /\ ~Sequential /\ stage' = stage /\ log' = log BY WorkerAtWork DEF GiveUp, Cancel
<1>4. PICK r : r = IF GiveUp(w) THEN [pc |-> "done", task |-> 0] ELSE [agg.worker[w] EXCEPT !.pc = "done"]
  OBVIOUS
<1>5. agg' = [agg EXCEPT !.worker[w] = r] \/ agg' = [agg EXCEPT !.cancelled = TRUE, !.worker[w] = r]
  <2>1. CASE GiveUp(w) BY <2>1, <1>4 DEF GiveUp
  <2>2. CASE ~GiveUp(w) /\ Cancel(w)
    <3>1. agg' = [agg EXCEPT !.cancelled = TRUE, !.worker[w].pc = "done"] BY <2>2 DEF Cancel
    <3>2. r = [agg.worker[w] EXCEPT !.pc = "done"] BY <2>2, <1>4
    <3> QED BY <3>1, <3>2, <1>2 DEF AggOver
  <2> QED BY <2>1, <2>2
<1>6. r \in [pc : Pcs, task : 0..n] /\ r.pc = "done" BY <1>2, <1>4 DEF AggOver, Pcs
<1>7. agg'.worker = [agg.worker EXCEPT ![w] = r] BY <1>2, <1>5 DEF AggOver
<1>8. agg'.next = agg.next /\ agg'.sent = agg.sent /\ agg'.errs = agg.errs BY <1>2, <1>5 DEF AggOver
<1>9. agg'.cancelled
  <2>1. CASE GiveUp(w)
    <3>1. agg.cancelled BY <2>1 DEF GiveUp
    <3> QED BY <3>1, <1>2, <1>5 DEF AggOver
  <2>2. CASE Cancel(w)
    <3>1. agg' = [agg EXCEPT !.cancelled = TRUE, !.worker[w].pc = "done"] BY <2>2 DEF Cancel
    <3> QED BY <3>1, <1>2 DEF AggOver
  <2> QED BY <2>1, <2>2
<1>10. agg' \in AggOver(n)
  <2>1. CASE agg' = [agg EXCEPT !.worker[w] = r] BY <1>2, <2>1, <1>6 DEF AggOver
  <2>2. CASE agg' = [agg EXCEPT !.cancelled = TRUE, !.worker[w] = r]
    BY <1>2, <2>2, <1>6 DEF AggOver
  <2> QED BY <2>1, <2>2, <1>5
<1>11. agg.next \in Nat BY Typed DEF Inv
<1> QED BY <1>1, <1>3, <1>6, <1>7, <1>8, <1>9, <1>10, <1>11, WorkerStep

\* The end of the caller's context keeps the invariant.
LEMMA CallerCancelsInv ==
  ASSUME Inv, CallerCancels
  PROVE  Inv'
<1>1. PICK n \in Nat : n = Len(log) BY Typed DEF Inv
<1>2. agg \in AggOver(n) BY <1>1, Typed DEF Inv
<1>3. Aggregating /\ stage' = stage /\ log' = log /\ agg' = [agg EXCEPT !.cancelled = TRUE]
  BY DEF CallerCancels
<1>4. /\ agg'.worker = agg.worker /\ agg'.next = agg.next /\ agg'.sent = agg.sent
      /\ agg'.errs = agg.errs /\ agg'.cancelled /\ agg' \in AggOver(n)
  BY <1>2, <1>3 DEF AggOver
<1>5. (Sequential' <=> Sequential) /\ Aggregating' BY <1>3 DEF Sequential, Aggregating
<1>6. LogOK(log) BY Typed DEF Inv
<1>7. AggTypeOK'
  <2>1. (agg \in AggOver(Len(log)))' /\ LogOK(log)' BY <1>1, <1>3, <1>4, <1>6
  <2>2. stage' \in {"detect", "merge"} BY <1>5 DEF Aggregating
  <2> QED BY <2>1, <2>2 DEF AggTypeOK, LogOK, AggOver, Pcs, Aggregating
<1>8. Jobs' BY <1>3, <1>4, <1>5 DEF Inv, Jobs, ExtractFails
<1>9. Returned' BY <1>4 DEF Returned
<1>10. OneByOne' BY <1>3, <1>4, <1>5 DEF Inv, OneByOne, ExtractFails
<1>11. Detected' /\ MergedUniform' BY <1>3 DEF Inv, Detected, MergedUniform, FormatOf
<1> QED BY <1>7, <1>8, <1>9, <1>10, <1>11 DEF Inv

\* When all workers returned, without an error and with the context alive, the
\* results are complete.
LEMMA AllResults ==
  ASSUME Inv, Aggregating, ~Sequential, Collected, \A w \in Workers : agg.worker[w].pc = "done"
  PROVE  agg.sent = DOMAIN log /\ \A i \in DOMAIN log : ~ExtractFails(log[i])
<1>1. PICK n \in Nat : n = Len(log) BY Typed DEF Inv
<1>2. agg \in AggOver(n) /\ DOMAIN log = 1..n BY <1>1, Typed DEF Inv
<1>3. PICK k \in 1..(n + 1) : k = agg.next BY <1>2 DEF AggOver
<1>4. agg.errs = {} /\ ~agg.cancelled BY DEF Collected
<1>5. PICK w \in Workers : TRUE BY AggregationAssumption
<1>6. k > n BY <1>1, <1>3, <1>4, <1>5 DEF Inv, Returned
<1>7. \A i \in 1..n : i \in agg.sent BY <1>3, <1>4, <1>6 DEF Inv, Jobs
<1>8. agg.sent \subseteq 1..n BY <1>2 DEF AggOver
<1>9. agg.sent = 1..n BY <1>7, <1>8
<1>10. \A i \in agg.sent : ~ExtractFails(log[i]) BY <1>4 DEF Inv, Jobs
<1> QED BY <1>2, <1>9, <1>10

\* So they are after the last payload was taken sequentially.
LEMMA AllTaken ==
  ASSUME Inv, Aggregating, Sequential, agg.next > Len(log)
  PROVE  agg.sent = DOMAIN log /\ \A i \in DOMAIN log : ~ExtractFails(log[i])
<1>1. PICK n \in Nat : n = Len(log) BY Typed DEF Inv
<1>2. agg \in AggOver(n) /\ DOMAIN log = 1..n BY <1>1, Typed DEF Inv
<1>3. PICK k \in 1..(n + 1) : k = agg.next BY <1>2 DEF AggOver
<1>4. k = n + 1 BY <1>1, <1>3
<1>5. agg.sent = 1..n BY <1>3, <1>4 DEF Inv, OneByOne
<1>6. \A i \in agg.sent : ~ExtractFails(log[i]) BY DEF Inv, OneByOne
<1> QED BY <1>2, <1>5, <1>6

\* Collecting keeps the invariant.
LEMMA CollectInv ==
  ASSUME Inv, Collect
  PROVE  Inv'
<1>1. CASE Collected
  <2>1. Reduce /\ Aggregating /\ ~Sequential /\ \A w \in Workers : agg.worker[w].pc = "done"
    BY <1>1 DEF Collect
  <2>2. agg.sent = DOMAIN log /\ \A i \in DOMAIN log : ~ExtractFails(log[i]) BY <1>1, <2>1, AllResults
  <2> QED BY <2>1, <2>2, ReduceInv
<1>2. CASE ~Collected
  <2>1. Fail BY <1>2 DEF Collect
  <2> QED BY <2>1, FailInv
<1> QED BY <1>1, <1>2

\* So does the sequential reduction.
LEMMA ReduceSequentiallyInv ==
  ASSUME Inv, ReduceSequentially
  PROVE  Inv'
<1>1. CASE Fail BY <1>1, FailInv
<1>2. CASE ~Fail
  <2>1. Reduce /\ Aggregating /\ Sequential /\ agg.next > Len(log) BY <1>2 DEF ReduceSequentially
  <2>2. agg.sent = DOMAIN log /\ \A i \in DOMAIN log : ~ExtractFails(log[i]) BY <2>1, AllTaken
  <2>3. \A w \in Workers : agg.worker[w].pc = "idle" BY <2>1 DEF Inv, OneByOne
  <2> QED BY <2>1, <2>2, <2>3, ReduceInv
<1> QED BY <1>1, <1>2

\* And taking one payload after another.
LEMMA TakeSequentiallyInv ==
  ASSUME Inv, TakeSequentially
  PROVE  Inv'
<1>1. PICK n \in Nat : n = Len(log) BY Typed DEF Inv
<1>2. agg \in AggOver(n) /\ DOMAIN log = 1..n BY <1>1, Typed DEF Inv
<1>3. PICK k \in 1..(n + 1) : k = agg.next BY <1>2 DEF AggOver
<1>4. Aggregating /\ Sequential /\ k \in 1..n BY <1>1, <1>3 DEF TakeSequentially
<1>5. CASE agg.cancelled \/ ExtractFails(log[k])
  <2>1. Fail BY <1>3, <1>5 DEF TakeSequentially
  <2> QED BY <2>1, FailInv
<1>6. CASE ~(agg.cancelled \/ ExtractFails(log[k]))
  <2>1. agg' = [agg EXCEPT !.next = @ + 1, !.sent = @ \cup {k}] /\ stage' = stage /\ log' = log
    BY <1>3, <1>6 DEF TakeSequentially
  <2>2. PICK m \in 1..(n + 1) : m = k + 1 BY <1>4
  <2>3. PICK s : s = agg.sent \cup {k} OBVIOUS
  <2>4. s \in SUBSET (1..n) BY <1>2, <1>4, <2>3 DEF AggOver
  <2>5. agg' = [agg EXCEPT !.next = m, !.sent = s] BY <1>3, <2>1, <2>2, <2>3
  <2>6. agg' \in AggOver(n) BY <1>2, <2>4, <2>5 DEF AggOver
  <2>7. agg'.worker = agg.worker /\ agg'.next = m /\ agg'.sent = s /\ agg'.errs = agg.errs
    BY <1>2, <2>5 DEF AggOver
  <2>8. /\ agg'.worker = agg.worker /\ agg'.next = k + 1 /\ agg'.sent = agg.sent \cup {k}
        /\ agg'.errs = agg.errs /\ agg' \in AggOver(n)
    BY <2>2, <2>3, <2>6, <2>7
  <2>9. Sequential' /\ Aggregating' BY <1>4, <2>1 DEF Sequential, Aggregating
  <2>10. LogOK(log) BY Typed DEF Inv
  <2>11. AggTypeOK' BY <1>1, <1>4, <2>1, <2>8, <2>10 DEF AggTypeOK, LogOK, AggOver, Pcs, Aggregating
  <2>12. Jobs' /\ Returned' BY <2>9 DEF Jobs, Returned
  <2>13. OneByOne'
    <3>1. agg.sent = 1..(k - 1) /\ agg.errs = {} /\ \A i \in agg.sent : ~ExtractFails(log[i])
      BY <1>3, <1>4 DEF Inv, OneByOne
    <3>2. \A w \in Workers : agg.worker[w].pc = "idle" BY <1>4 DEF Inv, OneByOne
    <3>3. 1..(k - 1) \cup {k} = 1..((k + 1) - 1) BY <1>4
    <3>4. \A i \in agg'.sent : ~ExtractFails(log[i]) BY <3>1, <2>8, <1>6
    <3> QED BY <3>1, <3>2, <3>3, <3>4, <2>1, <2>8 DEF OneByOne, ExtractFails
  <2>14. Detected' /\ MergedUniform' BY <2>1 DEF Inv, Detected, MergedUniform, FormatOf
  <2> QED BY <2>11, <2>12, <2>13, <2>14 DEF Inv
<1> QED BY <1>5, <1>6

\* Initially a new aggregation looks at a log.
LEMMA InitInv == AggInit => Inv
<1> SUFFICES ASSUME AggInit PROVE Inv OBVIOUS
<1>1. LogOK(log) BY AggregationAssumption DEF AggInit, LogOK
<1>2. Len(log) \in Nat /\ DOMAIN log = 1..Len(log) BY <1>1 DEF LogOK
<1>3. stage = "detect" /\ agg = NewAgg BY DEF AggInit
<1>4. agg \in AggOver(Len(log)) BY <1>2, <1>3, NewAggType
<1>5. agg.next = 1 /\ agg.sent = {} /\ agg.errs = {} /\ \A w \in Workers : agg.worker[w].pc = "idle"
  BY <1>3 DEF NewAgg, Idle
<1>6. AggTypeOK BY <1>1, <1>3, <1>4 DEF AggTypeOK, LogOK, AggOver, Pcs, Aggregating
<1>7. 1..(agg.next - 1) = {} BY <1>5
<1>8. Jobs /\ Returned /\ OneByOne BY <1>5, <1>7 DEF Jobs, Returned, OneByOne
<1>9. Detected /\ MergedUniform BY <1>3 DEF Detected, MergedUniform
<1> QED BY <1>6, <1>8, <1>9 DEF Inv

\* Every step keeps the invariant.
LEMMA NextInv == Inv /\ [AggNext]_aggVars => Inv'
<1> SUFFICES ASSUME Inv, [AggNext]_aggVars PROVE Inv' OBVIOUS
<1>1. ASSUME NEW w \in Workers, Take(w) \/ Send(w) \/ GiveUp(w) \/ Cancel(w) PROVE Inv'
  BY <1>1, TakeInv, SendInv, ReturnInv
<1>2. CASE CallerCancels BY <1>2, CallerCancelsInv
<1>3. CASE Collect BY <1>3, CollectInv
<1>4. CASE TakeSequentially BY <1>4, TakeSequentiallyInv
<1>5. CASE ReduceSequentially BY <1>5, ReduceSequentiallyInv
<1>6. CASE UNCHANGED aggVars
  BY <1>6 DEF aggVars, Inv, AggTypeOK, Jobs, Returned, OneByOne, Detected, MergedUniform, Aggregating,
              Sequential, ExtractFails, FormatOf
<1> QED BY <1>1, <1>2, <1>3, <1>4, <1>5, <1>6 DEF AggNext

\* Every variable of an aggregation keeps its type, for any log and any number
\* of workers.
THEOREM AggregationTyped == AggSpec => []AggTypeOK
<1>1. Inv => AggTypeOK BY DEF Inv
<1> QED BY InitInv, NextInv, <1>1, PTL DEF AggSpec

\* What was merged is of one format and decodes: the format found by the first
\* pass holds of the payloads of the second, whatever the workers did.
THEOREM MergedOfOneFormat == AggSpec => []MergedUniform
<1>1. Inv => MergedUniform BY DEF Inv
<1> QED BY InitInv, NextInv, <1>1, PTL DEF AggSpec

\* A pass never goes on with a result missing or failed, for any log, any
\* number of workers and whenever contexts end.
THEOREM PassesAreComplete == AggSpec => PassesComplete
<1>1. ASSUME Inv, [AggNext]_aggVars, Aggregating, stage' \in {"merge", "merged"}, stage' # stage
      PROVE  agg.sent = DOMAIN log /\ \A i \in DOMAIN log : ~ExtractFails(log[i])
  <2>1. CASE Collect
    <3>1. Collected BY <1>1, <2>1 DEF Collect, Fail
    <3> QED BY <1>1, <2>1, <3>1, AllResults DEF Collect
  <2>2. CASE ReduceSequentially BY <1>1, <2>2, AllTaken DEF ReduceSequentially
  <2>3. CASE TakeSequentially BY <1>1, <2>3 DEF TakeSequentially, Fail
  <2>4. CASE CallerCancels BY <1>1, <2>4 DEF CallerCancels
  <2>5. ASSUME NEW w \in Workers, Take(w) \/ Send(w) \/ GiveUp(w) \/ Cancel(w) PROVE FALSE
    BY <1>1, <2>5 DEF Take, Send, GiveUp, Cancel
  <2>6. CASE UNCHANGED aggVars BY <1>1, <2>6 DEF aggVars
  <2> QED BY <1>1, <2>1, <2>2, <2>3, <2>4, <2>5, <2>6 DEF AggNext
<1>2. Inv /\ [AggNext]_aggVars =>
        [Aggregating /\ stage' \in {"merge", "merged"} /\ stage' # stage =>
           /\ agg.sent = DOMAIN log
           /\ \A i \in DOMAIN log : ~ExtractFails(log[i])
           /\ MergedUniform']_aggVars
  <2>1. Inv /\ [AggNext]_aggVars => MergedUniform' BY NextInv DEF Inv
  <2> QED BY <1>1, <2>1
<1> QED BY InitInv, NextInv, <1>2, PTL DEF AggSpec, PassesComplete

-----------------------------------------------------------------------------
(* Ranges of clocks below Top, and sorted sequences of them.               *)

Ranges == {r \in [clock : Nat, len : Nat] : r.len # 0 /\ r.clock + r.len <= Top}

\* A clock is in one of the ranges.
Covers(ranges, k) == \E i \in 1..Len(ranges) : ContainsClock(ranges[i], k)

\* The normal form, with the order between any two ranges.
Tidy(ranges) ==
  /\ ranges \in Seq(Ranges)
  /\ \A i, j \in 1..Len(ranges) : i < j => End(ranges[i]) < ranges[j].clock

\* The larger and the smaller of two numbers.
LEMMA MaxMin ==
  ASSUME NEW a \in Int, NEW b \in Int
  PROVE  /\ Max({a, b}) = IF a >= b THEN a ELSE b
         /\ Min({a, b}) = IF a <= b THEN a ELSE b
BY DEF Max, Min

\* A range has natural bounds and its end is after its start.
LEMMA RangeBounds ==
  ASSUME NEW r \in Ranges
  PROVE  /\ r.clock \in Nat /\ r.len \in Nat /\ End(r) \in Nat /\ r.len = End(r) - r.clock
         /\ r.clock < End(r) /\ End(r) <= Top
BY RangeSetAssumption, WidthAssumption DEF Ranges, End

\* Two bounds make a range.
LEMMA MakeRange ==
  ASSUME NEW a \in Nat, NEW b \in Nat, a < b, b <= Top
  PROVE  /\ [clock |-> a, len |-> b - a] \in Ranges
         /\ End([clock |-> a, len |-> b - a]) = b
BY RangeSetAssumption, WidthAssumption DEF Ranges, End

\* Touching ranges merge into the range of the clocks of both.
LEMMA MergeTouching ==
  ASSUME Top < Width, NEW r \in Ranges, NEW s \in Ranges, r.clock <= End(s), s.clock <= End(r)
  PROVE  /\ MergeRanges(r, s) \in Ranges
         /\ MergeRanges(r, s).clock = IF r.clock <= s.clock THEN r.clock ELSE s.clock
         /\ End(MergeRanges(r, s)) = IF End(r) >= End(s) THEN End(r) ELSE End(s)
         /\ \A k \in Nat : ContainsClock(MergeRanges(r, s), k) <=> ContainsClock(r, k) \/ ContainsClock(s, k)
<1>1. PICK a \in Nat : a = r.clock BY RangeBounds
<1>2. PICK b \in Nat : b = End(r) BY RangeBounds
<1>3. PICK c \in Nat : c = s.clock BY RangeBounds
<1>4. PICK d \in Nat : d = End(s) BY RangeBounds
<1>5. a < b /\ b <= Top /\ c < d /\ d <= Top /\ a <= d /\ c <= b BY <1>1, <1>2, <1>3, <1>4, RangeBounds
<1>6. PICK lo \in Nat : lo = IF a <= c THEN a ELSE c OBVIOUS
<1>7. PICK hi \in Nat : hi = IF b >= d THEN b ELSE d OBVIOUS
<1>8. Min({a, c}) = lo /\ Max({b, d}) = hi BY <1>6, <1>7, MaxMin
<1>9. lo < hi /\ hi <= Top /\ Width \in Nat /\ Top \in Nat BY <1>5, <1>6, <1>7, RangeSetAssumption, WidthAssumption
<1>10. (hi - lo) % Width = hi - lo BY <1>9
<1>11. PICK m : m = [clock |-> lo, len |-> hi - lo] OBVIOUS
<1>12. MergeRanges(r, s) = m BY <1>1, <1>2, <1>3, <1>4, <1>8, <1>10, <1>11 DEF MergeRanges
<1>13. m \in Ranges /\ End(m) = hi /\ m.clock = lo BY <1>9, <1>11, MakeRange
<1>14. ASSUME NEW k \in Nat
       PROVE  ContainsClock(m, k) <=> ContainsClock(r, k) \/ ContainsClock(s, k)
  <2>1. (lo <= k /\ k < hi) <=> (a <= k /\ k < b) \/ (c <= k /\ k < d) BY <1>5, <1>6, <1>7
  <2> QED BY <2>1, <1>13, <1>1, <1>2, <1>3, <1>4 DEF ContainsClock
<1> QED BY <1>12, <1>13, <1>14, <1>1, <1>2, <1>3, <1>4, <1>6, <1>7

\* A range behind all others can be appended.
LEMMA AppendTidy ==
  ASSUME NEW s, Tidy(s), NEW r \in Ranges, \A i \in 1..Len(s) : End(s[i]) < r.clock
  PROVE  /\ Tidy(Append(s, r)) /\ Len(Append(s, r)) = Len(s) + 1
         /\ \A i \in 1..Len(s) : Append(s, r)[i] = s[i]
         /\ Append(s, r)[Len(s) + 1] = r
         /\ \A k \in Nat : Covers(Append(s, r), k) <=> Covers(s, k) \/ ContainsClock(r, k)
<1>1. s \in Seq(Ranges) BY DEF Tidy
<1>2. PICK n \in Nat : n = Len(s) BY <1>1
<1>3. PICK t : t = Append(s, r) OBVIOUS
<1>4. t \in Seq(Ranges) /\ Len(t) = n + 1 /\ t[n + 1] = r BY <1>1, <1>2, <1>3
<1>5. \A i \in 1..n : t[i] = s[i] BY <1>1, <1>2, <1>3
<1>6. ASSUME NEW i \in 1..(n + 1), NEW j \in 1..(n + 1), i < j PROVE End(t[i]) < t[j].clock
  <2>1. CASE j = n + 1
    <3>1. i \in 1..n BY <2>1, <1>6
    <3> QED BY <3>1, <2>1, <1>2, <1>4, <1>5
  <2>2. CASE j # n + 1
    <3>1. i \in 1..n /\ j \in 1..n BY <2>2, <1>6
    <3> QED BY <3>1, <1>2, <1>5, <1>6 DEF Tidy
  <2> QED BY <2>1, <2>2
<1>7. Tidy(t) BY <1>4, <1>6 DEF Tidy
<1>8. ASSUME NEW k \in Nat PROVE Covers(t, k) <=> Covers(s, k) \/ ContainsClock(r, k)
  <2>1. ASSUME Covers(t, k) PROVE Covers(s, k) \/ ContainsClock(r, k)
    <3>1. PICK i \in 1..(n + 1) : ContainsClock(t[i], k) BY <2>1, <1>4 DEF Covers
    <3>2. i = n + 1 \/ i \in 1..n OBVIOUS
    <3> QED BY <3>1, <3>2, <1>2, <1>4, <1>5 DEF Covers
  <2>2. ASSUME Covers(s, k) PROVE Covers(t, k)
    <3>1. PICK i \in 1..n : ContainsClock(s[i], k) BY <2>2, <1>2 DEF Covers
    <3>2. i \in 1..(n + 1) /\ t[i] = s[i] BY <1>5
    <3> QED BY <3>1, <3>2, <1>4 DEF Covers
  <2>3. ASSUME ContainsClock(r, k) PROVE Covers(t, k)
    <3>1. n + 1 \in 1..(n + 1) OBVIOUS
    <3> QED BY <3>1, <2>3, <1>4 DEF Covers
  <2> QED BY <2>1, <2>2, <2>3
<1> QED BY <1>2, <1>3, <1>4, <1>5, <1>7, <1>8

-----------------------------------------------------------------------------
(* Adding a range.                                                         *)

\* The states of the pass over the old ranges.
Passing == [out : Seq(Ranges), next : Ranges, placed : BOOLEAN]

\* What one step of the pass does, by cases.
LEMMA AbsorbCases ==
  ASSUME Top < Width, NEW a \in Passing, NEW r \in Ranges
  PROVE  /\ Absorb(a, r) \in Passing
         /\ End(r) < a.next.clock =>
              Absorb(a, r) = [out |-> Append(a.out, r), next |-> a.next, placed |-> a.placed]
         /\ ~(End(r) < a.next.clock) /\ End(a.next) < r.clock /\ a.placed =>
              Absorb(a, r) = [out |-> Append(a.out, r), next |-> a.next, placed |-> TRUE]
         /\ ~(End(r) < a.next.clock) /\ End(a.next) < r.clock /\ ~a.placed =>
              Absorb(a, r) = [out |-> Append(Append(a.out, a.next), r), next |-> a.next, placed |-> TRUE]
         /\ ~(End(r) < a.next.clock) /\ ~(End(a.next) < r.clock) =>
              Absorb(a, r) = [out |-> a.out, next |-> MergeRanges(a.next, r), placed |-> a.placed]
<1>1. a.out \in Seq(Ranges) /\ a.next \in Ranges /\ a.placed \in BOOLEAN
      /\ a = [out |-> a.out, next |-> a.next, placed |-> a.placed]
  BY DEF Passing
<1>2. \A s \in Seq(Ranges) : s \o <<r>> = Append(s, r) /\ Append(s, r) \in Seq(Ranges) OBVIOUS
<1>3. ~(End(r) < a.next.clock /\ End(a.next) < r.clock)
  <2>1. r.clock < End(r) /\ a.next.clock < End(a.next) BY <1>1, RangeBounds
  <2>2. r.clock \in Nat /\ End(r) \in Nat /\ a.next.clock \in Nat /\ End(a.next) \in Nat BY <1>1, RangeBounds
  <2> QED BY <2>1, <2>2
<1>4. CASE End(r) < a.next.clock
  <2>1. Absorb(a, r) = [a EXCEPT !.out = Append(@, r)] BY <1>4, <1>3 DEF Absorb
  <2>2. Absorb(a, r) = [out |-> Append(a.out, r), next |-> a.next, placed |-> a.placed]
    BY <2>1, <1>1
  <2> QED BY <2>2, <1>1, <1>2, <1>4 DEF Passing
<1>5. CASE ~(End(r) < a.next.clock) /\ End(a.next) < r.clock
  <2>1. PICK t : t = IF a.placed THEN a.out ELSE Append(a.out, a.next) OBVIOUS
  <2>2. t \in Seq(Ranges) BY <2>1, <1>1
  <2>3. Absorb(a, r) = [a EXCEPT !.out = t \o <<r>>, !.placed = TRUE] BY <1>5, <2>1 DEF Absorb
  <2>4. Absorb(a, r) = [out |-> Append(t, r), next |-> a.next, placed |-> TRUE]
    BY <2>2, <2>3, <1>1, <1>2
  <2>5. Append(t, r) \in Seq(Ranges) BY <2>2, <1>2
  <2>6. Absorb(a, r) \in Passing BY <2>4, <2>5, <1>1 DEF Passing
  <2>7. a.placed => t = a.out BY <2>1
  <2>8. ~a.placed => t = Append(a.out, a.next) BY <2>1
  <2> QED BY <2>4, <2>6, <2>7, <2>8, <1>5
<1>6. CASE ~(End(r) < a.next.clock) /\ ~(End(a.next) < r.clock)
  <2>1. Absorb(a, r) = [a EXCEPT !.next = MergeRanges(@, r)] BY <1>6 DEF Absorb
  <2>2. Absorb(a, r) = [out |-> a.out, next |-> MergeRanges(a.next, r), placed |-> a.placed]
    BY <2>1, <1>1
  <2>3. a.next.clock <= End(r) /\ r.clock <= End(a.next) BY <1>1, <1>6, RangeBounds
  <2>4. MergeRanges(a.next, r) \in Ranges BY <2>3, <1>1, MergeTouching
  <2> QED BY <2>2, <2>4, <1>1, <1>6 DEF Passing
<1> QED BY <1>4, <1>5, <1>6

\* The pass is the function its definition describes.
LEMMA PassStep ==
  ASSUME Top < Width, NEW s \in Seq(Ranges), NEW r \in Ranges
  PROVE  /\ Pass(s, r)[0] = [out |-> <<>>, next |-> r, placed |-> FALSE]
         /\ \A i \in 1..Len(s) : Pass(s, r)[i] = Absorb(Pass(s, r)[i - 1], s[i])
         /\ \A i \in 0..Len(s) : Pass(s, r)[i] \in Passing
<1>1. PICK n \in Nat : n = Len(s) OBVIOUS
<1> DEFINE Step(i, v) == Absorb(v, s[i])
           Raw(p) == p = [i \in 0..n |-> IF i = 0 THEN [out |-> <<>>, next |-> r, placed |-> FALSE] ELSE Step(i, p[i - 1])]
<1>2. PICK V : V = Passing OBVIOUS
<1>3. \A i \in 1..n, v \in V : Step(i, v) \in V
  <2>1. ASSUME NEW i \in 1..n, NEW v \in V PROVE Step(i, v) \in V
    <3>1. s[i] \in Ranges BY <1>1
    <3>2. v \in Passing BY <1>2
    <3> QED BY <3>1, <3>2, <1>2, AbsorbCases
  <2> QED BY <2>1
<1>4. [out |-> <<>>, next |-> r, placed |-> FALSE] \in V BY <1>2 DEF Passing
<1>5. PICK b \in V : b = [out |-> <<>>, next |-> r, placed |-> FALSE] BY <1>4
<1>6. Pass(s, r) = CHOOSE q : Raw(q) BY <1>1 DEF Pass
<1> DEFINE Is(p) == p = [i \in 0..n |-> IF i = 0 THEN b ELSE Step(i, p[i - 1])]
<1> HIDE DEF Step
<1>7. \A q : Raw(q) <=> Is(q) BY <1>5
<1> HIDE DEF Raw
<1>8. PICK G : G = [i \in 1..n |-> [v \in V |-> Step(i, v)]] OBVIOUS
<1>9. G \in [1..n -> [V -> V]] BY <1>3, <1>8
<1>10. Defined(n, V, b, G) BY <1>9, Recursion
<1>11. \A i \in 1..n, v \in V : G[i][v] = Step(i, v) BY <1>8
<1>12. PICK p \in [0..n -> V] : p[0] = b /\ \A i \in 1..n : p[i] = G[i][p[i - 1]]
  BY <1>10 DEF Defined
<1>13. ASSUME NEW i \in 1..n PROVE p[i] = Step(i, p[i - 1])
  <2>1. i - 1 \in 0..n OBVIOUS
  <2>2. p[i - 1] \in V BY <2>1
  <2> QED BY <2>2, <1>11, <1>12
<1>14. Is(p)
  <2>1. ASSUME NEW i \in 0..n PROVE p[i] = IF i = 0 THEN b ELSE Step(i, p[i - 1])
    BY <1>12, <1>13
  <2> QED BY <2>1
<1>15. PICK f : f = Pass(s, r) OBVIOUS
<1>16. Raw(f) BY <1>14, <1>7, <1>6, <1>15
<1>17. Is(f) BY <1>7, <1>16
<1>18. f[0] = b BY <1>17
<1>19. \A i \in 1..n : f[i] = Step(i, f[i - 1]) BY <1>17
<1>20. \A i \in 1..n : f[i - 1] \in V => f[i] \in V BY <1>19, <1>3
<1>21. \A i \in 0..n : f[i] \in V BY <1>18, <1>20, RecursionType
<1> QED BY <1>1, <1>2, <1>5, <1>15, <1>18, <1>19, <1>21 DEF Step

\* Between two steps: what is out is in order and before what is to come, the
\* new range is behind what is out until it is placed and then before what is
\* to come, and together they hold the new range and the ranges passed.
Passed(s, r, i, k) == ContainsClock(r, k) \/ \E j \in 1..i : ContainsClock(s[j], k)

PassCovers(s, r, i, a) ==
  \A k \in Nat : Passed(s, r, i, k) <=> Covers(a.out, k) \/ (~a.placed /\ ContainsClock(a.next, k))

PassOrder(s, i, a) ==
  /\ a \in Passing /\ Tidy(a.out)
  /\ \A m \in 1..Len(a.out), j \in (i + 1)..Len(s) : End(a.out[m]) < s[j].clock
  /\ ~a.placed => \A m \in 1..Len(a.out) : End(a.out[m]) < a.next.clock
  /\ a.placed => \A j \in (i + 1)..Len(s) : End(a.next) < s[j].clock

PassInv(s, r, i, a) == PassOrder(s, i, a) /\ PassCovers(s, r, i, a)

\* A step of the pass keeps it.
LEMMA AbsorbInv ==
  ASSUME Top < Width, NEW s, Tidy(s), NEW r \in Ranges, NEW i \in 1..Len(s), NEW a, PassInv(s, r, i - 1, a)
  PROVE  PassInv(s, r, i, Absorb(a, s[i]))
<1>1. s \in Seq(Ranges) BY DEF Tidy
<1>2. PICK n \in Nat : n = Len(s) BY <1>1
<1>3. i \in 1..n BY <1>2
<1>4. PICK x \in Ranges : x = s[i] BY <1>1
<1>5. PICK b : b = Absorb(a, x) OBVIOUS
<1>6. a \in Passing /\ a.out \in Seq(Ranges) /\ a.next \in Ranges /\ a.placed \in BOOLEAN /\ Tidy(a.out)
  BY DEF PassInv, PassOrder, Passing
<1>7. b \in Passing BY <1>5, <1>6, AbsorbCases
<1>8. \A m \in 1..Len(a.out) : End(a.out[m]) < x.clock
  <2>1. i \in ((i - 1) + 1)..n BY <1>3
  <2> QED BY <2>1, <1>2, <1>4 DEF PassInv, PassOrder
<1>9. \A j \in (i + 1)..n : j \in ((i - 1) + 1)..n /\ j \in 1..n BY <1>3
<1>10. \A j \in (i + 1)..n : s[j] \in Ranges /\ End(x) < s[j].clock BY <1>9, <1>1, <1>2, <1>3, <1>4 DEF Tidy
<1>11. \A j \in (i + 1)..n, m \in 1..Len(a.out) : End(a.out[m]) < s[j].clock BY <1>9, <1>2 DEF PassInv, PassOrder
<1>12. ASSUME NEW k \in Nat
       PROVE  Passed(s, r, i, k) <=> Covers(a.out, k) \/ (~a.placed /\ ContainsClock(a.next, k)) \/ ContainsClock(x, k)
  <2>1. Passed(s, r, i, k) <=> Passed(s, r, i - 1, k) \/ ContainsClock(x, k)
    <3>1. \A j \in 1..i : j = i \/ j \in 1..(i - 1) OBVIOUS
    <3>2. \A j \in 1..(i - 1) : j \in 1..i OBVIOUS
    <3>3. i \in 1..i BY <1>3
    <3> QED BY <3>1, <3>2, <3>3, <1>4 DEF Passed
  <2>2. Passed(s, r, i - 1, k) <=> Covers(a.out, k) \/ (~a.placed /\ ContainsClock(a.next, k))
    BY DEF PassInv, PassCovers
  <2> QED BY <2>1, <2>2
<1>13. a.placed => End(a.next) < x.clock
  <2>1. i \in ((i - 1) + 1)..n BY <1>3
  <2> QED BY <2>1, <1>2, <1>4 DEF PassInv, PassOrder
<1>14. ~a.placed => \A m \in 1..Len(a.out) : End(a.out[m]) < a.next.clock BY DEF PassInv, PassOrder
<1>15. x.clock \in Nat /\ End(x) \in Nat /\ x.clock < End(x) BY RangeBounds
<1>16. a.next.clock \in Nat /\ End(a.next) \in Nat /\ a.next.clock < End(a.next) BY <1>6, RangeBounds
<1>17. PICK t : t = Append(a.out, x) OBVIOUS
<1>18. /\ Tidy(t) /\ Len(t) = Len(a.out) + 1 /\ Len(a.out) \in Nat
       /\ \A m \in 1..Len(a.out) : t[m] = a.out[m]
       /\ t[Len(a.out) + 1] = x
       /\ \A k \in Nat : Covers(t, k) <=> Covers(a.out, k) \/ ContainsClock(x, k)
  BY <1>6, <1>8, <1>17, AppendTidy
<1>19. \A m \in 1..Len(t) : m \in 1..Len(a.out) \/ m = Len(a.out) + 1 BY <1>18
<1>20. CASE End(x) < a.next.clock
  <2>1. ~a.placed BY <1>20, <1>13, <1>15, <1>16
  <2>2. b = [out |-> t, next |-> a.next, placed |-> a.placed] BY <1>20, <1>4, <1>5, <1>6, <1>17, AbsorbCases
  <2>3. b.out = t /\ b.next = a.next /\ ~b.placed BY <2>1, <2>2
  <2>4. \A m \in 1..Len(t) : End(t[m]) < a.next.clock BY <2>1, <1>14, <1>18, <1>19, <1>20
  <2>5. \A m \in 1..Len(t), j \in (i + 1)..n : End(t[m]) < s[j].clock BY <1>10, <1>11, <1>18, <1>19
  <2>6. PassOrder(s, i, b) BY <2>3, <2>4, <2>5, <1>2, <1>7, <1>18 DEF PassOrder
  <2>7. PassCovers(s, r, i, b) BY <2>1, <2>3, <1>12, <1>18 DEF PassCovers
  <2> QED BY <2>6, <2>7, <1>4, <1>5 DEF PassInv
<1>21. CASE ~(End(x) < a.next.clock) /\ End(a.next) < x.clock /\ a.placed
  <2>1. b = [out |-> t, next |-> a.next, placed |-> TRUE] BY <1>21, <1>4, <1>5, <1>6, <1>17, AbsorbCases
  <2>2. b.out = t /\ b.next = a.next /\ b.placed BY <2>1
  <2>3. \A m \in 1..Len(t), j \in (i + 1)..n : End(t[m]) < s[j].clock BY <1>10, <1>11, <1>18, <1>19
  <2>4. \A j \in (i + 1)..n : End(a.next) < s[j].clock
    <3>1. ASSUME NEW j \in (i + 1)..n PROVE End(a.next) < s[j].clock
      <4>1. j \in ((i - 1) + 1)..Len(s) BY <1>2, <1>9
      <4> QED BY <4>1, <1>21 DEF PassInv, PassOrder
    <3> QED BY <3>1
  <2>5. PassOrder(s, i, b) BY <2>2, <2>3, <2>4, <1>2, <1>7, <1>18 DEF PassOrder
  <2>6. PassCovers(s, r, i, b) BY <2>2, <1>12, <1>18, <1>21 DEF PassCovers
  <2> QED BY <2>5, <2>6, <1>4, <1>5 DEF PassInv
<1>22. CASE ~(End(x) < a.next.clock) /\ End(a.next) < x.clock /\ ~a.placed
  <2>1. PICK u : u = Append(a.out, a.next) OBVIOUS
  <2>2. /\ Tidy(u) /\ Len(u) = Len(a.out) + 1
        /\ \A m \in 1..Len(a.out) : u[m] = a.out[m]
        /\ u[Len(a.out) + 1] = a.next
        /\ \A k \in Nat : Covers(u, k) <=> Covers(a.out, k) \/ ContainsClock(a.next, k)
    BY <1>22, <1>6, <1>14, <2>1, AppendTidy
  <2>3. \A m \in 1..Len(u) : m \in 1..Len(a.out) \/ m = Len(a.out) + 1 BY <2>2, <1>18
  <2>4. \A m \in 1..Len(u) : End(u[m]) < x.clock BY <2>2, <2>3, <1>8, <1>22
  <2>5. PICK v : v = Append(u, x) OBVIOUS
  <2>6. /\ Tidy(v) /\ Len(v) = Len(u) + 1 /\ Len(u) \in Nat
        /\ \A m \in 1..Len(u) : v[m] = u[m]
        /\ v[Len(u) + 1] = x
        /\ \A k \in Nat : Covers(v, k) <=> Covers(u, k) \/ ContainsClock(x, k)
    BY <2>2, <2>4, <2>5, <1>18, AppendTidy
  <2>7. \A m \in 1..Len(v) : m \in 1..Len(u) \/ m = Len(u) + 1 BY <2>6
  <2>8. b = [out |-> v, next |-> a.next, placed |-> TRUE] BY <1>22, <1>4, <1>5, <1>6, <2>1, <2>5, AbsorbCases
  <2>9. b.out = v /\ b.next = a.next /\ b.placed BY <2>8
  <2>10. \A j \in (i + 1)..n : s[j].clock \in Nat BY <1>10, RangeBounds
  <2>11. \A j \in (i + 1)..n : End(a.next) < s[j].clock BY <2>10, <1>10, <1>15, <1>16, <1>22
  <2>12. \A m \in 1..Len(v), j \in (i + 1)..n : End(v[m]) < s[j].clock
    BY <2>2, <2>3, <2>6, <2>7, <2>11, <1>10, <1>11
  <2>13. PassOrder(s, i, b) BY <2>6, <2>9, <2>11, <2>12, <1>2, <1>7 DEF PassOrder
  <2>14. PassCovers(s, r, i, b)
    <3>1. ASSUME NEW k \in Nat PROVE Passed(s, r, i, k) <=> Covers(v, k) BY <2>2, <2>6, <1>12, <1>22
    <3> QED BY <3>1, <2>9 DEF PassCovers
  <2> QED BY <2>13, <2>14, <1>4, <1>5 DEF PassInv
<1>23. CASE ~(End(x) < a.next.clock) /\ ~(End(a.next) < x.clock)
  <2>1. ~a.placed BY <1>23, <1>13
  <2>2. PICK y : y = MergeRanges(a.next, x) OBVIOUS
  <2>3. b = [out |-> a.out, next |-> y, placed |-> a.placed] BY <1>23, <1>4, <1>5, <1>6, <2>2, AbsorbCases
  <2>4. b.out = a.out /\ b.next = y /\ ~b.placed BY <2>1, <2>3
  <2>5. a.next.clock <= End(x) /\ x.clock <= End(a.next) BY <1>15, <1>16, <1>23
  <2>6. /\ y.clock = IF a.next.clock <= x.clock THEN a.next.clock ELSE x.clock
        /\ \A k \in Nat : ContainsClock(y, k) <=> ContainsClock(a.next, k) \/ ContainsClock(x, k)
    BY <2>2, <2>5, <1>6, MergeTouching
  <2>7. \A m \in 1..Len(a.out) : End(a.out[m]) < y.clock BY <2>1, <2>6, <1>8, <1>14
  <2>8. PassOrder(s, i, b) BY <2>4, <2>7, <1>2, <1>6, <1>7, <1>11 DEF PassOrder
  <2>9. PassCovers(s, r, i, b)
    <3>1. ASSUME NEW k \in Nat PROVE Passed(s, r, i, k) <=> Covers(a.out, k) \/ ContainsClock(y, k)
      BY <2>1, <2>6, <1>12
    <3> QED BY <3>1, <2>4 DEF PassCovers
  <2> QED BY <2>8, <2>9, <1>4, <1>5 DEF PassInv
<1> QED BY <1>20, <1>21, <1>22, <1>23, <1>6

\* The pass adds a range: the result is in order and holds the clocks of both.
LEMMA AddedByPass ==
  ASSUME Top < Width, NEW s, Tidy(s), NEW r \in Ranges
  PROVE  /\ Tidy(AddByPass(s, r))
         /\ \A k \in Nat : Covers(AddByPass(s, r), k) <=> Covers(s, k) \/ ContainsClock(r, k)
<1>1. s \in Seq(Ranges) BY DEF Tidy
<1>2. PICK n \in Nat : n = Len(s) BY <1>1
<1>3. PICK f : f = Pass(s, r) OBVIOUS
<1>4. /\ f[0] = [out |-> <<>>, next |-> r, placed |-> FALSE]
      /\ \A i \in 1..n : f[i] = Absorb(f[i - 1], s[i])
  BY <1>1, <1>2, <1>3, PassStep
<1>5. PICK P : P = {i \in 0..n : PassInv(s, r, i, f[i])} OBVIOUS
<1>6. 0 \in P
  <2>1. f[0] \in Passing BY <1>4 DEF Passing
  <2>2. f[0].out = <<>> /\ f[0].next = r /\ ~f[0].placed BY <1>4
  <2>3. Tidy(<<>>) /\ \A k : ~Covers(<<>>, k) BY DEF Tidy, Covers
  <2>4. PassInv(s, r, 0, f[0]) BY <2>1, <2>2, <2>3 DEF PassInv, PassOrder, PassCovers, Passed
  <2> QED BY <2>4, <1>5
<1>7. ASSUME NEW i \in 0..(n - 1), i \in P PROVE i + 1 \in P
  <2>1. i + 1 \in 1..Len(s) /\ (i + 1) - 1 = i /\ i + 1 \in 0..n /\ i + 1 \in 1..n BY <1>2
  <2>2. PassInv(s, r, (i + 1) - 1, f[i]) BY <2>1, <1>5, <1>7
  <2>3. PassInv(s, r, i + 1, Absorb(f[i], s[i + 1])) BY <2>1, <2>2, AbsorbInv
  <2>4. f[i + 1] = Absorb(f[i], s[i + 1]) BY <2>1, <1>4
  <2> QED BY <2>1, <2>3, <2>4, <1>5
<1>8. \A i \in 0..n : i \in P BY <1>6, <1>7, UpTo
<1>9. PICK a : a = f[n] /\ PassInv(s, r, n, a) BY <1>5, <1>8
<1>10. \A k \in Nat : Passed(s, r, n, k) <=> Covers(s, k) \/ ContainsClock(r, k) BY <1>2 DEF Passed, Covers
<1>11. AddByPass(s, r) = IF a.placed THEN a.out ELSE Append(a.out, a.next)
  BY <1>2, <1>3, <1>9 DEF AddByPass, Placed
<1>12. CASE a.placed
  <2>1. AddByPass(s, r) = a.out /\ Tidy(a.out) BY <1>9, <1>11, <1>12 DEF PassInv, PassOrder
  <2>2. \A k \in Nat : Passed(s, r, n, k) <=> Covers(a.out, k) BY <1>9, <1>12 DEF PassInv, PassCovers
  <2> QED BY <2>1, <2>2, <1>10
<1>13. CASE ~a.placed
  <2>1. Tidy(a.out) /\ a.next \in Ranges /\ \A m \in 1..Len(a.out) : End(a.out[m]) < a.next.clock
    BY <1>13, <1>9 DEF PassInv, PassOrder, Passing
  <2>2. PICK u : u = Append(a.out, a.next) OBVIOUS
  <2>3. Tidy(u) /\ \A k \in Nat : Covers(u, k) <=> Covers(a.out, k) \/ ContainsClock(a.next, k)
    BY <2>1, <2>2, AppendTidy
  <2>4. \A k \in Nat : Passed(s, r, n, k) <=> Covers(a.out, k) \/ ContainsClock(a.next, k)
    BY <1>9, <1>13 DEF PassInv, PassCovers
  <2>5. AddByPass(s, r) = u BY <2>2, <1>11, <1>13
  <2> QED BY <2>3, <2>4, <2>5, <1>10
<1> QED BY <1>12, <1>13

\* The pass is in the last two cases of Add, and what Add does in the others
\* comes to the same.
LEMMA Added ==
  ASSUME Top < Width, NEW s, Tidy(s), NEW r \in Ranges
  PROVE  /\ Tidy(AddRange(s, r))
         /\ \A k \in Nat : Covers(AddRange(s, r), k) <=> Covers(s, k) \/ ContainsClock(r, k)
<1>1. s \in Seq(Ranges) BY DEF Tidy
<1>2. PICK n \in Nat : n = Len(s) BY <1>1
<1>3. CASE s = <<>>
  <2>1. AddRange(s, r) = Append(s, r) BY <1>3 DEF AddRange
  <2>2. \A i \in 1..Len(s) : End(s[i]) < r.clock BY <1>3
  <2> QED BY <2>1, <2>2, AppendTidy
<1>4. CASE s # <<>>
  <2>1. n > 0 /\ n \in 1..n BY <1>1, <1>2, <1>4
  <2>2. PICK x \in Ranges : x = s[n] BY <2>1, <1>1, <1>2
  <2>3. Last(s) = x BY <2>2, <1>2 DEF Last
  <2>4. x.clock \in Nat /\ End(x) \in Nat /\ x.clock < End(x) BY RangeBounds
  <2>5. r.clock \in Nat /\ End(r) \in Nat /\ r.clock < End(r) BY RangeBounds
  <2>6. \A i \in 1..(n - 1) : s[i] \in Ranges /\ End(s[i]) < x.clock BY <2>1, <2>2, <1>1, <1>2 DEF Tidy
  <2>7. CASE r.clock >= x.clock /\ End(x) < r.clock
    <3>1. AddRange(s, r) = Append(s, r) BY <2>7, <2>3, <1>4 DEF AddRange
    <3>2. ASSUME NEW i \in 1..n PROVE End(s[i]) < r.clock
      <4>1. CASE i = n BY <4>1, <2>2, <2>7
      <4>2. CASE i # n
        <5>1. i \in 1..(n - 1) BY <4>2
        <5>2. s[i] \in Ranges /\ End(s[i]) < x.clock BY <5>1, <2>6
        <5>3. End(s[i]) \in Nat BY <5>2, RangeBounds
        <5> QED BY <5>2, <5>3, <2>4, <2>5, <2>7
      <4> QED BY <4>1, <4>2
    <3>3. \A i \in 1..Len(s) : End(s[i]) < r.clock BY <3>2, <1>2
    <3> QED BY <3>1, <3>3, AppendTidy
  <2>8. CASE r.clock >= x.clock /\ ~(End(x) < r.clock)
    <3>1. PICK y : y = MergeRanges(x, r) OBVIOUS
    <3>2. PICK t : t = [s EXCEPT ![n] = y] OBVIOUS
    <3>3. AddRange(s, r) = t BY <3>1, <3>2, <2>2, <2>3, <2>8, <1>2, <1>4 DEF AddRange
    <3>4. x.clock <= End(r) /\ r.clock <= End(x) BY <2>4, <2>5, <2>8
    <3>5. /\ y \in Ranges /\ y.clock = x.clock
          /\ \A k \in Nat : ContainsClock(y, k) <=> ContainsClock(x, k) \/ ContainsClock(r, k)
      BY <3>1, <3>4, <2>8, <2>4, <2>5, MergeTouching
    <3>6. t \in Seq(Ranges) /\ Len(t) = n /\ t[n] = y /\ \A i \in 1..(n - 1) : t[i] = s[i]
      BY <3>2, <3>5, <2>1, <1>1, <1>2
    <3>7. ASSUME NEW i \in 1..n, NEW j \in 1..n, i < j PROVE End(t[i]) < t[j].clock
      <4>1. i \in 1..(n - 1) BY <3>7
      <4>2. CASE j = n BY <4>1, <4>2, <3>5, <3>6, <2>6
      <4>3. CASE j # n
        <5>1. j \in 1..(n - 1) BY <4>3
        <5> QED BY <5>1, <4>1, <3>6, <3>7, <1>2 DEF Tidy
      <4> QED BY <4>2, <4>3
    <3>8. Tidy(t) BY <3>6, <3>7 DEF Tidy
    <3>9. ASSUME NEW k \in Nat PROVE Covers(t, k) <=> Covers(s, k) \/ ContainsClock(r, k)
      <4>1. \A i \in 1..n : i = n \/ i \in 1..(n - 1) OBVIOUS
      <4>2. \A i \in 1..(n - 1) : i \in 1..n OBVIOUS
      <4>3. Covers(t, k) <=> ContainsClock(y, k) \/ \E i \in 1..(n - 1) : ContainsClock(s[i], k)
        BY <4>1, <4>2, <3>6, <2>1 DEF Covers
      <4>4. Covers(s, k) <=> ContainsClock(x, k) \/ \E i \in 1..(n - 1) : ContainsClock(s[i], k)
        BY <4>1, <4>2, <2>1, <2>2, <1>2 DEF Covers
      <4> QED BY <4>3, <4>4, <3>5
    <3> QED BY <3>3, <3>8, <3>9
  <2>9. CASE ~(r.clock >= x.clock)
    <3>1. AddRange(s, r) = AddByPass(s, r) BY <2>3, <2>9, <1>4 DEF AddRange
    <3> QED BY <3>1, AddedByPass
  <2> QED BY <2>7, <2>8, <2>9
<1> QED BY <1>3, <1>4

\* The sequences in order, as a set.
TidySeqs == {s \in Seq(Ranges) : Tidy(s)}

\* Range after range is added.
LEMMA AdditionsStep ==
  ASSUME Top < Width, NEW s \in TidySeqs, NEW more \in Seq(Ranges)
  PROVE  /\ Additions(s, more)[0] = s
         /\ \A i \in 1..Len(more) : Additions(s, more)[i] = AddRange(Additions(s, more)[i - 1], more[i])
         /\ \A i \in 0..Len(more) : Additions(s, more)[i] \in TidySeqs
<1>1. PICK n \in Nat : n = Len(more) OBVIOUS
<1> DEFINE Step(i, v) == AddRange(v, more[i])
           Raw(p) == p = [i \in 0..n |-> IF i = 0 THEN s ELSE Step(i, p[i - 1])]
<1>2. PICK V : V = TidySeqs OBVIOUS
<1>3. \A i \in 1..n, v \in V : Step(i, v) \in V
  <2>1. ASSUME NEW i \in 1..n, NEW v \in V PROVE Step(i, v) \in V
    <3>1. more[i] \in Ranges BY <1>1
    <3>2. Tidy(v) BY <1>2 DEF TidySeqs
    <3>3. Tidy(AddRange(v, more[i])) BY <3>1, <3>2, Added
    <3> QED BY <3>3, <1>2 DEF TidySeqs, Tidy
  <2> QED BY <2>1
<1>4. s \in V BY <1>2 DEF TidySeqs
<1>5. PICK b \in V : b = s BY <1>4
<1>6. Additions(s, more) = CHOOSE q : Raw(q) BY <1>1 DEF Additions
<1> DEFINE Is(p) == p = [i \in 0..n |-> IF i = 0 THEN b ELSE Step(i, p[i - 1])]
<1> HIDE DEF Step
<1>7. \A q : Raw(q) <=> Is(q) BY <1>5
<1> HIDE DEF Raw
<1>8. PICK G : G = [i \in 1..n |-> [v \in V |-> Step(i, v)]] OBVIOUS
<1>9. G \in [1..n -> [V -> V]] BY <1>3, <1>8
<1>10. Defined(n, V, b, G) BY <1>9, Recursion
<1>11. \A i \in 1..n, v \in V : G[i][v] = Step(i, v) BY <1>8
<1>12. PICK p \in [0..n -> V] : p[0] = b /\ \A i \in 1..n : p[i] = G[i][p[i - 1]]
  BY <1>10 DEF Defined
<1>13. ASSUME NEW i \in 1..n PROVE p[i] = Step(i, p[i - 1])
  <2>1. i - 1 \in 0..n OBVIOUS
  <2>2. p[i - 1] \in V BY <2>1
  <2> QED BY <2>2, <1>11, <1>12
<1>14. Is(p)
  <2>1. ASSUME NEW i \in 0..n PROVE p[i] = IF i = 0 THEN b ELSE Step(i, p[i - 1])
    BY <1>12, <1>13
  <2> QED BY <2>1
<1>15. PICK f : f = Additions(s, more) OBVIOUS
<1>16. Raw(f) BY <1>14, <1>7, <1>6, <1>15
<1>17. Is(f) BY <1>7, <1>16
<1>18. f[0] = b BY <1>17
<1>19. \A i \in 1..n : f[i] = Step(i, f[i - 1]) BY <1>17
<1>20. \A i \in 1..n : f[i - 1] \in V => f[i] \in V BY <1>19, <1>3
<1>21. \A i \in 0..n : f[i] \in V BY <1>18, <1>20, RecursionType
<1> QED BY <1>1, <1>2, <1>5, <1>15, <1>18, <1>19, <1>21 DEF Step

\* Subtract adds what is left range by range.
LEMMA RebuiltStep ==
  ASSUME Top < Width, NEW s \in Seq(Ranges)
  PROVE  /\ Rebuilt(s)[0] = <<>>
         /\ \A i \in 1..Len(s) : Rebuilt(s)[i] = AddByPass(Rebuilt(s)[i - 1], s[i])
         /\ \A i \in 0..Len(s) : Rebuilt(s)[i] \in TidySeqs
<1>1. PICK n \in Nat : n = Len(s) OBVIOUS
<1> DEFINE Step(i, v) == AddByPass(v, s[i])
           Raw(p) == p = [i \in 0..n |-> IF i = 0 THEN <<>> ELSE Step(i, p[i - 1])]
<1>2. PICK V : V = TidySeqs OBVIOUS
<1>3. \A i \in 1..n, v \in V : Step(i, v) \in V
  <2>1. ASSUME NEW i \in 1..n, NEW v \in V PROVE Step(i, v) \in V
    <3>1. s[i] \in Ranges BY <1>1
    <3>2. Tidy(v) BY <1>2 DEF TidySeqs
    <3>3. Tidy(AddByPass(v, s[i])) BY <3>1, <3>2, AddedByPass
    <3> QED BY <3>3, <1>2 DEF TidySeqs, Tidy
  <2> QED BY <2>1
<1>4. <<>> \in V BY <1>2 DEF TidySeqs, Tidy
<1>5. PICK b \in V : b = <<>> BY <1>4
<1>6. Rebuilt(s) = CHOOSE q : Raw(q) BY <1>1 DEF Rebuilt
<1> DEFINE Is(p) == p = [i \in 0..n |-> IF i = 0 THEN b ELSE Step(i, p[i - 1])]
<1> HIDE DEF Step
<1>7. \A q : Raw(q) <=> Is(q) BY <1>5
<1> HIDE DEF Raw
<1>8. PICK G : G = [i \in 1..n |-> [v \in V |-> Step(i, v)]] OBVIOUS
<1>9. G \in [1..n -> [V -> V]] BY <1>3, <1>8
<1>10. Defined(n, V, b, G) BY <1>9, Recursion
<1>11. \A i \in 1..n, v \in V : G[i][v] = Step(i, v) BY <1>8
<1>12. PICK p \in [0..n -> V] : p[0] = b /\ \A i \in 1..n : p[i] = G[i][p[i - 1]]
  BY <1>10 DEF Defined
<1>13. ASSUME NEW i \in 1..n PROVE p[i] = Step(i, p[i - 1])
  <2>1. i - 1 \in 0..n OBVIOUS
  <2>2. p[i - 1] \in V BY <2>1
  <2> QED BY <2>2, <1>11, <1>12
<1>14. Is(p)
  <2>1. ASSUME NEW i \in 0..n PROVE p[i] = IF i = 0 THEN b ELSE Step(i, p[i - 1])
    BY <1>12, <1>13
  <2> QED BY <2>1
<1>15. PICK f : f = Rebuilt(s) OBVIOUS
<1>16. Raw(f) BY <1>14, <1>7, <1>6, <1>15
<1>17. Is(f) BY <1>7, <1>16
<1>18. f[0] = b BY <1>17
<1>19. \A i \in 1..n : f[i] = Step(i, f[i - 1]) BY <1>17
<1>20. \A i \in 1..n : f[i - 1] \in V => f[i] \in V BY <1>19, <1>3
<1>21. \A i \in 0..n : f[i] \in V BY <1>18, <1>20, RecursionType
<1> QED BY <1>1, <1>2, <1>5, <1>15, <1>18, <1>19, <1>21 DEF Step

\* Adding range after range gives the clocks of all.
LEMMA AddedAll ==
  ASSUME Top < Width, NEW s, Tidy(s), NEW more \in Seq(Ranges)
  PROVE  /\ Tidy(Additions(s, more)[Len(more)])
         /\ \A k \in Nat : Covers(Additions(s, more)[Len(more)], k) <=> Covers(s, k) \/ Covers(more, k)
<1>1. PICK n \in Nat : n = Len(more) OBVIOUS
<1> s \in TidySeqs BY DEF TidySeqs, Tidy
<1>2. PICK f : f = Additions(s, more) OBVIOUS
<1>3. f[0] = s /\ \A i \in 1..n : f[i] = AddRange(f[i - 1], more[i])
  BY <1>1, <1>2, AdditionsStep
<1>4. \A i \in 0..n : Tidy(f[i])
  <2>1. \A i \in 0..n : f[i] \in TidySeqs BY <1>1, <1>2, AdditionsStep
  <2> QED BY <2>1 DEF TidySeqs
<1>5. SUFFICES ASSUME NEW k \in Nat PROVE Covers(f[n], k) <=> Covers(s, k) \/ Covers(more, k)
  BY <1>1, <1>2, <1>4
<1> DEFINE Some(i) == Covers(s, k) \/ \E j \in 1..i : ContainsClock(more[j], k)
<1>6. PICK P : P = {i \in 0..n : Covers(f[i], k) <=> Some(i)} OBVIOUS
<1>7. 0 \in P
  <2>1. Some(0) <=> Covers(s, k) BY DEF Covers
  <2> QED BY <2>1, <1>3, <1>6
<1>8. ASSUME NEW i \in 0..(n - 1), i \in P PROVE i + 1 \in P
  <2>1. i + 1 \in 1..n /\ (i + 1) - 1 = i /\ i + 1 \in 0..n OBVIOUS
  <2>2. PICK x \in Ranges : x = more[i + 1] BY <2>1, <1>1
  <2>3. f[i + 1] = AddRange(f[i], x) BY <2>1, <2>2, <1>3
  <2>4. Tidy(f[i]) BY <2>1, <1>4
  <2>5. Covers(f[i + 1], k) <=> Covers(f[i], k) \/ ContainsClock(x, k) BY <2>3, <2>4, Added
  <2>6. Covers(f[i], k) <=> Some(i) BY <1>6, <1>8
  <2>7. Some(i + 1) <=> Some(i) \/ ContainsClock(x, k)
    <3>1. \A j \in 1..(i + 1) : j = i + 1 \/ j \in 1..i OBVIOUS
    <3>2. (\A j \in 1..i : j \in 1..(i + 1)) /\ i + 1 \in 1..(i + 1) OBVIOUS
    <3> QED BY <3>1, <3>2, <2>2
  <2> HIDE DEF Some
  <2>8. Covers(f[i + 1], k) <=> Some(i + 1) BY <2>5, <2>6, <2>7
  <2> QED BY <2>1, <2>8, <1>6
<1>9. \A i \in 0..n : i \in P BY <1>7, <1>8, UpTo
<1>10. Covers(f[n], k) <=> Some(n) BY <1>6, <1>9
<1>11. Some(n) <=> Covers(s, k) \/ Covers(more, k) BY <1>1 DEF Covers
<1> QED BY <1>10, <1>11

\* Ranges in any order, added one by one, keep their clocks.
LEMMA RebuiltAll ==
  ASSUME Top < Width, NEW s \in Seq(Ranges)
  PROVE  /\ Tidy(Rebuilt(s)[Len(s)])
         /\ \A k \in Nat : Covers(Rebuilt(s)[Len(s)], k) <=> Covers(s, k)
<1>1. PICK n \in Nat : n = Len(s) OBVIOUS
<1>2. PICK f : f = Rebuilt(s) OBVIOUS
<1>3. f[0] = <<>> /\ \A i \in 1..n : f[i] = AddByPass(f[i - 1], s[i])
  BY <1>1, <1>2, RebuiltStep
<1>4. \A i \in 0..n : Tidy(f[i])
  <2>1. \A i \in 0..n : f[i] \in TidySeqs BY <1>1, <1>2, RebuiltStep
  <2> QED BY <2>1 DEF TidySeqs
<1>5. SUFFICES ASSUME NEW k \in Nat PROVE Covers(f[n], k) <=> Covers(s, k)
  BY <1>1, <1>2, <1>4
<1> DEFINE Some(i) == \E j \in 1..i : ContainsClock(s[j], k)
<1>6. PICK P : P = {i \in 0..n : Covers(f[i], k) <=> Some(i)} OBVIOUS
<1>7. 0 \in P
  <2>1. Some(0) <=> Covers(<<>>, k) BY DEF Covers
  <2> QED BY <2>1, <1>3, <1>6
<1>8. ASSUME NEW i \in 0..(n - 1), i \in P PROVE i + 1 \in P
  <2>1. i + 1 \in 1..n /\ (i + 1) - 1 = i /\ i + 1 \in 0..n OBVIOUS
  <2>2. PICK x \in Ranges : x = s[i + 1] BY <2>1, <1>1
  <2>3. f[i + 1] = AddByPass(f[i], x) BY <2>1, <2>2, <1>3
  <2>4. Tidy(f[i]) BY <2>1, <1>4
  <2>5. Covers(f[i + 1], k) <=> Covers(f[i], k) \/ ContainsClock(x, k) BY <2>3, <2>4, AddedByPass
  <2>6. Covers(f[i], k) <=> Some(i) BY <1>6, <1>8
  <2>7. Some(i + 1) <=> Some(i) \/ ContainsClock(x, k)
    <3>1. \A j \in 1..(i + 1) : j = i + 1 \/ j \in 1..i OBVIOUS
    <3>2. (\A j \in 1..i : j \in 1..(i + 1)) /\ i + 1 \in 1..(i + 1) OBVIOUS
    <3> QED BY <3>1, <3>2, <2>2
  <2> HIDE DEF Some
  <2>8. Covers(f[i + 1], k) <=> Some(i + 1) BY <2>5, <2>6, <2>7
  <2> QED BY <2>1, <2>8, <1>6
<1>9. \A i \in 0..n : i \in P BY <1>7, <1>8, UpTo
<1>10. Covers(f[n], k) <=> Some(n) BY <1>6, <1>9
<1>11. Some(n) <=> Covers(s, k) BY <1>1 DEF Covers
<1> QED BY <1>10, <1>11

\* Merge unites the clocks.
LEMMA United ==
  ASSUME Top < Width, NEW s, Tidy(s), NEW t, Tidy(t)
  PROVE  /\ Tidy(UniteRanges(s, t))
         /\ \A k \in Nat : Covers(UniteRanges(s, t), k) <=> Covers(s, k) \/ Covers(t, k)
<1>1. CASE s = <<>>
  <2>1. UniteRanges(s, t) = t BY <1>1 DEF UniteRanges
  <2>2. \A k \in Nat : ~Covers(s, k) BY <1>1 DEF Covers
  <2> QED BY <2>1, <2>2
<1>2. CASE s # <<>>
  <2>1. UniteRanges(s, t) = Additions(s, t)[Len(t)] BY <1>2 DEF UniteRanges
  <2>2. t \in Seq(Ranges) BY DEF Tidy
  <2> QED BY <2>1, <2>2, AddedAll
<1> QED BY <1>1, <1>2

-----------------------------------------------------------------------------
(* The binary search.                                                      *)

\* The windows over n ranges.
Windows(n) == [left : 1..(n + 1), right : 0..n, found : BOOLEAN]

\* What one round does, by cases, with the middle of the window.
LEMMA ProbeCases ==
  ASSUME NEW s \in Seq(Ranges), NEW clock \in Nat, NEW w \in Windows(Len(s))
  PROVE  /\ Probe(s, clock, w) \in Windows(Len(s))
         /\ w.found \/ w.left > w.right => Probe(s, clock, w) = w
         /\ ~w.found /\ ~(w.left > w.right) =>
              \E mid \in w.left .. w.right :
                \/ /\ ContainsClock(s[mid], clock)
                   /\ Probe(s, clock, w) = [left |-> w.left, right |-> w.right, found |-> TRUE]
                \/ /\ ~ContainsClock(s[mid], clock) /\ clock < s[mid].clock
                   /\ Probe(s, clock, w) = [left |-> w.left, right |-> mid - 1, found |-> FALSE]
                \/ /\ ~ContainsClock(s[mid], clock) /\ ~(clock < s[mid].clock)
                   /\ Probe(s, clock, w) = [left |-> mid + 1, right |-> w.right, found |-> FALSE]
<1>1. PICK n \in Nat : n = Len(s) OBVIOUS
<1>2. /\ w.left \in 1..(n + 1) /\ w.right \in 0..n /\ w.found \in BOOLEAN
      /\ w = [left |-> w.left, right |-> w.right, found |-> w.found]
  BY <1>1 DEF Windows
<1>3. CASE w.found \/ w.left > w.right
  <2>1. Probe(s, clock, w) = w BY <1>3 DEF Probe
  <2> QED BY <2>1, <1>3
<1>4. CASE ~w.found /\ ~(w.left > w.right)
  <2>1. PICK mid : mid = (w.left + w.right) \div 2 OBVIOUS
  <2>2. mid \in w.left .. w.right /\ mid \in 1..n BY <2>1, <1>2, <1>4
  <2>3. mid - 1 \in 0..n /\ mid + 1 \in 1..(n + 1) BY <2>2
  <2>4. CASE ContainsClock(s[mid], clock)
    <3>1. Probe(s, clock, w) = [w EXCEPT !.found = TRUE] BY <2>1, <2>4, <1>4 DEF Probe
    <3>2. Probe(s, clock, w) = [left |-> w.left, right |-> w.right, found |-> TRUE] BY <3>1, <1>2
    <3>3. Probe(s, clock, w) \in Windows(n) BY <3>2, <1>2 DEF Windows
    <3> QED BY <3>2, <3>3, <2>2, <2>4, <1>1, <1>4
  <2>5. CASE ~ContainsClock(s[mid], clock) /\ clock < s[mid].clock
    <3>1. Probe(s, clock, w) = [w EXCEPT !.right = mid - 1] BY <2>1, <2>5, <1>4 DEF Probe
    <3>2. Probe(s, clock, w) = [left |-> w.left, right |-> mid - 1, found |-> FALSE] BY <3>1, <1>2, <1>4
    <3>3. Probe(s, clock, w) \in Windows(n) BY <3>2, <2>3, <1>2 DEF Windows
    <3> QED BY <3>2, <3>3, <2>2, <2>5, <1>1, <1>4
  <2>6. CASE ~ContainsClock(s[mid], clock) /\ ~(clock < s[mid].clock)
    <3>1. Probe(s, clock, w) = [w EXCEPT !.left = mid + 1] BY <2>1, <2>6, <1>4 DEF Probe
    <3>2. Probe(s, clock, w) = [left |-> mid + 1, right |-> w.right, found |-> FALSE] BY <3>1, <1>2, <1>4
    <3>3. Probe(s, clock, w) \in Windows(n) BY <3>2, <2>3, <1>2 DEF Windows
    <3> QED BY <3>2, <3>3, <2>2, <2>6, <1>1, <1>4
  <2> QED BY <2>4, <2>5, <2>6
<1> QED BY <1>3, <1>4

\* The search goes from window to window.
LEMMA SearchStep ==
  ASSUME NEW s \in Seq(Ranges), NEW clock \in Nat
  PROVE  /\ Search(s, clock)[0] = [left |-> 1, right |-> Len(s), found |-> FALSE]
         /\ \A i \in 1..Len(s) : Search(s, clock)[i] = Probe(s, clock, Search(s, clock)[i - 1])
         /\ \A i \in 0..Len(s) : Search(s, clock)[i] \in Windows(Len(s))
<1>1. PICK n \in Nat : n = Len(s) OBVIOUS
<1> DEFINE Step(i, v) == Probe(s, clock, v)
           Raw(p) == p = [i \in 0..n |-> IF i = 0 THEN [left |-> 1, right |-> Len(s), found |-> FALSE] ELSE Step(i, p[i - 1])]
<1>2. PICK V : V = Windows(Len(s)) OBVIOUS
<1>3. \A i \in 1..n, v \in V : Step(i, v) \in V
  <2>1. ASSUME NEW i \in 1..n, NEW v \in V PROVE Step(i, v) \in V
    <3>1. v \in Windows(Len(s)) BY <1>2
    <3> QED BY <3>1, <1>2, ProbeCases
  <2> QED BY <2>1
<1>4. [left |-> 1, right |-> Len(s), found |-> FALSE] \in V BY <1>1, <1>2 DEF Windows
<1>5. PICK b \in V : b = [left |-> 1, right |-> Len(s), found |-> FALSE] BY <1>4
<1>6. Search(s, clock) = CHOOSE q : Raw(q) BY <1>1 DEF Search
<1> DEFINE Is(p) == p = [i \in 0..n |-> IF i = 0 THEN b ELSE Step(i, p[i - 1])]
<1> HIDE DEF Step
<1>7. \A q : Raw(q) <=> Is(q) BY <1>5
<1> HIDE DEF Raw
<1>8. PICK G : G = [i \in 1..n |-> [v \in V |-> Step(i, v)]] OBVIOUS
<1>9. G \in [1..n -> [V -> V]] BY <1>3, <1>8
<1>10. Defined(n, V, b, G) BY <1>9, Recursion
<1>11. \A i \in 1..n, v \in V : G[i][v] = Step(i, v) BY <1>8
<1>12. PICK p \in [0..n -> V] : p[0] = b /\ \A i \in 1..n : p[i] = G[i][p[i - 1]]
  BY <1>10 DEF Defined
<1>13. ASSUME NEW i \in 1..n PROVE p[i] = Step(i, p[i - 1])
  <2>1. i - 1 \in 0..n OBVIOUS
  <2>2. p[i - 1] \in V BY <2>1
  <2> QED BY <2>2, <1>11, <1>12
<1>14. Is(p)
  <2>1. ASSUME NEW i \in 0..n PROVE p[i] = IF i = 0 THEN b ELSE Step(i, p[i - 1])
    BY <1>12, <1>13
  <2> QED BY <2>1
<1>15. PICK f : f = Search(s, clock) OBVIOUS
<1>16. Raw(f) BY <1>14, <1>7, <1>6, <1>15
<1>17. Is(f) BY <1>7, <1>16
<1>18. f[0] = b BY <1>17
<1>19. \A i \in 1..n : f[i] = Step(i, f[i - 1]) BY <1>17
<1>20. \A i \in 1..n : f[i - 1] \in V => f[i] \in V BY <1>19, <1>3
<1>21. \A i \in 0..n : f[i] \in V BY <1>18, <1>20, RecursionType
<1> QED BY <1>1, <1>2, <1>5, <1>15, <1>18, <1>19, <1>21 DEF Step

\* After i rounds what is sought is in the window, which has lost i places, or
\* it is found.
SearchInv(s, clock, i, w) ==
  /\ w \in Windows(Len(s))
  /\ w.found => Covers(s, clock)
  /\ \A j \in 1..Len(s) : ContainsClock(s[j], clock) => w.left <= j /\ j <= w.right
  /\ ~w.found => (w.right - w.left) + 1 <= Len(s) - i

\* A round keeps it.
LEMMA ProbeInv ==
  ASSUME NEW s, Tidy(s), NEW clock \in Nat, NEW i \in 1..Len(s), NEW w, SearchInv(s, clock, i - 1, w)
  PROVE  SearchInv(s, clock, i, Probe(s, clock, w))
<1>1. s \in Seq(Ranges) BY DEF Tidy
<1>2. PICK n \in Nat : n = Len(s) BY <1>1
<1>3. PICK v : v = Probe(s, clock, w) OBVIOUS
<1>4. w \in Windows(n) /\ w.left \in 1..(n + 1) /\ w.right \in 0..n /\ w.found \in BOOLEAN
  BY <1>2 DEF SearchInv, Windows
<1>5. v \in Windows(n) BY <1>1, <1>2, <1>3, <1>4, ProbeCases
<1>6. i \in 1..n BY <1>2
<1>7. \A j \in 1..n : ContainsClock(s[j], clock) => w.left <= j /\ j <= w.right BY <1>2 DEF SearchInv
<1>8. ~w.found => (w.right - w.left) + 1 <= n - (i - 1) BY <1>2 DEF SearchInv
<1>9. CASE w.found \/ w.left > w.right
  <2>1. v = w BY <1>1, <1>2, <1>3, <1>4, <1>9, ProbeCases
  <2>2. ~w.found => (w.right - w.left) + 1 <= n - i BY <1>4, <1>6, <1>9
  <2> QED BY <2>1, <2>2, <1>2, <1>3 DEF SearchInv
<1>10. CASE ~w.found /\ ~(w.left > w.right)
  <2>1. PICK mid \in w.left .. w.right :
          \/ ContainsClock(s[mid], clock) /\ v = [left |-> w.left, right |-> w.right, found |-> TRUE]
          \/ /\ ~ContainsClock(s[mid], clock) /\ clock < s[mid].clock
             /\ v = [left |-> w.left, right |-> mid - 1, found |-> FALSE]
          \/ /\ ~ContainsClock(s[mid], clock) /\ ~(clock < s[mid].clock)
             /\ v = [left |-> mid + 1, right |-> w.right, found |-> FALSE]
    BY <1>1, <1>2, <1>3, <1>4, <1>10, ProbeCases
  <2>2. mid \in 1..n BY <1>4
  <2>3. PICK x \in Ranges : x = s[mid] BY <2>2, <1>1, <1>2
  <2>4. x.clock \in Nat /\ End(x) \in Nat /\ x.clock < End(x) BY RangeBounds
  <2>5. CASE ContainsClock(x, clock) /\ v = [left |-> w.left, right |-> w.right, found |-> TRUE]
    <3>1. Covers(s, clock) BY <2>2, <2>3, <2>5, <1>2 DEF Covers
    <3>2. v.left = w.left /\ v.right = w.right /\ v.found BY <2>5
    <3> QED BY <3>1, <3>2, <1>2, <1>3, <1>5, <1>7 DEF SearchInv
  <2>6. CASE /\ ~ContainsClock(x, clock) /\ clock < x.clock
             /\ v = [left |-> w.left, right |-> mid - 1, found |-> FALSE]
    <3>1. v.left = w.left /\ v.right = mid - 1 /\ ~v.found BY <2>6
    <3>2. ASSUME NEW j \in 1..n, ContainsClock(s[j], clock) PROVE j <= mid - 1
      <4>1. PICK y \in Ranges : y = s[j] BY <1>1, <1>2
      <4>2. y.clock \in Nat /\ y.clock <= clock BY <4>1, <3>2, RangeBounds DEF ContainsClock
      <4>3. j # mid BY <4>1, <4>2, <2>3, <2>4, <2>6
      <4>4. ~(mid < j)
        <5>1. SUFFICES ASSUME mid < j PROVE FALSE OBVIOUS
        <5>2. End(x) < y.clock BY <5>1, <4>1, <2>2, <2>3, <1>2 DEF Tidy
        <5> QED BY <5>2, <4>2, <2>4, <2>6
      <4> QED BY <4>3, <4>4, <2>2
    <3>3. ((mid - 1) - w.left) + 1 <= n - i BY <2>1, <2>2, <1>4, <1>6, <1>8, <1>10
    <3> QED BY <3>1, <3>2, <3>3, <1>2, <1>3, <1>5, <1>7 DEF SearchInv
  <2>7. CASE /\ ~ContainsClock(x, clock) /\ ~(clock < x.clock)
             /\ v = [left |-> mid + 1, right |-> w.right, found |-> FALSE]
    <3>1. v.left = mid + 1 /\ v.right = w.right /\ ~v.found BY <2>7
    <3>2. End(x) <= clock BY <2>4, <2>7 DEF ContainsClock
    <3>3. ASSUME NEW j \in 1..n, ContainsClock(s[j], clock) PROVE mid + 1 <= j
      <4>1. PICK y \in Ranges : y = s[j] BY <1>1, <1>2
      <4>2. End(y) \in Nat /\ clock < End(y) BY <4>1, <3>3, RangeBounds DEF ContainsClock
      <4>3. j # mid BY <4>1, <4>2, <3>2, <2>3, <2>4
      <4>4. ~(j < mid)
        <5>1. SUFFICES ASSUME j < mid PROVE FALSE OBVIOUS
        <5>2. End(y) < x.clock BY <5>1, <4>1, <2>2, <2>3, <1>2 DEF Tidy
        <5> QED BY <5>2, <4>2, <3>2, <2>4
      <4> QED BY <4>3, <4>4, <2>2
    <3>4. (w.right - (mid + 1)) + 1 <= n - i BY <2>1, <2>2, <1>4, <1>6, <1>8, <1>10
    <3> QED BY <3>1, <3>3, <3>4, <1>2, <1>3, <1>5, <1>7 DEF SearchInv
  <2> QED BY <2>1, <2>3, <2>5, <2>6, <2>7
<1> QED BY <1>9, <1>10, <1>4

\* The search finds exactly the clocks that the ranges hold.
LEMMA Found ==
  ASSUME NEW s, Tidy(s), NEW clock \in Nat
  PROVE  Holds(s, clock) <=> Covers(s, clock)
<1>1. s \in Seq(Ranges) BY DEF Tidy
<1>2. PICK n \in Nat : n = Len(s) BY <1>1
<1>3. PICK f : f = Search(s, clock) OBVIOUS
<1>4. /\ f[0] = [left |-> 1, right |-> n, found |-> FALSE]
      /\ \A i \in 1..n : f[i] = Probe(s, clock, f[i - 1])
  BY <1>1, <1>2, <1>3, SearchStep
<1>5. PICK P : P = {i \in 0..n : SearchInv(s, clock, i, f[i])} OBVIOUS
<1>6. 0 \in P
  <2>1. f[0] \in Windows(n) BY <1>4 DEF Windows
  <2>2. f[0].left = 1 /\ f[0].right = n /\ ~f[0].found BY <1>4
  <2>3. SearchInv(s, clock, 0, f[0]) BY <2>1, <2>2, <1>2 DEF SearchInv
  <2> QED BY <2>3, <1>5
<1>7. ASSUME NEW i \in 0..(n - 1), i \in P PROVE i + 1 \in P
  <2>1. i + 1 \in 1..Len(s) /\ (i + 1) - 1 = i /\ i + 1 \in 0..n /\ i + 1 \in 1..n BY <1>2
  <2>2. SearchInv(s, clock, (i + 1) - 1, f[i]) BY <2>1, <1>5, <1>7
  <2>3. SearchInv(s, clock, i + 1, Probe(s, clock, f[i])) BY <2>1, <2>2, ProbeInv
  <2>4. f[i + 1] = Probe(s, clock, f[i]) BY <2>1, <1>4
  <2> QED BY <2>1, <2>3, <2>4, <1>5
<1>8. \A i \in 0..n : i \in P BY <1>6, <1>7, UpTo
<1>9. PICK w : w = f[n] /\ SearchInv(s, clock, n, w) BY <1>5, <1>8
<1>10. w.left \in Int /\ w.right \in Int /\ w.found \in BOOLEAN BY <1>2, <1>9 DEF SearchInv, Windows
<1>11. ASSUME ~w.found, Covers(s, clock) PROVE FALSE
  <2>1. PICK j \in 1..n : ContainsClock(s[j], clock) BY <1>2, <1>11 DEF Covers
  <2>2. w.left <= j /\ j <= w.right BY <2>1, <1>2, <1>9 DEF SearchInv
  <2>3. (w.right - w.left) + 1 <= n - n BY <1>2, <1>9, <1>11 DEF SearchInv
  <2> QED BY <2>2, <2>3, <1>10
<1>12. w.found => Covers(s, clock) BY <1>9 DEF SearchInv
<1>13. Holds(s, clock) = w.found BY <1>2, <1>3, <1>9 DEF Holds
<1> QED BY <1>10, <1>11, <1>12, <1>13

-----------------------------------------------------------------------------
(* The intersection.                                                       *)

\* The states of the walk over two sequences.
Walks(la, lb) == [i : 1..(la + 1), j : 1..(lb + 1), out : Seq(Ranges)]

\* The part that two ranges share, if any.
Shared(r, s) ==
  LET start == Max({r.clock, s.clock})
      end   == Min({End(r), End(s)})
  IN IF start < end THEN <<[clock |-> start, len |-> end - start]>> ELSE <<>>

\* It is a sequence of at most one range with the clocks of both.
LEMMA SharedPart ==
  ASSUME NEW r \in Ranges, NEW s \in Ranges
  PROVE  \/ /\ Shared(r, s) = <<>>
            /\ \A k \in Nat : ~(ContainsClock(r, k) /\ ContainsClock(s, k))
         \/ \E x \in Ranges : /\ Shared(r, s) = <<x>>
                               /\ r.clock <= x.clock /\ s.clock <= x.clock
                               /\ End(x) <= End(r) /\ End(x) <= End(s)
                               /\ \A k \in Nat : ContainsClock(x, k) <=> ContainsClock(r, k) /\ ContainsClock(s, k)
<1>1. PICK a \in Nat : a = r.clock BY RangeBounds
<1>2. PICK b \in Nat : b = End(r) BY RangeBounds
<1>3. PICK c \in Nat : c = s.clock BY RangeBounds
<1>4. PICK d \in Nat : d = End(s) BY RangeBounds
<1>5. a < b /\ b <= Top /\ c < d /\ d <= Top /\ Top \in Nat
  BY <1>1, <1>2, <1>3, <1>4, RangeBounds, RangeSetAssumption, WidthAssumption
<1>6. PICK lo \in Nat : lo = IF a >= c THEN a ELSE c OBVIOUS
<1>7. PICK hi \in Nat : hi = IF b <= d THEN b ELSE d OBVIOUS
<1>8. Max({a, c}) = lo /\ Min({b, d}) = hi BY <1>6, <1>7, MaxMin
<1>9. \A k \in Nat : (lo <= k /\ k < hi) <=> ((a <= k /\ k < b) /\ (c <= k /\ k < d)) BY <1>6, <1>7
<1>10. Shared(r, s) = IF lo < hi THEN <<[clock |-> lo, len |-> hi - lo]>> ELSE <<>>
  BY <1>1, <1>2, <1>3, <1>4, <1>8 DEF Shared
<1>11. CASE lo < hi
  <2>1. PICK x : x = [clock |-> lo, len |-> hi - lo] OBVIOUS
  <2>2. hi <= Top BY <1>5, <1>7
  <2>3. x \in Ranges /\ End(x) = hi /\ x.clock = lo BY <2>1, <2>2, <1>11, MakeRange
  <2>4. Shared(r, s) = <<x>> BY <2>1, <1>10, <1>11
  <2>5. a <= lo /\ c <= lo /\ hi <= b /\ hi <= d BY <1>6, <1>7
  <2>6. \A k \in Nat : ContainsClock(x, k) <=> ContainsClock(r, k) /\ ContainsClock(s, k)
    BY <2>3, <1>1, <1>2, <1>3, <1>4, <1>9 DEF ContainsClock
  <2> QED BY <2>3, <2>4, <2>5, <2>6, <1>1, <1>2, <1>3, <1>4
<1>12. CASE ~(lo < hi)
  <2>1. \A k \in Nat : ~(lo <= k /\ k < hi) BY <1>12
  <2> QED BY <2>1, <1>1, <1>2, <1>3, <1>4, <1>9, <1>10, <1>12 DEF ContainsClock
<1> QED BY <1>11, <1>12

\* What one step of the walk does, by cases.
LEMMA OverlapCases ==
  ASSUME NEW a \in Seq(Ranges), NEW b \in Seq(Ranges), NEW w \in Walks(Len(a), Len(b))
  PROVE  /\ Overlap(a, b, w) \in Walks(Len(a), Len(b))
         /\ w.i > Len(a) \/ w.j > Len(b) => Overlap(a, b, w) = w
         /\ ~(w.i > Len(a)) /\ ~(w.j > Len(b)) =>
              /\ End(a[w.i]) < End(b[w.j]) =>
                   Overlap(a, b, w) = [i |-> w.i + 1, j |-> w.j, out |-> w.out \o Shared(a[w.i], b[w.j])]
              /\ ~(End(a[w.i]) < End(b[w.j])) =>
                   Overlap(a, b, w) = [i |-> w.i, j |-> w.j + 1, out |-> w.out \o Shared(a[w.i], b[w.j])]
<1>1. PICK la \in Nat : la = Len(a) OBVIOUS
<1>2. PICK lb \in Nat : lb = Len(b) OBVIOUS
<1>3. /\ w.i \in 1..(la + 1) /\ w.j \in 1..(lb + 1) /\ w.out \in Seq(Ranges)
      /\ w = [i |-> w.i, j |-> w.j, out |-> w.out]
  BY <1>1, <1>2 DEF Walks
<1>4. CASE w.i > la \/ w.j > lb
  <2>1. Overlap(a, b, w) = w BY <1>1, <1>2, <1>4 DEF Overlap
  <2> QED BY <2>1, <1>1, <1>2, <1>4
<1>5. CASE ~(w.i > la) /\ ~(w.j > lb)
  <2>1. w.i \in 1..la /\ w.j \in 1..lb /\ w.i + 1 \in 1..(la + 1) /\ w.j + 1 \in 1..(lb + 1) BY <1>3, <1>5
  <2>2. PICK r \in Ranges : r = a[w.i] BY <2>1, <1>1
  <2>3. PICK s \in Ranges : s = b[w.j] BY <2>1, <1>2
  <2>4. Shared(r, s) \in Seq(Ranges)
    <3>1. CASE Shared(r, s) = <<>> BY <3>1
    <3>2. CASE \E x \in Ranges : Shared(r, s) = <<x>> BY <3>2
    <3> QED BY <3>1, <3>2, SharedPart
  <2>5. w.out \o Shared(r, s) \in Seq(Ranges) BY <2>4, <1>3
  <2>6. CASE End(r) < End(s)
    <3>1. Overlap(a, b, w) = [w EXCEPT !.out = @ \o Shared(r, s), !.i = @ + 1]
      BY <2>2, <2>3, <2>6, <1>1, <1>2, <1>5 DEF Overlap, Shared
    <3>2. Overlap(a, b, w) = [i |-> w.i + 1, j |-> w.j, out |-> w.out \o Shared(r, s)] BY <3>1, <1>3
    <3>3. Overlap(a, b, w) \in Walks(la, lb) BY <3>2, <2>1, <2>5, <1>3 DEF Walks
    <3> QED BY <3>2, <3>3, <2>2, <2>3, <2>6, <1>1, <1>2, <1>5
  <2>7. CASE ~(End(r) < End(s))
    <3>1. Overlap(a, b, w) = [w EXCEPT !.out = @ \o Shared(r, s), !.j = @ + 1]
      BY <2>2, <2>3, <2>7, <1>1, <1>2, <1>5 DEF Overlap, Shared
    <3>2. Overlap(a, b, w) = [i |-> w.i, j |-> w.j + 1, out |-> w.out \o Shared(r, s)] BY <3>1, <1>3
    <3>3. Overlap(a, b, w) \in Walks(la, lb) BY <3>2, <2>1, <2>5, <1>3 DEF Walks
    <3> QED BY <3>2, <3>3, <2>2, <2>3, <2>7, <1>1, <1>2, <1>5
  <2> QED BY <2>6, <2>7
<1> QED BY <1>4, <1>5, <1>1, <1>2

\* The walk goes step by step.
LEMMA OverlapsStep ==
  ASSUME NEW a \in Seq(Ranges), NEW b \in Seq(Ranges)
  PROVE  /\ Overlaps(a, b)[0] = [i |-> 1, j |-> 1, out |-> <<>>]
         /\ \A i \in 1..(Len(a) + Len(b)) : Overlaps(a, b)[i] = Overlap(a, b, Overlaps(a, b)[i - 1])
         /\ \A i \in 0..(Len(a) + Len(b)) : Overlaps(a, b)[i] \in Walks(Len(a), Len(b))
<1>1. PICK n \in Nat : n = Len(a) + Len(b) OBVIOUS
<1> DEFINE Step(i, v) == Overlap(a, b, v)
           Raw(p) == p = [i \in 0..n |-> IF i = 0 THEN [i |-> 1, j |-> 1, out |-> <<>>] ELSE Step(i, p[i - 1])]
<1>2. PICK V : V = Walks(Len(a), Len(b)) OBVIOUS
<1>3. \A i \in 1..n, v \in V : Step(i, v) \in V
  <2>1. ASSUME NEW i \in 1..n, NEW v \in V PROVE Step(i, v) \in V
    <3>1. v \in Walks(Len(a), Len(b)) BY <1>2
    <3> QED BY <3>1, <1>2, OverlapCases
  <2> QED BY <2>1
<1>4. [i |-> 1, j |-> 1, out |-> <<>>] \in V BY <1>2 DEF Walks
<1>5. PICK c \in V : c = [i |-> 1, j |-> 1, out |-> <<>>] BY <1>4
<1>6. Overlaps(a, b) = CHOOSE q : Raw(q) BY <1>1 DEF Overlaps
<1> DEFINE Is(p) == p = [i \in 0..n |-> IF i = 0 THEN c ELSE Step(i, p[i - 1])]
<1> HIDE DEF Step
<1>7. \A q : Raw(q) <=> Is(q) BY <1>5
<1> HIDE DEF Raw
<1>8. PICK G : G = [i \in 1..n |-> [v \in V |-> Step(i, v)]] OBVIOUS
<1>9. G \in [1..n -> [V -> V]] BY <1>3, <1>8
<1>10. Defined(n, V, c, G) BY <1>9, Recursion
<1>11. \A i \in 1..n, v \in V : G[i][v] = Step(i, v) BY <1>8
<1>12. PICK p \in [0..n -> V] : p[0] = c /\ \A i \in 1..n : p[i] = G[i][p[i - 1]]
  BY <1>10 DEF Defined
<1>13. ASSUME NEW i \in 1..n PROVE p[i] = Step(i, p[i - 1])
  <2>1. i - 1 \in 0..n OBVIOUS
  <2>2. p[i - 1] \in V BY <2>1
  <2> QED BY <2>2, <1>11, <1>12
<1>14. Is(p)
  <2>1. ASSUME NEW i \in 0..n PROVE p[i] = IF i = 0 THEN c ELSE Step(i, p[i - 1])
    BY <1>12, <1>13
  <2> QED BY <2>1
<1>15. PICK f : f = Overlaps(a, b) OBVIOUS
<1>16. Raw(f) BY <1>14, <1>7, <1>6, <1>15
<1>17. Is(f) BY <1>7, <1>16
<1>18. f[0] = c BY <1>17
<1>19. \A i \in 1..n : f[i] = Step(i, f[i - 1]) BY <1>17
<1>20. \A i \in 1..n : f[i - 1] \in V => f[i] \in V BY <1>19, <1>3
<1>21. \A i \in 0..n : f[i] \in V BY <1>18, <1>20, RecursionType
<1> QED BY <1>1, <1>2, <1>5, <1>15, <1>18, <1>19, <1>21 DEF Step

\* A clock that two ranges share, one of them before where the walk is.
Behind(a, b, w, k) ==
  \E p \in 1..Len(a), q \in 1..Len(b) :
    ContainsClock(a[p], k) /\ ContainsClock(b[q], k) /\ (p < w.i \/ q < w.j)

\* After m steps: one step for each range passed; what is out is in order,
\* before one of the two ranges at hand, and holds what the walk has behind it.
WalkInv(a, b, m, w) ==
  /\ w \in Walks(Len(a), Len(b)) /\ Tidy(w.out)
  /\ w.i > Len(a) \/ w.j > Len(b) \/ w.i + w.j = m + 2
  /\ w.i <= Len(a) /\ w.j <= Len(b) =>
       \A x \in 1..Len(w.out) : End(w.out[x]) < a[w.i].clock \/ End(w.out[x]) < b[w.j].clock
  /\ \A k \in Nat : Covers(w.out, k) <=> Behind(a, b, w, k)

\* The part that two ranges share can be put behind what is out.
LEMMA AppendShared ==
  ASSUME NEW s, Tidy(s), NEW r \in Ranges, NEW t \in Ranges,
         \A x \in 1..Len(s) : End(s[x]) < r.clock \/ End(s[x]) < t.clock
  PROVE  /\ Tidy(s \o Shared(r, t))
         /\ \A k \in Nat : Covers(s \o Shared(r, t), k) <=> Covers(s, k) \/ (ContainsClock(r, k) /\ ContainsClock(t, k))
         /\ \A x \in 1..Len(s \o Shared(r, t)) :
              \/ x \in 1..Len(s) /\ (s \o Shared(r, t))[x] = s[x]
              \/ End((s \o Shared(r, t))[x]) <= End(r) /\ End((s \o Shared(r, t))[x]) <= End(t)
<1>1. s \in Seq(Ranges) BY DEF Tidy
<1>2. CASE Shared(r, t) = <<>> /\ \A k \in Nat : ~(ContainsClock(r, k) /\ ContainsClock(t, k))
  <2>1. s \o Shared(r, t) = s BY <1>1, <1>2
  <2> QED BY <2>1, <1>2
<1>3. ASSUME NEW y \in Ranges, Shared(r, t) = <<y>>, r.clock <= y.clock, t.clock <= y.clock,
             End(y) <= End(r), End(y) <= End(t),
             \A k \in Nat : ContainsClock(y, k) <=> ContainsClock(r, k) /\ ContainsClock(t, k)
      PROVE  /\ Tidy(s \o <<y>>)
             /\ \A k \in Nat : Covers(s \o <<y>>, k) <=> Covers(s, k) \/ (ContainsClock(r, k) /\ ContainsClock(t, k))
             /\ \A x \in 1..Len(s \o <<y>>) :
                  \/ x \in 1..Len(s) /\ (s \o <<y>>)[x] = s[x]
                  \/ End((s \o <<y>>)[x]) <= End(r) /\ End((s \o <<y>>)[x]) <= End(t)
  <2>1. s \o <<y>> = Append(s, y) BY <1>1
  <2>2. PICK u : u = Append(s, y) OBVIOUS
  <2>3. ASSUME NEW x \in 1..Len(s) PROVE End(s[x]) < y.clock
    <3>1. s[x] \in Ranges BY <1>1
    <3>2. End(s[x]) \in Nat /\ r.clock \in Nat /\ t.clock \in Nat /\ y.clock \in Nat BY <3>1, RangeBounds
    <3> QED BY <3>2, <1>3
  <2>4. /\ Tidy(u) /\ Len(u) = Len(s) + 1
        /\ \A x \in 1..Len(s) : u[x] = s[x]
        /\ u[Len(s) + 1] = y
        /\ \A k \in Nat : Covers(u, k) <=> Covers(s, k) \/ ContainsClock(y, k)
    BY <2>2, <2>3, AppendTidy
  <2>5. \A x \in 1..Len(u) : x \in 1..Len(s) \/ x = Len(s) + 1 BY <2>4, <1>1
  <2>6. \A x \in 1..Len(u) : (x \in 1..Len(s) /\ u[x] = s[x]) \/ (End(u[x]) <= End(r) /\ End(u[x]) <= End(t))
    BY <2>4, <2>5, <1>3
  <2>7. \A k \in Nat : Covers(u, k) <=> Covers(s, k) \/ (ContainsClock(r, k) /\ ContainsClock(t, k)) BY <2>4, <1>3
  <2> QED BY <2>1, <2>2, <2>4, <2>6, <2>7
<1>4. QED BY <1>2, <1>3, SharedPart

\* A step of the walk keeps it.
LEMMA OverlapInv ==
  ASSUME NEW a, Tidy(a), NEW b, Tidy(b), NEW m \in 1..(Len(a) + Len(b)), NEW w, WalkInv(a, b, m - 1, w)
  PROVE  WalkInv(a, b, m, Overlap(a, b, w))
<1>1. a \in Seq(Ranges) /\ b \in Seq(Ranges) BY DEF Tidy
<1>2. PICK la \in Nat : la = Len(a) BY <1>1
<1>3. PICK lb \in Nat : lb = Len(b) BY <1>1
<1>4. PICK v : v = Overlap(a, b, w) OBVIOUS
<1>5. w \in Walks(la, lb) /\ w.i \in 1..(la + 1) /\ w.j \in 1..(lb + 1) /\ Tidy(w.out)
  BY <1>2, <1>3 DEF WalkInv, Walks
<1>6. v \in Walks(la, lb) BY <1>1, <1>2, <1>3, <1>4, <1>5, OverlapCases
<1>7. m \in 1..(la + lb) BY <1>2, <1>3
<1>8. CASE w.i > la \/ w.j > lb
  <2>1. v = w BY <1>1, <1>2, <1>3, <1>4, <1>5, <1>8, OverlapCases
  <2> QED BY <2>1, <1>2, <1>3, <1>4, <1>8 DEF WalkInv
<1>9. CASE ~(w.i > la) /\ ~(w.j > lb)
  <2>1. w.i \in 1..la /\ w.j \in 1..lb BY <1>5, <1>9
  <2>2. PICK r \in Ranges : r = a[w.i] BY <2>1, <1>1, <1>2
  <2>3. PICK s \in Ranges : s = b[w.j] BY <2>1, <1>1, <1>3
  <2>4. r.clock \in Nat /\ End(r) \in Nat /\ r.clock < End(r) BY RangeBounds
  <2>5. s.clock \in Nat /\ End(s) \in Nat /\ s.clock < End(s) BY RangeBounds
  <2>6. w.i + w.j = (m - 1) + 2 BY <1>2, <1>3, <1>9 DEF WalkInv
  <2>7. \A x \in 1..Len(w.out) : End(w.out[x]) < r.clock \/ End(w.out[x]) < s.clock
    BY <2>1, <2>2, <2>3, <1>2, <1>3 DEF WalkInv
  <2>8. PICK o : o = w.out \o Shared(r, s) OBVIOUS
  <2>9. /\ Tidy(o)
        /\ \A k \in Nat : Covers(o, k) <=> Covers(w.out, k) \/ (ContainsClock(r, k) /\ ContainsClock(s, k))
        /\ \A x \in 1..Len(o) : \/ x \in 1..Len(w.out) /\ o[x] = w.out[x]
                                \/ End(o[x]) <= End(r) /\ End(o[x]) <= End(s)
    BY <2>7, <2>8, <1>5, AppendShared
  <2>10. \A x \in 1..Len(o) : o[x] \in Ranges /\ End(o[x]) \in Nat
    <3>1. o \in Seq(Ranges) BY <2>9 DEF Tidy
    <3>2. \A x \in 1..Len(o) : o[x] \in Ranges BY <3>1
    <3> QED BY <3>2, RangeBounds
  <2>11. \A k \in Nat : Covers(w.out, k) <=> Behind(a, b, w, k) BY DEF WalkInv
  <2>12. CASE End(r) < End(s)
    <3>1. v = [i |-> w.i + 1, j |-> w.j, out |-> o]
      BY <2>1, <2>2, <2>3, <2>8, <2>12, <1>1, <1>2, <1>3, <1>4, <1>5, <1>9, OverlapCases
    <3>2. v.i = w.i + 1 /\ v.j = w.j /\ v.out = o BY <3>1
    <3>3. v.i + v.j = m + 2 BY <3>2, <2>1, <2>6, <1>7
    <3>4. ASSUME v.i <= la, NEW x \in 1..Len(o) PROVE End(o[x]) < a[v.i].clock \/ End(o[x]) < s.clock
      <4>1. v.i \in 1..la /\ w.i < v.i BY <3>2, <3>4, <2>1
      <4>2. PICK y \in Ranges : y = a[v.i] BY <4>1, <1>1, <1>2
      <4>3. y.clock \in Nat /\ End(r) < y.clock BY <4>1, <4>2, <2>1, <2>2, <1>2, RangeBounds DEF Tidy
      <4>4. CASE x \in 1..Len(w.out) /\ o[x] = w.out[x]
        <5>1. End(o[x]) < r.clock \/ End(o[x]) < s.clock BY <4>4, <2>7
        <5>2. End(o[x]) \in Nat BY <2>10
        <5> QED BY <5>1, <5>2, <4>2, <4>3, <2>4, <2>5
      <4>5. CASE End(o[x]) <= End(r) BY <4>2, <4>3, <4>5, <2>4, <2>10
      <4> QED BY <4>4, <4>5, <2>9
    <3>5. ASSUME NEW k \in Nat PROVE Covers(o, k) <=> Behind(a, b, v, k)
      <4>1. ASSUME Behind(a, b, w, k) PROVE Behind(a, b, v, k)
        <5>1. PICK p \in 1..la, q \in 1..lb :
                ContainsClock(a[p], k) /\ ContainsClock(b[q], k) /\ (p < w.i \/ q < w.j)
          BY <4>1, <1>2, <1>3 DEF Behind
        <5>2. p < v.i \/ q < v.j BY <5>1, <3>2, <2>1
        <5> QED BY <5>1, <5>2, <1>2, <1>3 DEF Behind
      <4>2. ASSUME ContainsClock(r, k), ContainsClock(s, k) PROVE Behind(a, b, v, k)
        <5>1. w.i < v.i BY <3>2, <2>1
        <5> QED BY <5>1, <4>2, <2>1, <2>2, <2>3, <1>2, <1>3 DEF Behind
      <4>3. ASSUME Behind(a, b, v, k) PROVE Behind(a, b, w, k) \/ (ContainsClock(r, k) /\ ContainsClock(s, k))
        <5>1. PICK p \in 1..la, q \in 1..lb :
                ContainsClock(a[p], k) /\ ContainsClock(b[q], k) /\ (p < v.i \/ q < v.j)
          BY <4>3, <1>2, <1>3 DEF Behind
        <5>2. CASE p < w.i \/ q < w.j BY <5>1, <5>2, <1>2, <1>3 DEF Behind
        <5>3. CASE ~(p < w.i \/ q < w.j)
          <6>1. p = w.i /\ ~(q < w.j) BY <5>1, <5>3, <3>2, <2>1
          <6>2. ContainsClock(r, k) /\ k < End(r) BY <6>1, <5>1, <2>2 DEF ContainsClock
          <6>3. q = w.j
            <7>1. SUFFICES ASSUME w.j < q PROVE FALSE BY <6>1, <2>1
            <7>2. PICK z \in Ranges : z = b[q] BY <1>1, <1>3
            <7>3. End(s) < z.clock /\ z.clock \in Nat BY <7>1, <7>2, <2>1, <2>3, <1>3, RangeBounds DEF Tidy
            <7>4. z.clock <= k BY <7>2, <5>1 DEF ContainsClock
            <7> QED BY <7>3, <7>4, <6>2, <2>4, <2>5, <2>12
          <6> QED BY <6>2, <6>3, <5>1, <2>3
        <5> QED BY <5>2, <5>3
      <4> QED BY <4>1, <4>2, <4>3, <2>9, <2>11
    <3> QED BY <3>2, <3>3, <3>4, <3>5, <2>3, <2>9, <1>2, <1>3, <1>4, <1>6 DEF WalkInv
  <2>13. CASE ~(End(r) < End(s))
    <3>1. v = [i |-> w.i, j |-> w.j + 1, out |-> o]
      BY <2>1, <2>2, <2>3, <2>8, <2>13, <1>1, <1>2, <1>3, <1>4, <1>5, <1>9, OverlapCases
    <3>2. v.i = w.i /\ v.j = w.j + 1 /\ v.out = o BY <3>1
    <3>3. v.i + v.j = m + 2
      <4>1. w.i \in Int /\ w.j \in Int /\ m \in Int BY <2>1, <1>7
      <4> QED BY <4>1, <3>2, <2>6
    <3>4. ASSUME v.j <= lb, NEW x \in 1..Len(o) PROVE End(o[x]) < r.clock \/ End(o[x]) < b[v.j].clock
      <4>1. v.j \in 1..lb /\ w.j < v.j BY <3>2, <3>4, <2>1
      <4>2. PICK y \in Ranges : y = b[v.j] BY <4>1, <1>1, <1>3
      <4>3. y.clock \in Nat /\ End(s) < y.clock BY <4>1, <4>2, <2>1, <2>3, <1>3, RangeBounds DEF Tidy
      <4>4. CASE x \in 1..Len(w.out) /\ o[x] = w.out[x]
        <5>1. End(o[x]) < r.clock \/ End(o[x]) < s.clock BY <4>4, <2>7
        <5>2. End(o[x]) \in Nat BY <2>10
        <5> QED BY <5>1, <5>2, <4>2, <4>3, <2>4, <2>5
      <4>5. CASE End(o[x]) <= End(s) BY <4>2, <4>3, <4>5, <2>5, <2>10
      <4> QED BY <4>4, <4>5, <2>9
    <3>5. ASSUME NEW k \in Nat PROVE Covers(o, k) <=> Behind(a, b, v, k)
      <4>1. ASSUME Behind(a, b, w, k) PROVE Behind(a, b, v, k)
        <5>1. PICK p \in 1..la, q \in 1..lb :
                ContainsClock(a[p], k) /\ ContainsClock(b[q], k) /\ (p < w.i \/ q < w.j)
          BY <4>1, <1>2, <1>3 DEF Behind
        <5>2. p < v.i \/ q < v.j BY <5>1, <3>2, <2>1
        <5> QED BY <5>1, <5>2, <1>2, <1>3 DEF Behind
      <4>2. ASSUME ContainsClock(r, k), ContainsClock(s, k) PROVE Behind(a, b, v, k)
        <5>1. w.j < v.j BY <3>2, <2>1
        <5> QED BY <5>1, <4>2, <2>1, <2>2, <2>3, <1>2, <1>3 DEF Behind
      <4>3. ASSUME Behind(a, b, v, k) PROVE Behind(a, b, w, k) \/ (ContainsClock(r, k) /\ ContainsClock(s, k))
        <5>1. PICK p \in 1..la, q \in 1..lb :
                ContainsClock(a[p], k) /\ ContainsClock(b[q], k) /\ (p < v.i \/ q < v.j)
          BY <4>3, <1>2, <1>3 DEF Behind
        <5>2. CASE p < w.i \/ q < w.j BY <5>1, <5>2, <1>2, <1>3 DEF Behind
        <5>3. CASE ~(p < w.i \/ q < w.j)
          <6>1. q = w.j /\ ~(p < w.i) BY <5>1, <5>3, <3>2, <2>1
          <6>2. ContainsClock(s, k) /\ k < End(s) BY <6>1, <5>1, <2>3 DEF ContainsClock
          <6>3. p = w.i
            <7>1. SUFFICES ASSUME w.i < p PROVE FALSE BY <6>1, <2>1
            <7>2. PICK z \in Ranges : z = a[p] BY <1>1, <1>2
            <7>3. End(r) < z.clock /\ z.clock \in Nat BY <7>1, <7>2, <2>1, <2>2, <1>2, RangeBounds DEF Tidy
            <7>4. z.clock <= k BY <7>2, <5>1 DEF ContainsClock
            <7> QED BY <7>3, <7>4, <6>2, <2>4, <2>5, <2>13
          <6> QED BY <6>2, <6>3, <5>1, <2>2
        <5> QED BY <5>2, <5>3
      <4> QED BY <4>1, <4>2, <4>3, <2>9, <2>11
    <3> QED BY <3>2, <3>3, <3>4, <3>5, <2>2, <2>9, <1>2, <1>3, <1>4, <1>6 DEF WalkInv
  <2> QED BY <2>12, <2>13
<1> QED BY <1>8, <1>9

\* IntersectSets keeps the clocks of both.
LEMMA Intersected ==
  ASSUME NEW a, Tidy(a), NEW b, Tidy(b)
  PROVE  /\ Tidy(CommonRanges(a, b))
         /\ \A k \in Nat : Covers(CommonRanges(a, b), k) <=> Covers(a, k) /\ Covers(b, k)
<1>1. a \in Seq(Ranges) /\ b \in Seq(Ranges) BY DEF Tidy
<1>2. PICK la \in Nat : la = Len(a) BY <1>1
<1>3. PICK lb \in Nat : lb = Len(b) BY <1>1
<1>4. PICK n \in Nat : n = la + lb OBVIOUS
<1>5. PICK f : f = Overlaps(a, b) OBVIOUS
<1>6. /\ f[0] = [i |-> 1, j |-> 1, out |-> <<>>]
      /\ \A m \in 1..n : f[m] = Overlap(a, b, f[m - 1])
  BY <1>1, <1>2, <1>3, <1>4, <1>5, OverlapsStep
<1>7. PICK P : P = {m \in 0..n : WalkInv(a, b, m, f[m])} OBVIOUS
<1>8. 0 \in P
  <2>1. f[0] \in Walks(la, lb) BY <1>6 DEF Walks
  <2>2. f[0].i = 1 /\ f[0].j = 1 /\ f[0].out = <<>> BY <1>6
  <2>3. Tidy(<<>>) /\ \A k : ~Covers(<<>>, k) BY DEF Tidy, Covers
  <2>4. \A k : ~Behind(a, b, f[0], k) BY <2>2, <1>2, <1>3 DEF Behind
  <2>5. WalkInv(a, b, 0, f[0]) BY <2>1, <2>2, <2>3, <2>4, <1>2, <1>3 DEF WalkInv
  <2> QED BY <2>5, <1>7
<1>9. ASSUME NEW m \in 0..(n - 1), m \in P PROVE m + 1 \in P
  <2>1. /\ m + 1 \in 1..(Len(a) + Len(b)) /\ (m + 1) - 1 = m
        /\ m + 1 \in 0..n /\ m + 1 \in 1..n
    BY <1>2, <1>3, <1>4
  <2>2. WalkInv(a, b, (m + 1) - 1, f[m]) BY <2>1, <1>7, <1>9
  <2>3. WalkInv(a, b, m + 1, Overlap(a, b, f[m])) BY <2>1, <2>2, OverlapInv
  <2>4. f[m + 1] = Overlap(a, b, f[m]) BY <2>1, <1>6
  <2> QED BY <2>1, <2>3, <2>4, <1>7
<1>10. \A m \in 0..n : m \in P BY <1>8, <1>9, UpTo
<1>11. PICK w : w = f[n] /\ WalkInv(a, b, n, w) BY <1>7, <1>10
<1>12. CommonRanges(a, b) = w.out BY <1>2, <1>3, <1>4, <1>5, <1>11 DEF CommonRanges
<1>13. w.i \in 1..(la + 1) /\ w.j \in 1..(lb + 1) BY <1>2, <1>3, <1>11 DEF WalkInv, Walks
<1>14. w.i > la \/ w.j > lb
  <2>1. w.i > la \/ w.j > lb \/ w.i + w.j = n + 2 BY <1>2, <1>3, <1>11 DEF WalkInv
  <2> QED BY <2>1, <1>4, <1>13
<1>15. ASSUME NEW k \in Nat PROVE Behind(a, b, w, k) <=> Covers(a, k) /\ Covers(b, k)
  <2>1. ASSUME Behind(a, b, w, k) PROVE Covers(a, k) /\ Covers(b, k) BY <2>1 DEF Behind, Covers
  <2>2. ASSUME Covers(a, k), Covers(b, k) PROVE Behind(a, b, w, k)
    <3>1. PICK p \in 1..la : ContainsClock(a[p], k) BY <2>2, <1>2 DEF Covers
    <3>2. PICK q \in 1..lb : ContainsClock(b[q], k) BY <2>2, <1>3 DEF Covers
    <3>3. p < w.i \/ q < w.j BY <1>13, <1>14
    <3> QED BY <3>1, <3>2, <3>3, <1>2, <1>3 DEF Behind
  <2> QED BY <2>1, <2>2
<1>16. Tidy(w.out) /\ \A k \in Nat : Covers(w.out, k) <=> Behind(a, b, w, k) BY <1>11 DEF WalkInv
<1> QED BY <1>12, <1>15, <1>16

-----------------------------------------------------------------------------
(* The subtraction.                                                        *)

\* The clocks of two sequences put together.
LEMMA CoversBoth ==
  ASSUME NEW s \in Seq(Ranges), NEW t \in Seq(Ranges), NEW k \in Nat
  PROVE  Covers(s \o t, k) <=> Covers(s, k) \/ Covers(t, k)
<1>1. PICK n \in Nat : n = Len(s) OBVIOUS
<1>2. PICK m \in Nat : m = Len(t) OBVIOUS
<1>3. PICK u : u = s \o t OBVIOUS
<1>4. Len(u) = n + m BY <1>1, <1>2, <1>3
<1>5. \A i \in 1..n : u[i] = s[i] BY <1>1, <1>2, <1>3
<1>6. \A i \in 1..m : u[n + i] = t[i] BY <1>1, <1>2, <1>3
<1>7. ASSUME Covers(u, k) PROVE Covers(s, k) \/ Covers(t, k)
  <2>1. PICK i \in 1..(n + m) : ContainsClock(u[i], k) BY <1>4, <1>7 DEF Covers
  <2>2. CASE i <= n
    <3>1. i \in 1..n BY <2>2
    <3> QED BY <3>1, <2>1, <1>1, <1>5 DEF Covers
  <2>3. CASE ~(i <= n)
    <3>1. i - n \in 1..m /\ n + (i - n) = i BY <2>3
    <3> QED BY <3>1, <2>1, <1>2, <1>6 DEF Covers
  <2> QED BY <2>2, <2>3
<1>8. ASSUME Covers(s, k) PROVE Covers(u, k)
  <2>1. PICK i \in 1..n : ContainsClock(s[i], k) BY <1>1, <1>8 DEF Covers
  <2>2. i \in 1..(n + m) OBVIOUS
  <2> QED BY <2>1, <2>2, <1>4, <1>5 DEF Covers
<1>9. ASSUME Covers(t, k) PROVE Covers(u, k)
  <2>1. PICK i \in 1..m : ContainsClock(t[i], k) BY <1>2, <1>9 DEF Covers
  <2>2. n + i \in 1..(n + m) OBVIOUS
  <2> QED BY <2>1, <2>2, <1>4, <1>6 DEF Covers
<1> QED BY <1>3, <1>7, <1>8, <1>9

\* The clocks from one to before another, as a sequence of at most one range.
Between(from, stop) == IF from < stop THEN <<[clock |-> from, len |-> stop - from]>> ELSE <<>>

\* It holds those clocks.
LEMMA BetweenHolds ==
  ASSUME NEW from \in Nat, NEW stop \in Nat, stop <= Top
  PROVE  /\ Between(from, stop) \in Seq(Ranges)
         /\ \A k \in Nat : Covers(Between(from, stop), k) <=> from <= k /\ k < stop
<1>1. CASE from < stop
  <2>1. PICK x : x = [clock |-> from, len |-> stop - from] OBVIOUS
  <2>2. x \in Ranges /\ End(x) = stop /\ x.clock = from BY <2>1, <1>1, MakeRange
  <2>3. Between(from, stop) = <<x>> BY <2>1, <1>1 DEF Between
  <2>4. \A k \in Nat : Covers(<<x>>, k) <=> ContainsClock(x, k)
    <3>1. Len(<<x>>) = 1 /\ <<x>>[1] = x OBVIOUS
    <3>2. \A i \in 1..1 : i = 1 OBVIOUS
    <3>3. 1 \in 1..1 OBVIOUS
    <3> QED BY <3>1, <3>2, <3>3 DEF Covers
  <2> QED BY <2>2, <2>3, <2>4 DEF ContainsClock
<1>2. CASE ~(from < stop)
  <2>1. Between(from, stop) = <<>> BY <1>2 DEF Between
  <2>2. \A k \in Nat : ~(from <= k /\ k < stop) BY <1>2
  <2> QED BY <2>1, <2>2 DEF Covers
<1> QED BY <1>1, <1>2

\* The states of the subtraction, and the first clock of a range not settled.
CutStates(la, lb) == [i : 1..(la + 1), j : 1..(lb + 1), cursor : Nat, out : Seq(Ranges)]

Cursor(r, cursor) == IF cursor >= r.clock THEN cursor ELSE r.clock

\* The rest of the range at hand is settled up to stop, and the next one is up.
Settle(left, w, stop) ==
  [i |-> w.i + 1, j |-> w.j, cursor |-> 0, out |-> w.out \o Between(Cursor(left[w.i], w.cursor), stop)]

\* What a step does with the range and the removal at hand.
CutMet(left, right, w) ==
  \/ /\ End(right[w.j]) <= left[w.i].clock
     /\ Cut(left, right, w) = [i |-> w.i, j |-> w.j + 1, cursor |-> w.cursor, out |-> w.out]
  \/ /\ right[w.j].clock >= End(left[w.i])
     /\ Cut(left, right, w) = Settle(left, w, End(left[w.i]))
  \/ /\ right[w.j].clock < End(left[w.i]) /\ End(right[w.j]) >= End(left[w.i])
     /\ Cut(left, right, w) = Settle(left, w, right[w.j].clock)
  \/ /\ End(right[w.j]) > left[w.i].clock /\ End(right[w.j]) < End(left[w.i])
     /\ Cut(left, right, w) =
          [i |-> w.i, j |-> w.j + 1, cursor |-> End(right[w.j]),
           out |-> w.out \o Between(Cursor(left[w.i], w.cursor), right[w.j].clock)]

\* What one step of the subtraction does, by cases.
LEMMA CutCases ==
  ASSUME NEW left \in Seq(Ranges), NEW right \in Seq(Ranges), NEW w \in CutStates(Len(left), Len(right))
  PROVE  /\ Cut(left, right, w) \in CutStates(Len(left), Len(right))
         /\ w.i > Len(left) => Cut(left, right, w) = w
         /\ ~(w.i > Len(left)) =>
              /\ w.j > Len(right) => Cut(left, right, w) = Settle(left, w, End(left[w.i]))
              /\ ~(w.j > Len(right)) => CutMet(left, right, w)
<1>1. PICK la \in Nat : la = Len(left) OBVIOUS
<1>2. PICK lb \in Nat : lb = Len(right) OBVIOUS
<1>3. /\ w.i \in 1..(la + 1) /\ w.j \in 1..(lb + 1) /\ w.cursor \in Nat /\ w.out \in Seq(Ranges)
      /\ w = [i |-> w.i, j |-> w.j, cursor |-> w.cursor, out |-> w.out]
  BY <1>1, <1>2 DEF CutStates
<1>4. CASE w.i > la
  <2>1. Cut(left, right, w) = w BY <1>1, <1>4 DEF Cut
  <2> QED BY <2>1, <1>1, <1>4
<1>5. CASE ~(w.i > la)
  <2>1. w.i \in 1..la /\ w.i + 1 \in 1..(la + 1) BY <1>3, <1>5
  <2>2. PICK r \in Ranges : r = left[w.i] BY <2>1, <1>1
  <2>3. r.clock \in Nat /\ End(r) \in Nat /\ End(r) <= Top BY RangeBounds
  <2>4. PICK c \in Nat : c = Cursor(r, w.cursor) BY <2>3, <1>3 DEF Cursor
  <2>5. Max({w.cursor, r.clock}) = c BY <2>3, <2>4, <1>3, MaxMin DEF Cursor
  <2>6. \A stop \in Nat : stop <= Top => /\ Settle(left, w, stop) = [i |-> w.i + 1, j |-> w.j, cursor |-> 0, out |-> w.out \o Between(c, stop)]
                                        /\ w.out \o Between(c, stop) \in Seq(Ranges)
                                        /\ Settle(left, w, stop) \in CutStates(la, lb)
    <3>1. ASSUME NEW stop \in Nat, stop <= Top
          PROVE  /\ Settle(left, w, stop) = [i |-> w.i + 1, j |-> w.j, cursor |-> 0, out |-> w.out \o Between(c, stop)]
                 /\ w.out \o Between(c, stop) \in Seq(Ranges)
                 /\ Settle(left, w, stop) \in CutStates(la, lb)
      <4>1. w.out \o Between(c, stop) \in Seq(Ranges) BY <3>1, <1>3, BetweenHolds
      <4>2. Settle(left, w, stop) = [i |-> w.i + 1, j |-> w.j, cursor |-> 0, out |-> w.out \o Between(c, stop)]
        BY <2>2, <2>4 DEF Settle
      <4> QED BY <4>1, <4>2, <2>1, <1>3 DEF CutStates
    <3> QED BY <3>1
  <2>7. CASE w.j > lb
    <3>1. Cut(left, right, w) = [i |-> w.i + 1, j |-> w.j, cursor |-> 0, out |-> w.out \o Between(c, End(r))]
      BY <2>2, <2>5, <2>7, <1>1, <1>2, <1>5 DEF Cut, Between
    <3> QED BY <3>1, <2>2, <2>3, <2>6, <2>7, <1>1, <1>2, <1>5
  <2>8. CASE ~(w.j > lb)
    <3>1. w.j \in 1..lb /\ w.j + 1 \in 1..(lb + 1) BY <1>3, <2>8
    <3>2. PICK x \in Ranges : x = right[w.j] BY <3>1, <1>2
    <3>3. x.clock \in Nat /\ End(x) \in Nat /\ x.clock < End(x) /\ End(x) <= Top /\ Top \in Nat
      BY RangeBounds, RangeSetAssumption, WidthAssumption
    <3>4. x.clock <= Top BY <3>3
    <3>5. CASE End(x) <= r.clock
      <4>1. Cut(left, right, w) = [w EXCEPT !.j = @ + 1] BY <3>2, <3>5, <2>2, <2>8, <1>1, <1>2, <1>5 DEF Cut
      <4>2. Cut(left, right, w) = [i |-> w.i, j |-> w.j + 1, cursor |-> w.cursor, out |-> w.out] BY <4>1, <1>3
      <4>3. Cut(left, right, w) \in CutStates(la, lb) BY <4>2, <3>1, <1>3 DEF CutStates
      <4> QED BY <4>2, <4>3, <3>2, <3>5, <2>2, <2>8, <1>1, <1>2, <1>5 DEF CutMet
    <3>6. CASE ~(End(x) <= r.clock) /\ x.clock >= End(r)
      <4>1. Cut(left, right, w) = [i |-> w.i + 1, j |-> w.j, cursor |-> 0, out |-> w.out \o Between(c, End(r))]
        BY <3>2, <3>6, <2>2, <2>5, <2>8, <1>1, <1>2, <1>5 DEF Cut, Between
      <4>2. Cut(left, right, w) = Settle(left, w, End(r)) /\ Cut(left, right, w) \in CutStates(la, lb)
        BY <4>1, <2>3, <2>6
      <4> QED BY <4>2, <3>2, <3>6, <2>2, <2>8, <1>1, <1>2, <1>5 DEF CutMet
    <3>7. CASE ~(End(x) <= r.clock) /\ ~(x.clock >= End(r)) /\ End(x) >= End(r)
      <4>1. Cut(left, right, w) = [i |-> w.i + 1, j |-> w.j, cursor |-> 0, out |-> w.out \o Between(c, x.clock)]
        BY <3>2, <3>7, <2>2, <2>5, <2>8, <1>1, <1>2, <1>5 DEF Cut, Between
      <4>2. Cut(left, right, w) = Settle(left, w, x.clock) /\ Cut(left, right, w) \in CutStates(la, lb)
        BY <4>1, <3>3, <3>4, <2>6
      <4>3. x.clock < End(r) BY <3>3, <3>7, <2>3
      <4> QED BY <4>2, <4>3, <3>2, <3>7, <2>2, <2>8, <1>1, <1>2, <1>5 DEF CutMet
    <3>8. CASE ~(End(x) <= r.clock) /\ ~(x.clock >= End(r)) /\ ~(End(x) >= End(r))
      <4>1. Cut(left, right, w) = [i |-> w.i, j |-> w.j + 1, cursor |-> End(x), out |-> w.out \o Between(c, x.clock)]
        BY <3>2, <3>8, <2>2, <2>5, <2>8, <1>1, <1>2, <1>5 DEF Cut, Between
      <4>2. Cut(left, right, w) \in CutStates(la, lb)
        <5>1. w.out \o Between(c, x.clock) \in Seq(Ranges) BY <3>3, <3>4, <2>6
        <5> QED BY <5>1, <4>1, <3>1, <3>3, <1>3 DEF CutStates
      <4>3. End(x) > r.clock /\ End(x) < End(r) BY <3>3, <3>8, <2>3
      <4> QED BY <4>1, <4>2, <4>3, <3>2, <2>2, <2>4, <2>8, <1>1, <1>2, <1>5 DEF CutMet
    <3> QED BY <3>5, <3>6, <3>7, <3>8
  <2> QED BY <2>7, <2>8
<1> QED BY <1>4, <1>5

\* The subtraction goes step by step.
LEMMA CutsStep ==
  ASSUME NEW left \in Seq(Ranges), NEW right \in Seq(Ranges)
  PROVE  /\ Cuts(left, right)[0] = [i |-> 1, j |-> 1, cursor |-> 0, out |-> <<>>]
         /\ \A i \in 1..(Len(left) + Len(right)) : Cuts(left, right)[i] = Cut(left, right, Cuts(left, right)[i - 1])
         /\ \A i \in 0..(Len(left) + Len(right)) : Cuts(left, right)[i] \in CutStates(Len(left), Len(right))
<1>1. PICK n \in Nat : n = Len(left) + Len(right) OBVIOUS
<1> DEFINE Step(i, v) == Cut(left, right, v)
           Raw(p) == p = [i \in 0..n |-> IF i = 0 THEN [i |-> 1, j |-> 1, cursor |-> 0, out |-> <<>>] ELSE Step(i, p[i - 1])]
<1>2. PICK V : V = CutStates(Len(left), Len(right)) OBVIOUS
<1>3. \A i \in 1..n, v \in V : Step(i, v) \in V
  <2>1. ASSUME NEW i \in 1..n, NEW v \in V PROVE Step(i, v) \in V
    <3>1. v \in CutStates(Len(left), Len(right)) BY <1>2
    <3> QED BY <3>1, <1>2, CutCases
  <2> QED BY <2>1
<1>4. [i |-> 1, j |-> 1, cursor |-> 0, out |-> <<>>] \in V BY <1>2 DEF CutStates
<1>5. PICK b \in V : b = [i |-> 1, j |-> 1, cursor |-> 0, out |-> <<>>] BY <1>4
<1>6. Cuts(left, right) = CHOOSE q : Raw(q) BY <1>1 DEF Cuts
<1> DEFINE Is(p) == p = [i \in 0..n |-> IF i = 0 THEN b ELSE Step(i, p[i - 1])]
<1> HIDE DEF Step
<1>7. \A q : Raw(q) <=> Is(q) BY <1>5
<1> HIDE DEF Raw
<1>8. PICK G : G = [i \in 1..n |-> [v \in V |-> Step(i, v)]] OBVIOUS
<1>9. G \in [1..n -> [V -> V]] BY <1>3, <1>8
<1>10. Defined(n, V, b, G) BY <1>9, Recursion
<1>11. \A i \in 1..n, v \in V : G[i][v] = Step(i, v) BY <1>8
<1>12. PICK p \in [0..n -> V] : p[0] = b /\ \A i \in 1..n : p[i] = G[i][p[i - 1]]
  BY <1>10 DEF Defined
<1>13. ASSUME NEW i \in 1..n PROVE p[i] = Step(i, p[i - 1])
  <2>1. i - 1 \in 0..n OBVIOUS
  <2>2. p[i - 1] \in V BY <2>1
  <2> QED BY <2>2, <1>11, <1>12
<1>14. Is(p)
  <2>1. ASSUME NEW i \in 0..n PROVE p[i] = IF i = 0 THEN b ELSE Step(i, p[i - 1])
    BY <1>12, <1>13
  <2> QED BY <2>1
<1>15. PICK f : f = Cuts(left, right) OBVIOUS
<1>16. Raw(f) BY <1>14, <1>7, <1>6, <1>15
<1>17. Is(f) BY <1>7, <1>16
<1>18. f[0] = b BY <1>17
<1>19. \A i \in 1..n : f[i] = Step(i, f[i - 1]) BY <1>17
<1>20. \A i \in 1..n : f[i - 1] \in V => f[i] \in V BY <1>19, <1>3
<1>21. \A i \in 0..n : f[i] \in V BY <1>18, <1>20, RecursionType
<1> QED BY <1>1, <1>2, <1>5, <1>15, <1>18, <1>19, <1>21 DEF Step

\* A clock of the ranges already settled, or of the settled part of the one at hand.
Settled(left, w, k) ==
  \E p \in 1..Len(left) : ContainsClock(left[p], k) /\ (p < w.i \/ (p = w.i /\ k < w.cursor))

\* After m steps: one step for each range passed on either side; the removals
\* passed end before what is not settled, the one at hand starts after what is
\* settled; and what is out is what is settled without the removals.
CutInv(left, right, m, w) ==
  /\ w \in CutStates(Len(left), Len(right))
  /\ w.i > Len(left) \/ w.i + w.j = m + 2
  /\ w.i <= Len(left) =>
       /\ w.cursor <= End(left[w.i])
       /\ \A q \in 1..Len(right) : q < w.j => End(right[q]) <= Cursor(left[w.i], w.cursor)
  /\ w.j <= Len(right) => w.cursor <= right[w.j].clock
  /\ \A k \in Nat : Covers(w.out, k) <=> ~Covers(right, k) /\ Settled(left, w, k)

\* Settling a range keeps it.
LEMMA SettleInv ==
  ASSUME NEW left, Tidy(left), NEW right, Tidy(right), NEW m \in Nat, NEW w, CutInv(left, right, m - 1, w),
         ~(w.i > Len(left)), NEW stop \in Nat, stop <= End(left[w.i]),
         \A k \in Nat : Cursor(left[w.i], w.cursor) <= k /\ k < End(left[w.i]) => (k < stop <=> ~Covers(right, k))
  PROVE  CutInv(left, right, m, Settle(left, w, stop))
<1>1. left \in Seq(Ranges) /\ right \in Seq(Ranges) BY DEF Tidy
<1>2. PICK la \in Nat : la = Len(left) BY <1>1
<1>3. PICK lb \in Nat : lb = Len(right) BY <1>1
<1>4. /\ w.i \in 1..(la + 1) /\ w.j \in 1..(lb + 1) /\ w.cursor \in Nat /\ w.out \in Seq(Ranges)
  BY <1>2, <1>3 DEF CutInv, CutStates
<1>5. w.i \in 1..la /\ w.i + 1 \in 1..(la + 1) /\ w.i < w.i + 1 BY <1>2, <1>4
<1>6. PICK r \in Ranges : r = left[w.i] BY <1>1, <1>2, <1>5
<1>7. r.clock \in Nat /\ End(r) \in Nat /\ r.clock < End(r) /\ End(r) <= Top /\ Top \in Nat
  BY RangeBounds, RangeSetAssumption, WidthAssumption
<1>8. PICK c \in Nat : c = Cursor(r, w.cursor) BY <1>4, <1>7 DEF Cursor
<1>9. /\ w.i + w.j = (m - 1) + 2 /\ w.cursor <= End(r)
      /\ \A q \in 1..lb : q < w.j => End(right[q]) <= c
  BY <1>2, <1>3, <1>5, <1>6, <1>8 DEF CutInv
<1>10. w.cursor <= c /\ r.clock <= c /\ c <= End(r) /\ (c = w.cursor \/ c = r.clock) BY <1>4, <1>7, <1>8, <1>9 DEF Cursor
<1>11. stop <= Top BY <1>6, <1>7
<1>12. PICK o : o = w.out \o Between(c, stop) OBVIOUS
<1>13. /\ o \in Seq(Ranges)
       /\ \A k \in Nat : Covers(o, k) <=> Covers(w.out, k) \/ (c <= k /\ k < stop)
  <2>1. /\ Between(c, stop) \in Seq(Ranges)
        /\ \A k \in Nat : Covers(Between(c, stop), k) <=> c <= k /\ k < stop
    BY <1>11, BetweenHolds
  <2>2. \A k \in Nat : Covers(o, k) <=> Covers(w.out, k) \/ Covers(Between(c, stop), k)
    BY <2>1, <1>4, <1>12, CoversBoth
  <2> QED BY <2>1, <2>2, <1>4, <1>12
<1>14. PICK v : v = Settle(left, w, stop) OBVIOUS
<1>15. v = [i |-> w.i + 1, j |-> w.j, cursor |-> 0, out |-> o] BY <1>6, <1>8, <1>12, <1>14 DEF Settle
<1>16. v.i = w.i + 1 /\ v.j = w.j /\ v.cursor = 0 /\ v.out = o BY <1>15
<1>17. v \in CutStates(la, lb) BY <1>4, <1>5, <1>13, <1>15 DEF CutStates
<1>18. v.i + v.j = m + 2
  <2>1. w.i \in Int /\ w.j \in Int BY <1>4
  <2> QED BY <2>1, <1>9, <1>16
<1>19. ASSUME v.i <= la
       PROVE  /\ v.cursor <= End(left[v.i])
              /\ \A q \in 1..lb : q < v.j => End(right[q]) <= Cursor(left[v.i], v.cursor)
  <2>1. v.i \in 1..la /\ w.i < v.i BY <1>5, <1>16, <1>19
  <2>2. PICK y \in Ranges : y = left[v.i] BY <2>1, <1>1, <1>2
  <2>3. y.clock \in Nat /\ End(y) \in Nat BY RangeBounds
  <2>4. End(r) < y.clock BY <2>1, <2>2, <1>2, <1>5, <1>6 DEF Tidy
  <2>5. Cursor(y, 0) = y.clock BY <2>3 DEF Cursor
  <2>6. ASSUME NEW q \in 1..lb, q < v.j PROVE End(right[q]) <= y.clock
    <3>1. right[q] \in Ranges BY <1>1, <1>3
    <3>2. End(right[q]) \in Nat BY <3>1, RangeBounds
    <3>3. End(right[q]) <= c BY <2>6, <1>9, <1>16
    <3> QED BY <3>2, <3>3, <2>3, <2>4, <1>7, <1>10
  <2> QED BY <2>2, <2>3, <2>5, <2>6, <1>16
<1>20. ASSUME v.j <= lb PROVE v.cursor <= right[v.j].clock
  <2>1. v.j \in 1..lb BY <1>4, <1>16, <1>20
  <2>2. right[v.j] \in Ranges BY <2>1, <1>1, <1>3
  <2>3. right[v.j].clock \in Nat BY <2>2, RangeBounds
  <2> QED BY <2>3, <1>16
<1>21. ASSUME NEW k \in Nat PROVE Covers(o, k) <=> ~Covers(right, k) /\ Settled(left, v, k)
  <2>1. Covers(w.out, k) <=> ~Covers(right, k) /\ Settled(left, w, k) BY DEF CutInv
  <2>2. c <= k /\ k < End(r) => (k < stop <=> ~Covers(right, k)) BY <1>6, <1>8
  <2>3. ASSUME Settled(left, w, k) PROVE Settled(left, v, k)
    <3>1. PICK p \in 1..la : ContainsClock(left[p], k) /\ (p < w.i \/ (p = w.i /\ k < w.cursor))
      BY <2>3, <1>2 DEF Settled
    <3>2. p < v.i BY <3>1, <1>5, <1>16
    <3> QED BY <3>1, <3>2, <1>2 DEF Settled
  <2>4. ASSUME c <= k, k < stop PROVE ~Covers(right, k) /\ Settled(left, v, k)
    <3>1. r.clock <= k /\ k < End(r) BY <2>4, <1>6, <1>7, <1>10
    <3>2. ContainsClock(left[w.i], k) BY <3>1, <1>6 DEF ContainsClock
    <3>3. Settled(left, v, k) BY <3>2, <1>2, <1>5, <1>16 DEF Settled
    <3> QED BY <3>1, <3>3, <2>2, <2>4
  <2>5. ASSUME ~Covers(right, k), Settled(left, v, k) PROVE Settled(left, w, k) \/ (c <= k /\ k < stop)
    <3>1. PICK p \in 1..la : ContainsClock(left[p], k) /\ (p < v.i \/ (p = v.i /\ k < v.cursor))
      BY <2>5, <1>2 DEF Settled
    <3>2. p < w.i \/ p = w.i BY <3>1, <1>5, <1>16
    <3>3. CASE p < w.i \/ k < w.cursor BY <3>1, <3>2, <3>3, <1>2 DEF Settled
    <3>4. CASE ~(p < w.i) /\ ~(k < w.cursor)
      <4>1. r.clock <= k /\ k < End(r) BY <3>1, <3>2, <3>4, <1>6 DEF ContainsClock
      <4>2. c <= k BY <4>1, <3>4, <1>4, <1>7, <1>10
      <4> QED BY <4>1, <4>2, <2>2, <2>5
    <3> QED BY <3>3, <3>4
  <2> QED BY <2>1, <2>3, <2>4, <2>5, <1>13
<1> QED BY <1>2, <1>3, <1>14, <1>16, <1>17, <1>18, <1>19, <1>20, <1>21 DEF CutInv

\* A step of the subtraction keeps it.
LEMMA CutStepInv ==
  ASSUME NEW left, Tidy(left), NEW right, Tidy(right),
         NEW m \in 1..(Len(left) + Len(right)), NEW w, CutInv(left, right, m - 1, w)
  PROVE  CutInv(left, right, m, Cut(left, right, w))
<1>1. left \in Seq(Ranges) /\ right \in Seq(Ranges) BY DEF Tidy
<1>2. PICK la \in Nat : la = Len(left) BY <1>1
<1>3. PICK lb \in Nat : lb = Len(right) BY <1>1
<1>4. /\ w \in CutStates(la, lb)
      /\ w.i \in 1..(la + 1) /\ w.j \in 1..(lb + 1) /\ w.cursor \in Nat /\ w.out \in Seq(Ranges)
  BY <1>2, <1>3 DEF CutInv, CutStates
<1>5. PICK v : v = Cut(left, right, w) OBVIOUS
<1>6. v \in CutStates(la, lb) BY <1>1, <1>2, <1>3, <1>4, <1>5, CutCases
<1>7. m \in 1..(la + lb) /\ m \in Nat BY <1>2, <1>3
<1>8. CASE w.i > la
  <2>1. v = w BY <1>1, <1>2, <1>3, <1>4, <1>5, <1>8, CutCases
  <2> QED BY <2>1, <1>2, <1>5, <1>8 DEF CutInv
<1>9. CASE ~(w.i > la)
  <2>1. w.i \in 1..la BY <1>4, <1>9
  <2>2. PICK r \in Ranges : r = left[w.i] BY <2>1, <1>1, <1>2
  <2>3. r.clock \in Nat /\ End(r) \in Nat /\ r.clock < End(r) BY RangeBounds
  <2>4. PICK c \in Nat : c = Cursor(r, w.cursor) BY <2>3, <1>4 DEF Cursor
  <2>5. /\ w.i + w.j = (m - 1) + 2 /\ w.cursor <= End(r)
        /\ \A q \in 1..lb : q < w.j => End(right[q]) <= c
    BY <2>1, <2>2, <2>4, <1>2, <1>3 DEF CutInv
  <2>6. w.cursor <= c /\ r.clock <= c /\ (c = w.cursor \/ c = r.clock) BY <2>3, <2>4, <1>4 DEF Cursor
  <2>7. \A k \in Nat : Covers(w.out, k) <=> ~Covers(right, k) /\ Settled(left, w, k) BY DEF CutInv
  <2>8. CASE w.j > lb
    <3>1. v = Settle(left, w, End(r))
      <4>1. ~(w.i > Len(left)) /\ w.j > Len(right) /\ w \in CutStates(Len(left), Len(right))
        BY <2>8, <1>2, <1>3, <1>4, <1>9
      <4>2. Cut(left, right, w) = Settle(left, w, End(left[w.i])) BY <4>1, <1>1, CutCases
      <4> QED BY <4>2, <2>2, <1>5
    <3>2. ASSUME NEW k \in Nat, c <= k PROVE ~Covers(right, k)
      <4>1. SUFFICES ASSUME NEW q \in 1..lb, ContainsClock(right[q], k) PROVE FALSE BY <1>3 DEF Covers
      <4>2. q < w.j BY <2>8, <1>4
      <4>3. PICK z \in Ranges : z = right[q] BY <1>1, <1>3
      <4>4. End(z) \in Nat /\ k < End(z) BY <4>1, <4>3, RangeBounds DEF ContainsClock
      <4>5. End(z) <= c BY <4>2, <4>3, <2>5
      <4> QED BY <4>4, <4>5, <3>2
    <3>3. CutInv(left, right, m, Settle(left, w, End(r)))
      <4>1. /\ End(r) <= End(left[w.i]) /\ ~(w.i > Len(left))
            /\ \A k \in Nat : Cursor(left[w.i], w.cursor) <= k /\ k < End(left[w.i]) => (k < End(r) <=> ~Covers(right, k))
        BY <3>2, <2>2, <2>3, <2>4, <1>2, <1>9
      <4> QED BY <4>1, <2>3, <1>7, SettleInv
    <3> QED BY <3>1, <3>3, <1>5
  <2>9. CASE ~(w.j > lb)
    <3>1. w.j \in 1..lb BY <2>9, <1>4
    <3>2. PICK x \in Ranges : x = right[w.j] BY <3>1, <1>1, <1>3
    <3>3. x.clock \in Nat /\ End(x) \in Nat /\ x.clock < End(x) /\ End(x) <= Top /\ Top \in Nat
      BY RangeBounds, RangeSetAssumption, WidthAssumption
    <3>4. w.cursor <= x.clock BY <3>1, <3>2, <1>3 DEF CutInv
    <3>5. \A q \in 1..lb : w.j < q => right[q] \in Ranges /\ End(x) < right[q].clock
      BY <3>1, <3>2, <1>1, <1>3 DEF Tidy
    <3>6. ASSUME NEW k \in Nat, c <= k, k < x.clock PROVE ~Covers(right, k)
      <4>1. SUFFICES ASSUME NEW q \in 1..lb, ContainsClock(right[q], k) PROVE FALSE BY <1>3 DEF Covers
      <4>2. PICK z \in Ranges : z = right[q] BY <1>1, <1>3
      <4>3. z.clock \in Nat /\ End(z) \in Nat /\ z.clock <= k /\ k < End(z)
        BY <4>1, <4>2, RangeBounds DEF ContainsClock
      <4>4. CASE q < w.j
        <5>1. End(z) <= c BY <4>2, <4>4, <2>5
        <5> QED BY <5>1, <4>3, <3>6
      <4>5. CASE q = w.j
        <5>1. z = x BY <4>2, <4>5, <3>2
        <5> QED BY <5>1, <4>3, <3>6
      <4>6. CASE w.j < q
        <5>1. End(x) < z.clock BY <4>2, <4>6, <3>5
        <5> QED BY <5>1, <4>3, <3>3, <3>6
      <4> QED BY <4>4, <4>5, <4>6, <3>1
    <3>7. \A k \in Nat : x.clock <= k /\ k < End(x) => Covers(right, k)
      BY <3>1, <3>2, <1>3 DEF Covers, ContainsClock
    <3>8. \/ End(x) <= r.clock /\ v = [i |-> w.i, j |-> w.j + 1, cursor |-> w.cursor, out |-> w.out]
          \/ x.clock >= End(r) /\ v = Settle(left, w, End(r))
          \/ x.clock < End(r) /\ End(x) >= End(r) /\ v = Settle(left, w, x.clock)
          \/ /\ End(x) > r.clock /\ End(x) < End(r)
             /\ v = [i |-> w.i, j |-> w.j + 1, cursor |-> End(x), out |-> w.out \o Between(c, x.clock)]
      <4>1. ~(w.i > Len(left)) /\ ~(w.j > Len(right)) /\ w \in CutStates(Len(left), Len(right))
        BY <2>9, <1>2, <1>3, <1>4, <1>9
      <4>2. CutMet(left, right, w) BY <4>1, <1>1, CutCases
      <4> QED BY <4>2, <3>2, <2>2, <2>4, <1>5 DEF CutMet
    <3>9. CASE x.clock >= End(r) /\ v = Settle(left, w, End(r))
      <4>1. \A k \in Nat : c <= k /\ k < End(r) => ~Covers(right, k) BY <3>3, <3>6, <3>9, <2>3
      <4>2. /\ End(r) <= End(left[w.i]) /\ ~(w.i > Len(left))
            /\ \A k \in Nat : Cursor(left[w.i], w.cursor) <= k /\ k < End(left[w.i]) => (k < End(r) <=> ~Covers(right, k))
        BY <4>1, <2>2, <2>3, <2>4, <1>2, <1>9
      <4>3. CutInv(left, right, m, Settle(left, w, End(r))) BY <4>2, <2>3, <1>7, SettleInv
      <4> QED BY <4>3, <3>9, <1>5
    <3>10. CASE x.clock < End(r) /\ End(x) >= End(r) /\ v = Settle(left, w, x.clock)
      <4>1. ASSUME NEW k \in Nat, c <= k, k < End(r) PROVE k < x.clock <=> ~Covers(right, k)
        <5>1. CASE k < x.clock BY <5>1, <4>1, <3>6
        <5>2. CASE ~(k < x.clock)
          <6>1. x.clock <= k /\ k < End(x) BY <5>2, <4>1, <3>3, <3>10, <2>3
          <6> QED BY <6>1, <5>2, <3>7
        <5> QED BY <5>1, <5>2
      <4>2. x.clock <= End(r) BY <3>3, <3>10, <2>3
      <4>3. CutInv(left, right, m, Settle(left, w, x.clock)) BY <4>1, <4>2, <3>3, <2>2, <2>4, <1>2, <1>7, <1>9, SettleInv
      <4> QED BY <4>3, <3>10, <1>5
    <3>11. ASSUME v.i = w.i, v.j = w.j + 1
           PROVE  /\ v.i + v.j = m + 2 /\ w.j < v.j /\ \A q \in 1..lb : q < v.j => q < w.j \/ q = w.j
                  /\ v.j <= lb => right[v.j] \in Ranges /\ End(x) < right[v.j].clock
      <4>1. w.i \in Int /\ w.j \in Int BY <1>4
      <4>2. v.i + v.j = m + 2 BY <4>1, <3>11, <2>5, <1>7
      <4>3. w.j < v.j /\ \A q \in 1..lb : q < v.j => q < w.j \/ q = w.j BY <4>1, <3>11
      <4>4. v.j <= lb => v.j \in 1..lb BY <3>1, <3>11
      <4> QED BY <4>2, <4>3, <4>4, <3>5
    <3>12. CASE End(x) <= r.clock /\ v = [i |-> w.i, j |-> w.j + 1, cursor |-> w.cursor, out |-> w.out]
      <4>1. v.i = w.i /\ v.j = w.j + 1 /\ v.cursor = w.cursor /\ v.out = w.out BY <3>12
      <4>2. \A q \in 1..lb : q < v.j => End(right[q]) <= c
        <5>1. End(x) <= c BY <3>3, <3>12, <2>3, <2>6
        <5> QED BY <5>1, <4>1, <3>2, <3>11, <2>5
      <4>3. v.j <= lb => v.cursor <= right[v.j].clock
        <5>1. ASSUME v.j <= lb PROVE v.cursor <= right[v.j].clock
          <6>1. right[v.j] \in Ranges /\ End(x) < right[v.j].clock BY <5>1, <4>1, <3>11
          <6>2. right[v.j].clock \in Nat BY <6>1, RangeBounds
          <6>3. w.cursor <= right[v.j].clock BY <6>1, <6>2, <3>3, <3>4, <1>4
          <6> QED BY <6>3, <4>1
        <5> QED BY <5>1
      <4>4. \A k \in Nat : Settled(left, v, k) <=> Settled(left, w, k) BY <4>1 DEF Settled
      <4>5. \A k \in Nat : Covers(v.out, k) <=> ~Covers(right, k) /\ Settled(left, v, k) BY <4>1, <4>4, <2>7
      <4>6. v.i + v.j = m + 2 BY <4>1, <3>11
      <4> QED BY <4>1, <4>2, <4>3, <4>5, <4>6, <2>2, <2>4, <2>5, <1>2, <1>3, <1>5, <1>6 DEF CutInv
    <3>13. CASE /\ End(x) > r.clock /\ End(x) < End(r)
                /\ v = [i |-> w.i, j |-> w.j + 1, cursor |-> End(x), out |-> w.out \o Between(c, x.clock)]
      <4>1. PICK o : o = w.out \o Between(c, x.clock) OBVIOUS
      <4>2. v.i = w.i /\ v.j = w.j + 1 /\ v.cursor = End(x) /\ v.out = o BY <4>1, <3>13
      <4>3. Cursor(r, End(x)) = End(x) BY <3>3, <3>13, <2>3 DEF Cursor
      <4>4. ASSUME NEW q \in 1..lb, q < v.j PROVE End(right[q]) <= End(x)
        <5>1. CASE q = w.j BY <5>1, <3>2, <3>3
        <5>2. CASE q < w.j
          <6>1. right[q] \in Ranges BY <1>1, <1>3
          <6>2. End(right[q]) \in Nat BY <6>1, RangeBounds
          <6>3. End(right[q]) < x.clock BY <5>2, <3>1, <3>2, <1>3 DEF Tidy
          <6> QED BY <6>2, <6>3, <3>3
        <5> QED BY <5>1, <5>2, <4>2, <4>4, <3>11
      <4>5. v.j <= lb => v.cursor <= right[v.j].clock
        <5>1. ASSUME v.j <= lb PROVE v.cursor <= right[v.j].clock
          <6>1. right[v.j] \in Ranges /\ End(x) < right[v.j].clock BY <5>1, <4>2, <3>11
          <6>2. right[v.j].clock \in Nat BY <6>1, RangeBounds
          <6> QED BY <6>1, <6>2, <4>2, <3>3
        <5> QED BY <5>1
      <4>6. \A k \in Nat : Covers(o, k) <=> Covers(w.out, k) \/ (c <= k /\ k < x.clock)
        <5>1. x.clock <= Top BY <3>3
        <5>2. /\ Between(c, x.clock) \in Seq(Ranges)
              /\ \A k \in Nat : Covers(Between(c, x.clock), k) <=> c <= k /\ k < x.clock
          BY <5>1, <3>3, BetweenHolds
        <5>3. \A k \in Nat : Covers(o, k) <=> Covers(w.out, k) \/ Covers(Between(c, x.clock), k)
          BY <5>2, <4>1, <1>4, CoversBoth
        <5> QED BY <5>2, <5>3
      <4>7. ASSUME NEW k \in Nat PROVE Covers(o, k) <=> ~Covers(right, k) /\ Settled(left, v, k)
        <5>1. ASSUME Settled(left, w, k) PROVE Settled(left, v, k)
          <6>1. PICK p \in 1..la : ContainsClock(left[p], k) /\ (p < w.i \/ (p = w.i /\ k < w.cursor))
            BY <5>1, <1>2 DEF Settled
          <6>2. p < v.i \/ (p = v.i /\ k < v.cursor) BY <6>1, <4>2, <3>3, <3>4, <1>4
          <6> QED BY <6>1, <6>2, <1>2 DEF Settled
        <5>2. ASSUME c <= k, k < x.clock PROVE ~Covers(right, k) /\ Settled(left, v, k)
          <6>1. r.clock <= k /\ k < End(r) /\ k < End(x) BY <5>2, <3>3, <3>13, <2>3, <2>6
          <6>2. ContainsClock(left[w.i], k) BY <6>1, <2>2 DEF ContainsClock
          <6>3. Settled(left, v, k) BY <6>1, <6>2, <4>2, <2>1, <1>2 DEF Settled
          <6> QED BY <6>3, <5>2, <3>6
        <5>3. ASSUME ~Covers(right, k), Settled(left, v, k) PROVE Settled(left, w, k) \/ (c <= k /\ k < x.clock)
          <6>1. PICK p \in 1..la : ContainsClock(left[p], k) /\ (p < w.i \/ (p = w.i /\ k < End(x)))
            BY <5>3, <4>2, <1>2 DEF Settled
          <6>2. CASE p < w.i \/ k < w.cursor BY <6>1, <6>2, <1>2 DEF Settled
          <6>3. CASE ~(p < w.i) /\ ~(k < w.cursor)
            <7>1. r.clock <= k /\ k < End(x) BY <6>1, <6>3, <2>2 DEF ContainsClock
            <7>2. c <= k BY <7>1, <6>3, <2>3, <2>6, <1>4
            <7>3. k < x.clock BY <7>1, <5>3, <3>3, <3>7
            <7> QED BY <7>2, <7>3
          <6> QED BY <6>2, <6>3
        <5> QED BY <5>1, <5>2, <5>3, <4>6, <2>7
      <4>8. v.i + v.j = m + 2 BY <4>2, <3>11
      <4>9. v.cursor <= End(r) BY <4>2, <3>3, <3>13, <2>3
      <4> QED BY <4>2, <4>3, <4>4, <4>5, <4>7, <4>8, <4>9, <2>2, <1>2, <1>3, <1>5, <1>6 DEF CutInv
    <3> QED BY <3>8, <3>9, <3>10, <3>12, <3>13
  <2> QED BY <2>8, <2>9
<1> QED BY <1>8, <1>9

\* subtractRanges leaves the clocks of the one without those of the other.
LEMMA CutsAll ==
  ASSUME NEW left, Tidy(left), NEW right, Tidy(right)
  PROVE  /\ SubtractRanges(left, right) \in Seq(Ranges)
         /\ \A k \in Nat : Covers(SubtractRanges(left, right), k) <=> Covers(left, k) /\ ~Covers(right, k)
<1>1. left \in Seq(Ranges) /\ right \in Seq(Ranges) BY DEF Tidy
<1>2. PICK la \in Nat : la = Len(left) BY <1>1
<1>3. PICK lb \in Nat : lb = Len(right) BY <1>1
<1>4. PICK n \in Nat : n = la + lb OBVIOUS
<1>5. PICK f : f = Cuts(left, right) OBVIOUS
<1>6. /\ f[0] = [i |-> 1, j |-> 1, cursor |-> 0, out |-> <<>>]
      /\ \A m \in 1..n : f[m] = Cut(left, right, f[m - 1])
  BY <1>1, <1>2, <1>3, <1>4, <1>5, CutsStep
<1>7. PICK P : P = {m \in 0..n : CutInv(left, right, m, f[m])} OBVIOUS
<1>8. 0 \in P
  <2>1. f[0] \in CutStates(la, lb) BY <1>6 DEF CutStates
  <2>2. f[0].i = 1 /\ f[0].j = 1 /\ f[0].cursor = 0 /\ f[0].out = <<>> BY <1>6
  <2>3. \A k : ~Covers(<<>>, k) BY DEF Covers
  <2>4. \A k \in Nat : ~Settled(left, f[0], k) BY <2>2, <1>2 DEF Settled
  <2>5. 1 <= la => 0 <= End(left[1])
    <3>1. ASSUME 1 <= la PROVE 0 <= End(left[1])
      <4>1. left[1] \in Ranges BY <3>1, <1>1, <1>2
      <4>2. End(left[1]) \in Nat BY <4>1, RangeBounds
      <4> QED BY <4>2
    <3> QED BY <3>1
  <2>6. 1 <= lb => 0 <= right[1].clock
    <3>1. ASSUME 1 <= lb PROVE 0 <= right[1].clock
      <4>1. right[1] \in Ranges BY <3>1, <1>1, <1>3
      <4>2. right[1].clock \in Nat BY <4>1, RangeBounds
      <4> QED BY <4>2
    <3> QED BY <3>1
  <2>7. \A q \in 1..lb : ~(q < 1) OBVIOUS
  <2>8. CutInv(left, right, 0, f[0]) BY <2>1, <2>2, <2>3, <2>4, <2>5, <2>6, <2>7, <1>2, <1>3 DEF CutInv
  <2> QED BY <2>8, <1>7
<1>9. ASSUME NEW m \in 0..(n - 1), m \in P PROVE m + 1 \in P
  <2>1. /\ m + 1 \in 1..(Len(left) + Len(right)) /\ (m + 1) - 1 = m
        /\ m + 1 \in 0..n /\ m + 1 \in 1..n
    BY <1>2, <1>3, <1>4
  <2>2. CutInv(left, right, (m + 1) - 1, f[m]) BY <2>1, <1>7, <1>9
  <2>3. CutInv(left, right, m + 1, Cut(left, right, f[m])) BY <2>1, <2>2, CutStepInv
  <2>4. f[m + 1] = Cut(left, right, f[m]) BY <2>1, <1>6
  <2> QED BY <2>1, <2>3, <2>4, <1>7
<1>10. \A m \in 0..n : m \in P BY <1>8, <1>9, UpTo
<1>11. PICK w : w = f[n] /\ CutInv(left, right, n, w) BY <1>7, <1>10
<1>12. SubtractRanges(left, right) = w.out BY <1>2, <1>3, <1>4, <1>5, <1>11 DEF SubtractRanges
<1>13. w.i \in 1..(la + 1) /\ w.j \in 1..(lb + 1) /\ w.out \in Seq(Ranges)
  BY <1>2, <1>3, <1>11 DEF CutInv, CutStates
<1>14. w.i > la
  <2>1. w.i > la \/ w.i + w.j = n + 2 BY <1>2, <1>11 DEF CutInv
  <2> QED BY <2>1, <1>4, <1>13
<1>15. \A p \in 1..la : p < w.i BY <1>13, <1>14
<1>16. \A k \in Nat : Settled(left, w, k) <=> Covers(left, k) BY <1>2, <1>15 DEF Settled, Covers
<1>17. \A k \in Nat : Covers(w.out, k) <=> ~Covers(right, k) /\ Settled(left, w, k) BY <1>11 DEF CutInv
<1> QED BY <1>12, <1>13, <1>16, <1>17

\* Subtract removes the clocks of the other.
LEMMA Subtracted ==
  ASSUME Top < Width, NEW left, Tidy(left), NEW right, Tidy(right)
  PROVE  /\ Tidy(LeftRanges(left, right))
         /\ \A k \in Nat : Covers(LeftRanges(left, right), k) <=> Covers(left, k) /\ ~Covers(right, k)
<1>1. CASE right = <<>>
  <2>1. LeftRanges(left, right) = left BY <1>1 DEF LeftRanges
  <2>2. \A k \in Nat : ~Covers(right, k) BY <1>1 DEF Covers
  <2> QED BY <2>1, <2>2
<1>2. CASE right # <<>>
  <2>1. PICK t : t = SubtractRanges(left, right) OBVIOUS
  <2>2. t \in Seq(Ranges) /\ \A k \in Nat : Covers(t, k) <=> Covers(left, k) /\ ~Covers(right, k) BY <2>1, CutsAll
  <2>3. LeftRanges(left, right) = Rebuilt(t)[Len(t)] BY <2>1, <1>2 DEF LeftRanges
  <2>4. Tidy(Rebuilt(t)[Len(t)]) /\ \A k \in Nat : Covers(Rebuilt(t)[Len(t)], k) <=> Covers(t, k) BY <2>2, RebuiltAll
  <2> QED BY <2>2, <2>3, <2>4
<1> QED BY <1>1, <1>2

-----------------------------------------------------------------------------
(* The set of ranges through any sequence of calls.                        *)

\* What the sequence stands for, by its clocks.
LEMMA ClocksCovered ==
  ASSUME NEW s \in Seq(Ranges)
  PROVE  Clocks(s) = {k \in Nat : Covers(s, k)}
<1>1. PICK n \in Nat : n = Len(s) /\ DOMAIN s = 1..n OBVIOUS
<1>2. ASSUME NEW k \in Clocks(s) PROVE k \in Nat /\ Covers(s, k)
  <2>1. PICK r \in ToSet(s) : k \in r.clock .. End(r) - 1 BY DEF Clocks
  <2>2. PICK i \in 1..n : r = s[i] BY <1>1, <2>1 DEF ToSet
  <2>3. r \in Ranges BY <2>2, <1>1
  <2>4. r.clock \in Nat /\ End(r) \in Nat BY <2>3, RangeBounds
  <2>5. k \in Nat /\ r.clock <= k /\ k < End(r) BY <2>1, <2>4
  <2> QED BY <2>2, <2>5, <1>1 DEF Covers, ContainsClock
<1>3. ASSUME NEW k \in Nat, Covers(s, k) PROVE k \in Clocks(s)
  <2>1. PICK i \in 1..n : ContainsClock(s[i], k) BY <1>1, <1>3 DEF Covers
  <2>2. PICK r \in Ranges : r = s[i] BY <1>1
  <2>3. r.clock \in Nat /\ End(r) \in Nat BY RangeBounds
  <2>4. k \in r.clock .. End(r) - 1 BY <2>1, <2>2, <2>3 DEF ContainsClock
  <2>5. r \in ToSet(s) BY <2>2, <1>1 DEF ToSet
  <2> QED BY <2>4, <2>5 DEF Clocks
<1> QED BY <1>2, <1>3

\* A sequence in order is in normal form.
LEMMA TidyNormal ==
  ASSUME NEW s, Tidy(s)
  PROVE  Normal(s)
<1>1. s \in Seq(Ranges) BY DEF Tidy
<1>2. PICK n \in Nat : n = Len(s) /\ DOMAIN s = 1..n BY <1>1
<1>3. ASSUME NEW r \in ToSet(s) PROVE NewRange(r.clock, r.len)
  <2>1. r \in Ranges BY <1>1, <1>2 DEF ToSet
  <2>2. r.clock \in Nat /\ r.len \in Nat /\ r.len # 0 /\ r.clock + r.len <= Top BY <2>1 DEF Ranges
  <2> QED BY <2>2, RangeSetAssumption, WidthAssumption DEF NewRange
<1>4. ASSUME NEW i \in 1..(n - 1) PROVE End(s[i]) < s[i + 1].clock
  <2>1. i \in 1..n /\ i + 1 \in 1..n /\ i < i + 1 OBVIOUS
  <2> QED BY <2>1, <1>2 DEF Tidy
<1> QED BY <1>2, <1>3, <1>4 DEF Normal

\* Ranges in normal form are in order: what holds of neighbours holds of any two.
LEMMA NormalTidy ==
  ASSUME NEW s \in Seq(Ranges), Normal(s)
  PROVE  Tidy(s)
<1>1. PICK n \in Nat : n = Len(s) OBVIOUS
<1>2. \A i \in 1..(n - 1) : End(s[i]) < s[i + 1].clock BY <1>1 DEF Normal
<1>3. ASSUME NEW i \in 1..n, NEW j \in 1..n, i < j PROVE End(s[i]) < s[j].clock
  <2>1. PICK P : P = {d \in 0..n : \A m \in 1..n : i < m /\ m <= i + d => End(s[i]) < s[m].clock} OBVIOUS
  <2>2. 0 \in P BY <2>1
  <2>3. ASSUME NEW d \in 0..(n - 1), d \in P PROVE d + 1 \in P
    <3>1. \A m \in 1..n : i < m /\ m <= i + d => End(s[i]) < s[m].clock BY <2>1, <2>3
    <3>2. ASSUME NEW m \in 1..n, i < m, m <= i + (d + 1) PROVE End(s[i]) < s[m].clock
      <4>1. CASE m <= i + d BY <4>1, <3>1, <3>2
      <4>2. CASE m = i + 1
        <5>1. i \in 1..(n - 1) BY <4>2
        <5> QED BY <5>1, <4>2, <1>2
      <4>3. CASE m # i + 1 /\ ~(m <= i + d)
        <5>1. m - 1 \in 1..n /\ i < m - 1 /\ m - 1 <= i + d /\ m - 1 \in 1..(n - 1) /\ (m - 1) + 1 = m
          BY <4>3, <3>2
        <5>2. End(s[i]) < s[m - 1].clock BY <5>1, <3>1
        <5>3. End(s[m - 1]) < s[m].clock BY <5>1, <1>2
        <5>4. s[m - 1] \in Ranges /\ s[m] \in Ranges /\ s[i] \in Ranges BY <5>1, <1>1
        <5>5. /\ End(s[i]) \in Nat /\ s[m - 1].clock \in Nat /\ End(s[m - 1]) \in Nat /\ s[m].clock \in Nat
              /\ s[m - 1].clock < End(s[m - 1])
          BY <5>4, RangeBounds
        <5> QED BY <5>2, <5>3, <5>5
      <4> QED BY <4>1, <4>2, <4>3
    <3> QED BY <3>2, <2>1
  <2>4. \A d \in 0..n : d \in P BY <2>2, <2>3, UpTo
  <2>5. j - i \in 0..n /\ j <= i + (j - i) BY <1>3
  <2>6. j - i \in P BY <2>4, <2>5
  <2> QED BY <2>1, <2>5, <2>6, <1>3
<1> QED BY <1>1, <1>3 DEF Tidy

\* The ranges that calls are given are in order.
LEMMA OperandTidy ==
  ASSUME NEW other \in Operands
  PROVE  Tidy(other) /\ Clocks(other) = {k \in Nat : Covers(other, k)}
<1>1. Top \in Nat /\ Normal(other)
  <2>1. Top \in Nat BY RangeSetAssumption, WidthAssumption
  <2>2. Normal(other) BY RangeSetAssumption
  <2> QED BY <2>1, <2>2
<1>2. PICK S : S = {other[i] : i \in DOMAIN other} OBVIOUS
<1>3. other \in Seq(S) BY <1>2, RangeSetAssumption
<1>4. PICK n \in Nat : n = Len(other) /\ DOMAIN other = 1..n BY <1>3
<1>5. ASSUME NEW i \in 1..n PROVE other[i] \in Ranges
  <2>1. i \in DOMAIN other BY <1>4
  <2>2. other[i] = [clock |-> other[i].clock, len |-> other[i].len] BY <2>1, RangeSetAssumption
  <2>3. other[i].clock \in 0..Top /\ other[i].len \in 0..Top /\ End(other[i]) <= Top BY <2>1, RangeSetAssumption
  <2>4. PICK x : x = other[i] OBVIOUS
  <2>5. x.clock \in Nat /\ x.len \in Nat /\ End(x) <= Top BY <2>3, <2>4, <1>1
  <2>6. x = [clock |-> x.clock, len |-> x.len] BY <2>2, <2>4
  <2>7. x \in [clock : Nat, len : Nat] BY <2>5, <2>6
  <2>8. x.len # 0
    <3>1. x \in ToSet(other) BY <2>1, <2>4 DEF ToSet
    <3> QED BY <3>1, <1>1 DEF Normal, NewRange
  <2> QED BY <2>4, <2>5, <2>7, <2>8 DEF Ranges, End
<1>6. other \in Seq(Ranges)
  <2>1. \A i \in 1..Len(other) : other[i] \in Ranges BY <1>4, <1>5
  <2> QED BY <2>1, <1>3
<1> QED BY <1>1, <1>6, NormalTidy, ClocksCovered

\* The ranges are in order and hold the clocks that they should stand for.
RangeInv == Tidy(held) /\ ids = {k \in Nat : Covers(held, k)}

\* It holds at first.
LEMMA RangeInitInv == RangeInit => RangeInv
<1>1. Tidy(<<>>) /\ \A k : ~Covers(<<>>, k) BY DEF Tidy, Covers
<1> QED BY <1>1 DEF RangeInit, RangeInv

\* Every call keeps it, as long as the clocks stay below the width.
LEMMA RangeNextInv ==
  ASSUME Top < Width
  PROVE  RangeInv /\ [RangeNext]_rangeVars => RangeInv'
<1> SUFFICES ASSUME RangeInv, [RangeNext]_rangeVars PROVE RangeInv' OBVIOUS
<1>1. Tidy(held) /\ ids = {k \in Nat : Covers(held, k)} BY DEF RangeInv
<1>2. ASSUME NEW clock \in 0..(Width - 1), NEW len \in 0..(Width - 1), Add(clock, len) PROVE RangeInv'
  <2>1. CASE NewRange(clock, len)
    <3>1. PICK r : r = [clock |-> clock, len |-> len] OBVIOUS
    <3>2. r \in Ranges /\ r.clock = clock /\ End(r) = clock + len
      BY <3>1, <2>1, <1>2, RangeSetAssumption, WidthAssumption DEF Add, NewRange, Ranges, End
    <3>3. held' = AddRange(held, r) /\ ids' = ids \cup clock..(clock + len - 1)
      BY <3>1, <2>1, <1>2 DEF Add
    <3>4. Tidy(held') /\ \A k \in Nat : Covers(held', k) <=> Covers(held, k) \/ ContainsClock(r, k)
      BY <3>2, <3>3, <1>1, Added
    <3>5. \A k : k \in clock..(clock + len - 1) <=> k \in Nat /\ ContainsClock(r, k)
      BY <3>2, WidthAssumption DEF ContainsClock
    <3>6. ids' = {k \in Nat : Covers(held', k)} BY <3>3, <3>4, <3>5, <1>1
    <3> QED BY <3>4, <3>6 DEF RangeInv
  <2>2. CASE ~NewRange(clock, len)
    BY <2>2, <1>1, <1>2 DEF Add, rangeVars, RangeInv
  <2> QED BY <2>1, <2>2
<1>3. ASSUME NEW other \in Operands, Merge(other) PROVE RangeInv'
  <2>1. held' = UniteRanges(held, other) /\ ids' = ids \cup Clocks(other) BY <1>3 DEF Merge
  <2>2. Tidy(other) /\ Clocks(other) = {k \in Nat : Covers(other, k)} BY OperandTidy
  <2>3. Tidy(held') /\ \A k \in Nat : Covers(held', k) <=> Covers(held, k) \/ Covers(other, k)
    BY <2>1, <2>2, <1>1, United
  <2>4. ids' = {k \in Nat : Covers(held', k)} BY <2>1, <2>2, <2>3, <1>1
  <2> QED BY <2>3, <2>4 DEF RangeInv
<1>4. ASSUME NEW other \in Operands, Intersect(other) PROVE RangeInv'
  <2>1. held' = CommonRanges(held, other) /\ ids' = ids \cap Clocks(other) BY <1>4 DEF Intersect
  <2>2. Tidy(other) /\ Clocks(other) = {k \in Nat : Covers(other, k)} BY OperandTidy
  <2>3. Tidy(held') /\ \A k \in Nat : Covers(held', k) <=> Covers(held, k) /\ Covers(other, k)
    BY <2>1, <2>2, <1>1, Intersected
  <2>4. ids' = {k \in Nat : Covers(held', k)} BY <2>1, <2>2, <2>3, <1>1
  <2> QED BY <2>3, <2>4 DEF RangeInv
<1>5. ASSUME NEW other \in Operands, Subtract(other) PROVE RangeInv'
  <2>1. held' = LeftRanges(held, other) /\ ids' = ids \ Clocks(other) BY <1>5 DEF Subtract
  <2>2. Tidy(other) /\ Clocks(other) = {k \in Nat : Covers(other, k)} BY OperandTidy
  <2>3. Tidy(held') /\ \A k \in Nat : Covers(held', k) <=> Covers(held, k) /\ ~Covers(other, k)
    BY <2>1, <2>2, <1>1, Subtracted
  <2>4. ids' = {k \in Nat : Covers(held', k)} BY <2>1, <2>2, <2>3, <1>1
  <2> QED BY <2>3, <2>4 DEF RangeInv
<1>6. CASE UNCHANGED rangeVars BY <1>1, <1>6 DEF rangeVars, RangeInv
<1> QED BY <1>2, <1>3, <1>4, <1>5, <1>6 DEF RangeNext

\* Below the width, the ranges of an IdSet are sorted, apart, not empty and stand
\* for exactly the clocks that the calls of Add, Merge, IntersectSets and
\* Subtract add up to.
THEOREM RangesStayExact ==
  ASSUME Top < Width
  PROVE  RangeSpec => []RangesExact
<1>1. RangeInv => RangesExact
  <2>1. ASSUME RangeInv PROVE RangesExact
    <3>1. Tidy(held) /\ ids = {k \in Nat : Covers(held, k)} BY <2>1 DEF RangeInv
    <3>2. held \in Seq(Ranges) BY <3>1 DEF Tidy
    <3> QED BY <3>1, <3>2, TidyNormal, ClocksCovered DEF RangesExact
  <2> QED BY <2>1
<1> QED BY <1>1, RangeInitInv, RangeNextInv, PTL DEF RangeSpec

-----------------------------------------------------------------------------
(* The slices.                                                             *)

\* The pieces of a window, and the states of the cut of a window up to end.
Pieces == [clock : Nat, len : Nat, exists : BOOLEAN]

PieceAt(from, stop, e) == [clock |-> from, len |-> stop - from, exists |-> e]

\* Two bounds make a piece.
LEMMA PieceMade ==
  ASSUME NEW c \in Nat, NEW d \in Nat, c < d
  PROVE  PieceAt(c, d, TRUE) \in Pieces /\ PieceAt(c, d, FALSE) \in Pieces
<1>1. ASSUME NEW e \in BOOLEAN PROVE PieceAt(c, d, e) \in Pieces BY DEF PieceAt, Pieces
<1> QED BY <1>1

Slicing(end) == [out : Seq(Pieces), cursor : 0..end]

\* The pieces so far follow each other from the start of the window to the cursor.
Chain(out, clock, cursor) == (out = <<>> /\ cursor = clock) \/ Consecutive(out, clock, cursor)

\* Each piece is all in the ranges or all not.
Exact(out, s) ==
  \A m \in 1..Len(out), k \in Nat : ContainsClock(out[m], k) => (out[m].exists <=> Covers(s, k))

\* A piece that starts at the cursor continues the chain.
LEMMA AppendPiece ==
  ASSUME NEW s, NEW out \in Seq(Pieces), NEW clock \in Nat, NEW c \in Nat, NEW d \in Nat, c < d, NEW e \in BOOLEAN,
         Chain(out, clock, c), Exact(out, s), \A k \in Nat : c <= k /\ k < d => (e <=> Covers(s, k))
  PROVE  /\ Append(out, PieceAt(c, d, e)) \in Seq(Pieces)
         /\ Consecutive(Append(out, PieceAt(c, d, e)), clock, d)
         /\ Exact(Append(out, PieceAt(c, d, e)), s)
<1>1. PICK x : x = PieceAt(c, d, e) OBVIOUS
<1>2. x.clock = c /\ x.exists = e /\ End(x) = d /\ x \in Pieces BY <1>1 DEF PieceAt, End, Pieces
<1>3. PICK n \in Nat : n = Len(out) OBVIOUS
<1>4. PICK t : t = Append(out, x) OBVIOUS
<1>5. t \in Seq(Pieces) /\ Len(t) = n + 1 /\ t[n + 1] = x /\ t # <<>> BY <1>2, <1>3, <1>4
<1>6. \A i \in 1..n : t[i] = out[i] BY <1>3, <1>4
<1>7. Consecutive(t, clock, d)
  <2>1. CASE out = <<>> /\ c = clock
    <3>1. n = 0 BY <2>1, <1>3
    <3>2. t[1].clock = clock /\ End(t[Len(t)]) = d BY <3>1, <2>1, <1>2, <1>5
    <3>3. \A i \in 1..(Len(t) - 1) : FALSE BY <3>1, <1>5
    <3> QED BY <3>2, <3>3, <1>5 DEF Consecutive
  <2>2. CASE Consecutive(out, clock, c)
    <3>1. out # <<>> /\ out[1].clock = clock /\ End(out[n]) = c
          /\ \A i \in 1..(n - 1) : End(out[i]) = out[i + 1].clock
      BY <2>2, <1>3 DEF Consecutive
    <3>2. n > 0 BY <3>1, <1>3
    <3>3. 1 \in 1..n /\ n \in 1..n BY <3>2
    <3>4. t[1].clock = clock BY <3>1, <3>3, <1>6
    <3>5. End(t[Len(t)]) = d BY <1>2, <1>5
    <3>6. ASSUME NEW i \in 1..n PROVE End(t[i]) = t[i + 1].clock
      <4>1. CASE i = n BY <4>1, <3>1, <3>3, <1>2, <1>5, <1>6
      <4>2. CASE i # n
        <5>1. i \in 1..(n - 1) /\ i + 1 \in 1..n BY <4>2
        <5> QED BY <5>1, <3>1, <1>6
      <4> QED BY <4>1, <4>2
    <3>7. \A i \in 1..(Len(t) - 1) : i \in 1..n BY <1>5
    <3> QED BY <3>4, <3>5, <3>6, <3>7, <1>5 DEF Consecutive
  <2> QED BY <2>1, <2>2 DEF Chain
<1>8. Exact(t, s)
  <2>1. ASSUME NEW m \in 1..(n + 1), NEW k \in Nat, ContainsClock(t[m], k) PROVE t[m].exists <=> Covers(s, k)
    <3>1. CASE m = n + 1
      <4>1. c <= k /\ k < d BY <3>1, <2>1, <1>2, <1>5 DEF ContainsClock
      <4>2. t[m].exists = e BY <3>1, <1>2, <1>5
      <4> QED BY <4>1, <4>2
    <3>2. CASE m # n + 1
      <4>1. m \in 1..n BY <3>2
      <4>2. t[m] = out[m] BY <4>1, <1>6
      <4> QED BY <4>1, <4>2, <2>1, <1>3 DEF Exact
    <3> QED BY <3>1, <3>2
  <2> QED BY <2>1, <1>5 DEF Exact
<1> QED BY <1>1, <1>4, <1>5, <1>7, <1>8

\* The gap before a piece, if any.
Gap(c, start) == IF c < start THEN <<PieceAt(c, start, FALSE)>> ELSE <<>>

\* A range takes its piece of the window.
SliceTaken(end, a, r) ==
  \E start, stop \in 0..end :
    /\ start < stop /\ start = Cursor(r, a.cursor) /\ stop = IF End(r) <= end THEN End(r) ELSE end
    /\ Segment(end, a, r) = [out |-> Append(a.out \o Gap(a.cursor, start), PieceAt(start, stop, TRUE)),
                             cursor |-> stop]

\* What one range does to the pieces, by cases.
LEMMA SegmentCases ==
  ASSUME Top < Width, NEW end \in Nat, end <= Top, NEW a \in Slicing(end), NEW r \in Ranges
  PROVE  /\ Segment(end, a, r) \in Slicing(end)
         /\ End(r) <= a.cursor \/ r.clock >= end \/ a.cursor = end => Segment(end, a, r) = a
         /\ ~(End(r) <= a.cursor) /\ ~(r.clock >= end) /\ a.cursor # end => SliceTaken(end, a, r)
<1>1. a.out \in Seq(Pieces) /\ a.cursor \in 0..end /\ a = [out |-> a.out, cursor |-> a.cursor] BY DEF Slicing
<1>2. r.clock \in Nat /\ End(r) \in Nat /\ r.clock < End(r) /\ End(r) <= Top /\ Top \in Nat /\ Width \in Nat
  BY RangeBounds, RangeSetAssumption, WidthAssumption
<1>3. End(r) % Width = End(r) BY <1>2
<1>4. PICK start \in Nat : start = Cursor(r, a.cursor) BY <1>1, <1>2 DEF Cursor
<1>5. Max({r.clock, a.cursor}) = start BY <1>1, <1>2, <1>4, MaxMin DEF Cursor
<1>6. PICK stop \in Nat : stop = IF End(r) <= end THEN End(r) ELSE end BY <1>2
<1>7. Min({End(r) % Width, end}) = stop BY <1>2, <1>3, <1>6, MaxMin
<1>8. CASE End(r) <= a.cursor \/ r.clock >= end
  <2>1. Segment(end, a, r) = a BY <1>8 DEF Segment
  <2> QED BY <2>1, <1>8
<1>9. CASE ~(End(r) <= a.cursor) /\ ~(r.clock >= end) /\ a.cursor = end
  <2>1. ~(start < stop) /\ ~(a.cursor < start) BY <1>1, <1>2, <1>4, <1>6, <1>9 DEF Cursor
  <2>2. Segment(end, a, r) = [a EXCEPT !.out = @ \o <<>>] BY <2>1, <1>5, <1>7, <1>9 DEF Segment
  <2>3. Segment(end, a, r) = a BY <2>2, <1>1
  <2> QED BY <2>3, <1>9
<1>10. CASE ~(End(r) <= a.cursor) /\ ~(r.clock >= end) /\ a.cursor # end
  <2>1. start < stop /\ stop <= end /\ a.cursor <= start BY <1>1, <1>2, <1>4, <1>6, <1>10 DEF Cursor
  <2>2. start \in 0..end /\ stop \in 0..end BY <2>1
  <2>3. Gap(a.cursor, start) \in Seq(Pieces)
    <3>1. CASE a.cursor < start
      <4>1. PICK y \in Pieces : y = PieceAt(a.cursor, start, FALSE)
        <5>1. a.cursor \in Nat BY <1>1
        <5>2. PieceAt(a.cursor, start, FALSE) \in Pieces BY <5>1, <3>1, PieceMade
        <5> QED BY <5>2
      <4>2. Gap(a.cursor, start) = <<y>> BY <4>1, <3>1 DEF Gap
      <4>3. <<y>> \in Seq(Pieces) OBVIOUS
      <4> QED BY <4>2, <4>3
    <3>2. CASE ~(a.cursor < start)
      <4>1. Gap(a.cursor, start) = <<>> BY <3>2 DEF Gap
      <4> QED BY <4>1
    <3> QED BY <3>1, <3>2
  <2>4. PICK x \in Pieces : x = PieceAt(start, stop, TRUE)
    <3>1. PieceAt(start, stop, TRUE) \in Pieces BY <2>1, PieceMade
    <3> QED BY <3>1
  <2>5. PICK h \in Seq(Pieces) : h = Gap(a.cursor, start) BY <2>3
  <2>6. PICK g \in Seq(Pieces) : g = a.out \o h
    <3>1. PICK u \in Seq(Pieces) : u = a.out BY <1>1
    <3>2. u \o h \in Seq(Pieces) OBVIOUS
    <3> QED BY <3>1, <3>2
  <2>7. Segment(end, a, r) = [out |-> g \o <<x>>, cursor |-> stop]
    BY <2>1, <2>4, <2>5, <2>6, <1>5, <1>7, <1>10 DEF Segment, Gap, PieceAt
  <2>8. g \o <<x>> = Append(g, x) /\ Append(g, x) \in Seq(Pieces) OBVIOUS
  <2>9. PICK o \in Seq(Pieces) : o = Append(g, x) BY <2>8
  <2>10. Segment(end, a, r) = [out |-> o, cursor |-> stop] BY <2>7, <2>8, <2>9
  <2>11. Segment(end, a, r) \in Slicing(end) BY <2>2, <2>10 DEF Slicing
  <2>12. o = Append(a.out \o Gap(a.cursor, start), PieceAt(start, stop, TRUE)) BY <2>4, <2>5, <2>6, <2>9
  <2>13. SliceTaken(end, a, r) BY <2>1, <2>2, <2>10, <2>12, <1>4, <1>6 DEF SliceTaken
  <2> QED BY <2>11, <2>13, <1>10
<1> QED BY <1>8, <1>9, <1>10

\* The window is cut range after range.
LEMMA SegmentsStep ==
  ASSUME Top < Width, NEW s \in Seq(Ranges), NEW end \in Nat, end <= Top, NEW clock \in 0..end
  PROVE  /\ Segments(s, clock, end)[0] = [out |-> <<>>, cursor |-> clock]
         /\ \A i \in 1..Len(s) : Segments(s, clock, end)[i] = Segment(end, Segments(s, clock, end)[i - 1], s[i])
         /\ \A i \in 0..Len(s) : Segments(s, clock, end)[i] \in Slicing(end)
<1>1. PICK n \in Nat : n = Len(s) OBVIOUS
<1> DEFINE Step(i, v) == Segment(end, v, s[i])
           Raw(p) == p = [i \in 0..n |-> IF i = 0 THEN [out |-> <<>>, cursor |-> clock] ELSE Step(i, p[i - 1])]
<1>2. PICK V : V = Slicing(end) OBVIOUS
<1>3. \A i \in 1..n, v \in V : Step(i, v) \in V
  <2>1. ASSUME NEW i \in 1..n, NEW v \in V PROVE Step(i, v) \in V
    <3>1. v \in Slicing(end) BY <1>2
    <3>2. s[i] \in Ranges BY <1>1
    <3> QED BY <3>1, <3>2, <1>2, SegmentCases
  <2> QED BY <2>1
<1>4. [out |-> <<>>, cursor |-> clock] \in V BY <1>2 DEF Slicing
<1>5. PICK b \in V : b = [out |-> <<>>, cursor |-> clock] BY <1>4
<1>6. Segments(s, clock, end) = CHOOSE q : Raw(q) BY <1>1 DEF Segments
<1> DEFINE Is(p) == p = [i \in 0..n |-> IF i = 0 THEN b ELSE Step(i, p[i - 1])]
<1> HIDE DEF Step
<1>7. \A q : Raw(q) <=> Is(q) BY <1>5
<1> HIDE DEF Raw
<1>8. PICK G : G = [i \in 1..n |-> [v \in V |-> Step(i, v)]] OBVIOUS
<1>9. G \in [1..n -> [V -> V]] BY <1>3, <1>8
<1>10. Defined(n, V, b, G) BY <1>9, Recursion
<1>11. \A i \in 1..n, v \in V : G[i][v] = Step(i, v) BY <1>8
<1>12. PICK p \in [0..n -> V] : p[0] = b /\ \A i \in 1..n : p[i] = G[i][p[i - 1]]
  BY <1>10 DEF Defined
<1>13. ASSUME NEW i \in 1..n PROVE p[i] = Step(i, p[i - 1])
  <2>1. i - 1 \in 0..n OBVIOUS
  <2>2. p[i - 1] \in V BY <2>1
  <2> QED BY <2>2, <1>11, <1>12
<1>14. Is(p)
  <2>1. ASSUME NEW i \in 0..n PROVE p[i] = IF i = 0 THEN b ELSE Step(i, p[i - 1])
    BY <1>12, <1>13
  <2> QED BY <2>1
<1>15. PICK f : f = Segments(s, clock, end) OBVIOUS
<1>16. Raw(f) BY <1>14, <1>7, <1>6, <1>15
<1>17. Is(f) BY <1>7, <1>16
<1>18. f[0] = b BY <1>17
<1>19. \A i \in 1..n : f[i] = Step(i, f[i - 1]) BY <1>17
<1>20. \A i \in 1..n : f[i - 1] \in V => f[i] \in V BY <1>19, <1>3
<1>21. \A i \in 0..n : f[i] \in V BY <1>18, <1>20, RecursionType
<1> QED BY <1>1, <1>2, <1>5, <1>15, <1>18, <1>19, <1>21 DEF Step

\* After i ranges: the pieces are right, and no range so far reaches what is
\* left of the window.
SliceInv(s, clock, end, i, a) ==
  /\ a \in Slicing(end) /\ clock <= a.cursor
  /\ Chain(a.out, clock, a.cursor) /\ Exact(a.out, s)
  /\ \A k \in Nat, j \in 1..i : a.cursor <= k /\ k < end => ~ContainsClock(s[j], k)

\* A range keeps it.
LEMMA SegmentInv ==
  ASSUME Top < Width, NEW s, Tidy(s), NEW end \in Nat, end <= Top, NEW clock \in 0..end,
         NEW i \in 1..Len(s), NEW a, SliceInv(s, clock, end, i - 1, a)
  PROVE  SliceInv(s, clock, end, i, Segment(end, a, s[i]))
<1>1. s \in Seq(Ranges) BY DEF Tidy
<1>2. PICK n \in Nat : n = Len(s) BY <1>1
<1>3. i \in 1..n BY <1>2
<1>4. PICK x \in Ranges : x = s[i] BY <1>1
<1>5. x.clock \in Nat /\ End(x) \in Nat /\ x.clock < End(x) BY RangeBounds
<1>6. /\ a \in Slicing(end) /\ a.out \in Seq(Pieces) /\ a.cursor \in 0..end /\ clock <= a.cursor
      /\ Chain(a.out, clock, a.cursor) /\ Exact(a.out, s)
  BY DEF SliceInv, Slicing
<1>7. \A k \in Nat, j \in 1..(i - 1) : a.cursor <= k /\ k < end => ~ContainsClock(s[j], k) BY DEF SliceInv
<1>8. \A j \in 1..i : j \in 1..(i - 1) \/ j = i OBVIOUS
<1>9. PICK b : b = Segment(end, a, x) OBVIOUS
<1>10. b \in Slicing(end) BY <1>6, <1>9, SegmentCases
<1>11. CASE End(x) <= a.cursor \/ x.clock >= end \/ a.cursor = end
  <2>1. b = a BY <1>6, <1>9, <1>11, SegmentCases
  <2>2. \A k \in Nat : a.cursor <= k /\ k < end => ~ContainsClock(x, k) BY <1>5, <1>6, <1>11 DEF ContainsClock
  <2>3. \A k \in Nat, j \in 1..i : a.cursor <= k /\ k < end => ~ContainsClock(s[j], k) BY <2>2, <1>4, <1>7, <1>8
  <2> QED BY <2>1, <2>3, <1>4, <1>6, <1>9 DEF SliceInv
<1>12. CASE ~(End(x) <= a.cursor) /\ ~(x.clock >= end) /\ a.cursor # end
  <2>1. PICK start \in 0..end, stop \in 0..end :
          /\ start < stop /\ start = Cursor(x, a.cursor) /\ stop = IF End(x) <= end THEN End(x) ELSE end
          /\ b = [out |-> Append(a.out \o Gap(a.cursor, start), PieceAt(start, stop, TRUE)), cursor |-> stop]
    <3>1. SliceTaken(end, a, x) BY <1>6, <1>12, SegmentCases
    <3> QED BY <3>1, <1>9 DEF SliceTaken
  <2>2. start \in Nat /\ stop \in Nat /\ a.cursor \in Nat /\ clock \in Nat BY <1>6
  <2>3. x.clock <= start /\ a.cursor <= start /\ (start = a.cursor \/ start = x.clock) /\ stop <= end /\ stop <= End(x)
    BY <2>1, <2>2, <1>5 DEF Cursor
  <2>4. ASSUME NEW k \in Nat, a.cursor <= k, k < x.clock PROVE ~Covers(s, k)
    <3>1. SUFFICES ASSUME NEW j \in 1..n, ContainsClock(s[j], k) PROVE FALSE BY <1>2 DEF Covers
    <3>2. PICK z \in Ranges : z = s[j] BY <1>1, <1>2
    <3>3. z.clock \in Nat /\ z.clock <= k BY <3>1, <3>2, RangeBounds DEF ContainsClock
    <3>4. k < end BY <2>4, <1>5, <1>12
    <3>5. CASE j < i
      <4>1. j \in 1..(i - 1) BY <3>5
      <4> QED BY <4>1, <3>1, <3>4, <2>4, <1>7
    <3>6. CASE j = i
      <4>1. z = x BY <3>2, <3>6, <1>4
      <4> QED BY <4>1, <3>3, <2>4, <1>5
    <3>7. CASE i < j
      <4>1. End(x) < z.clock BY <3>2, <3>7, <1>2, <1>3, <1>4 DEF Tidy
      <4> QED BY <4>1, <3>3, <2>4, <1>5
    <3> QED BY <3>5, <3>6, <3>7, <1>3
  <2>5. \A k \in Nat : x.clock <= k /\ k < End(x) => Covers(s, k) BY <1>2, <1>3, <1>4 DEF Covers, ContainsClock
  <2>6. PICK g : g = a.out \o Gap(a.cursor, start) OBVIOUS
  <2>7. g \in Seq(Pieces) /\ Chain(g, clock, start) /\ Exact(g, s)
    <3>1. CASE a.cursor < start
      <4>1. PICK y \in Pieces : y = PieceAt(a.cursor, start, FALSE)
        <5>1. PieceAt(a.cursor, start, FALSE) \in Pieces BY <3>1, <2>2, PieceMade
        <5> QED BY <5>1
      <4>2. g = Append(a.out, PieceAt(a.cursor, start, FALSE))
        <5>1. Gap(a.cursor, start) = <<y>> BY <4>1, <3>1 DEF Gap
        <5>2. a.out \o <<y>> = Append(a.out, y) BY <1>6
        <5> QED BY <5>1, <5>2, <4>1, <2>6
      <4>3. \A k \in Nat : a.cursor <= k /\ k < start => (FALSE <=> Covers(s, k)) BY <3>1, <2>2, <2>3, <2>4
      <4>4. g \in Seq(Pieces) /\ Consecutive(g, clock, start) /\ Exact(g, s)
        BY <4>2, <4>3, <3>1, <2>2, <1>6, AppendPiece
      <4> QED BY <4>4 DEF Chain
    <3>2. CASE ~(a.cursor < start)
      <4>1. start = a.cursor BY <3>2, <2>2, <2>3
      <4>2. g = a.out BY <3>2, <2>6, <1>6 DEF Gap
      <4> QED BY <4>1, <4>2, <1>6
    <3> QED BY <3>1, <3>2
  <2>8. PICK o : o = Append(g, PieceAt(start, stop, TRUE)) OBVIOUS
  <2>9. Consecutive(o, clock, stop) /\ Exact(o, s)
    <3>1. \A k \in Nat : start <= k /\ k < stop => (TRUE <=> Covers(s, k)) BY <2>2, <2>3, <2>5, <1>5
    <3> QED BY <3>1, <2>1, <2>2, <2>7, <2>8, AppendPiece
  <2>10. b.out = o /\ b.cursor = stop BY <2>1, <2>6, <2>8
  <2>11. ASSUME NEW k \in Nat, NEW j \in 1..i, stop <= k, k < end PROVE ~ContainsClock(s[j], k)
    <3>1. stop = End(x) BY <2>11, <2>1, <2>2
    <3>2. CASE j = i BY <3>1, <3>2, <2>11, <1>4, <1>5 DEF ContainsClock
    <3>3. CASE j \in 1..(i - 1)
      <4>1. a.cursor <= k BY <2>1, <2>2, <2>3, <2>11
      <4> QED BY <4>1, <3>3, <2>11, <1>7
    <3> QED BY <3>2, <3>3, <1>8
  <2>12. clock <= stop BY <2>1, <2>2, <2>3, <1>6
  <2> QED BY <2>9, <2>10, <2>11, <2>12, <1>4, <1>9, <1>10 DEF SliceInv, Chain
<1> QED BY <1>11, <1>12

\* A window is cut into pieces that follow each other, each all in the ranges
\* or all not.
LEMMA Sliced ==
  ASSUME Top < Width, NEW s, Tidy(s), NEW clock \in 0..Top, NEW end \in 0..Top, clock < end
  PROVE  /\ Slice(s, clock, end - clock) \in Seq(Pieces)
         /\ Consecutive(Slice(s, clock, end - clock), clock, end)
         /\ Exact(Slice(s, clock, end - clock), s)
<1>1. s \in Seq(Ranges) BY DEF Tidy
<1>2. PICK n \in Nat : n = Len(s) BY <1>1
<1>3. end \in Nat /\ end <= Top /\ clock \in 0..end /\ clock \in Nat /\ Top \in Nat /\ Width \in Nat
  BY RangeSetAssumption, WidthAssumption
<1>4. PICK f : f = Segments(s, clock, end) OBVIOUS
<1>5. /\ f[0] = [out |-> <<>>, cursor |-> clock]
      /\ \A i \in 1..n : f[i] = Segment(end, f[i - 1], s[i])
  BY <1>1, <1>2, <1>3, <1>4, SegmentsStep
<1>6. PICK P : P = {i \in 0..n : SliceInv(s, clock, end, i, f[i])} OBVIOUS
<1>7. 0 \in P
  <2>1. f[0] \in Slicing(end) BY <1>3, <1>5 DEF Slicing
  <2>2. f[0].out = <<>> /\ f[0].cursor = clock BY <1>5
  <2>3. Chain(<<>>, clock, clock) /\ Exact(<<>>, s) BY DEF Chain, Exact
  <2>4. SliceInv(s, clock, end, 0, f[0]) BY <2>1, <2>2, <2>3, <1>3 DEF SliceInv
  <2> QED BY <2>4, <1>6
<1>8. ASSUME NEW i \in 0..(n - 1), i \in P PROVE i + 1 \in P
  <2>1. i + 1 \in 1..Len(s) /\ (i + 1) - 1 = i /\ i + 1 \in 0..n /\ i + 1 \in 1..n BY <1>2
  <2>2. SliceInv(s, clock, end, (i + 1) - 1, f[i]) BY <2>1, <1>6, <1>8
  <2>3. SliceInv(s, clock, end, i + 1, Segment(end, f[i], s[i + 1])) BY <2>1, <2>2, <1>3, SegmentInv
  <2>4. f[i + 1] = Segment(end, f[i], s[i + 1]) BY <2>1, <1>5
  <2> QED BY <2>1, <2>3, <2>4, <1>6
<1>9. \A i \in 0..n : i \in P BY <1>7, <1>8, UpTo
<1>10. PICK a : a = f[n] /\ SliceInv(s, clock, end, n, a) BY <1>6, <1>9
<1>11. /\ a.out \in Seq(Pieces) /\ a.cursor \in 0..end /\ clock <= a.cursor
       /\ Chain(a.out, clock, a.cursor) /\ Exact(a.out, s)
  BY <1>10 DEF SliceInv, Slicing
<1>12. Slice(s, clock, end - clock) = Remainder(end, a)
  <2>1. clock + (end - clock) = end /\ ~(end > Width) BY <1>3
  <2> QED BY <2>1, <1>2, <1>4, <1>10 DEF Slice
<1>13. CASE a.cursor < end
  <2>1. Remainder(end, a) = Append(a.out, PieceAt(a.cursor, end, FALSE)) BY <1>13 DEF Remainder, PieceAt
  <2>2. \A k \in Nat : a.cursor <= k /\ k < end => (FALSE <=> Covers(s, k)) BY <1>2, <1>10 DEF SliceInv, Covers
  <2>3. a.cursor \in Nat BY <1>11
  <2>4. /\ Append(a.out, PieceAt(a.cursor, end, FALSE)) \in Seq(Pieces)
        /\ Consecutive(Append(a.out, PieceAt(a.cursor, end, FALSE)), clock, end)
        /\ Exact(Append(a.out, PieceAt(a.cursor, end, FALSE)), s)
    BY <2>2, <2>3, <1>3, <1>11, <1>13, AppendPiece
  <2> QED BY <2>1, <2>4, <1>12
<1>14. CASE ~(a.cursor < end)
  <2>1. Remainder(end, a) = a.out BY <1>14 DEF Remainder
  <2>2. a.cursor = end /\ a.cursor # clock BY <1>3, <1>11, <1>14
  <2>3. Consecutive(a.out, clock, end) BY <2>2, <1>11 DEF Chain
  <2> QED BY <2>1, <2>3, <1>11, <1>12
<1> QED BY <1>13, <1>14

\* Below the width, the binary search of Has finds exactly the clocks of the set,
\* and Slice cuts any window into pieces that are each all in it or all not.
THEOREM AnswersStayExact ==
  ASSUME Top < Width
  PROVE  RangeSpec => []AnswersExact
<1>1. RangeInv => AnswersExact
  <2> SUFFICES ASSUME RangeInv PROVE AnswersExact OBVIOUS
  <2>1. Tidy(held) /\ ids = {k \in Nat : Covers(held, k)} BY DEF RangeInv
  <2>2. \A k \in 0..(Width - 1) : Holds(held, k) <=> k \in ids
    <3>1. ASSUME NEW k \in 0..(Width - 1) PROVE Holds(held, k) <=> k \in ids
      <4>1. k \in Nat BY WidthAssumption
      <4>2. Holds(held, k) <=> Covers(held, k) BY <4>1, <2>1, Found
      <4> QED BY <4>1, <4>2, <2>1
    <3> QED BY <3>1
  <2>3. ASSUME NEW clock \in 0..Top, NEW end \in 0..Top, clock < end, NEW pieces, pieces = Slice(held, clock, end - clock)
        PROVE  /\ Consecutive(pieces, clock, end)
               /\ \A i \in DOMAIN pieces : \A k \in pieces[i].clock .. End(pieces[i]) - 1 :
                    pieces[i].exists <=> k \in ids
    <3>1. pieces \in Seq(Pieces) /\ Consecutive(pieces, clock, end) /\ Exact(pieces, held) BY <2>1, <2>3, Sliced
    <3>2. ASSUME NEW i \in DOMAIN pieces, NEW k \in pieces[i].clock .. End(pieces[i]) - 1
          PROVE  pieces[i].exists <=> k \in ids
      <4>1. i \in 1..Len(pieces) /\ pieces[i] \in Pieces BY <3>1
      <4>2. PICK x \in Pieces : x = pieces[i] BY <4>1
      <4>3. x.clock \in Nat /\ End(x) \in Nat BY DEF Pieces, End
      <4>4. k \in Nat /\ ContainsClock(x, k) BY <4>2, <4>3 DEF ContainsClock
      <4>5. x.exists <=> Covers(held, k) BY <4>1, <4>2, <4>4, <3>1 DEF Exact
      <4> QED BY <4>2, <4>4, <4>5, <2>1
    <3> QED BY <3>1, <3>2
  <2> QED BY <2>2, <2>3 DEF AnswersExact
<1> QED BY <1>1, RangeInitInv, RangeNextInv, PTL DEF RangeSpec

\* Below the width an IdSet is a set of clocks through any sequence of calls of
\* Add, Merge, IntersectSets and Subtract: its ranges are exact and in normal
\* form, and so are the answers of Has and Slice.
THEOREM IdSetStaysExact ==
  ASSUME Top < Width
  PROVE  RangeSpec => []IdSetExact
<1>1. RangesExact /\ AnswersExact => IdSetExact BY DEF IdSetExact
<1> QED BY <1>1, RangesStayExact, AnswersStayExact, PTL

-----------------------------------------------------------------------------
(* Structs and their windows.                                              *)

\* The structs that cover clocks, all of them below Top.
Blocks == {b \in Structs : b.els # <<>> /\ EndClock(b) <= Top}

\* A struct has natural bounds and its end is after its start.
LEMMA BlockBounds ==
  ASSUME NEW b \in Blocks
  PROVE  /\ b.clock \in Nat /\ EndClock(b) \in Nat /\ b.clock < EndClock(b) /\ EndClock(b) <= Top
         /\ Len(b.els) = EndClock(b) - b.clock /\ Top \in Nat
<1>1. b \in Structs /\ EndClock(b) <= Top /\ b.els # <<>> BY DEF Blocks
<1>2. b.clock \in 0..Top /\ b.els \in Seq(Contents) BY <1>1 DEF Structs
<1>3. Top \in Nat BY RangeSetAssumption, WidthAssumption
<1>4. Len(b.els) \in Nat /\ Len(b.els) # 0 BY <1>1, <1>2
<1> QED BY <1>1, <1>2, <1>3, <1>4 DEF EndClock

\* Taking clocks off a struct's ends gives a struct of the same kind.
LEMMA SliceBounds ==
  ASSUME NEW b \in Blocks, NEW start \in Nat, NEW trim \in Nat, start + trim < EndClock(b) - b.clock
  PROVE  LET t == SliceStruct(b, start, trim)
         IN /\ t \in Blocks /\ t.clock = b.clock + start /\ EndClock(t) = EndClock(b) - trim
            /\ t.kind = b.kind /\ Window(t, b)
<1>1. PICK t : t = SliceStruct(b, start, trim) OBVIOUS
<1>2. b \in Structs /\ EndClock(b) <= Top BY DEF Blocks
<1>3. b.clock \in 0..Top /\ b.els \in Seq(Contents) /\ b.origin \in References BY <1>2 DEF Structs
<1>4. PICK n \in Nat : n = Len(b.els) BY <1>3
<1>5. n = EndClock(b) - b.clock /\ Top \in Nat /\ EndClock(b) \in Nat BY <1>4, BlockBounds
<1>6. PICK e : e = SubSeq(b.els, start + 1, n - trim) OBVIOUS
<1>7. e \in Seq(Contents) /\ Len(e) = n - trim - start
  <2>1. start + 1 \in 1..(n + 1) /\ n - trim \in 0..n BY <1>5
  <2>2. \A i \in (start + 1)..(n - trim) : b.els[i] \in Contents
    <3>1. \A i \in (start + 1)..(n - trim) : i \in 1..n BY <1>5
    <3> QED BY <3>1, <1>3, <1>4
  <2>3. start + 1 \in Int /\ n - trim \in Int /\ start + 1 <= n - trim BY <1>5
  <2> QED BY <2>2, <2>3, <1>6, SubSeqProperties
<1>8. PICK o : o = IF start = 0 \/ ~IsItem(b) THEN b.origin ELSE <<b.client, b.clock + start - 1>> OBVIOUS
<1>9. o \in References
  <2>1. b.client = Client /\ Client \in Clients BY <1>2, ClientStructsAssumption DEF Structs
  <2>2. start # 0 => b.clock + start - 1 \in 0..Top BY <1>2, <1>3, <1>5
  <2> QED BY <2>1, <2>2, <1>3, <1>8 DEF References
<1>10. t = [b EXCEPT !.clock = b.clock + start, !.els = e, !.origin = o]
  BY <1>1, <1>4, <1>6, <1>8 DEF SliceStruct
<1>11. b.clock + start \in 0..Top BY <1>2, <1>3, <1>5
<1>12. t \in Structs /\ t.clock = b.clock + start /\ t.els = e /\ t.kind = b.kind
  BY <1>2, <1>7, <1>9, <1>10, <1>11 DEF Structs
<1>13. EndClock(t) = EndClock(b) - trim BY <1>3, <1>5, <1>7, <1>12 DEF EndClock
<1>14. t.els # <<>>
  <2>1. Len(e) > 0 BY <1>5, <1>7
  <2> QED BY <2>1, <1>12
<1>15. t \in Blocks BY <1>2, <1>5, <1>12, <1>13, <1>14 DEF Blocks
<1>16. Window(t, b)
  <2>1. start \in 0..Len(b.els) /\ trim \in 0..Len(b.els) /\ start + trim < Len(b.els) BY <1>4, <1>5
  <2> QED BY <2>1, <1>1 DEF Window
<1> QED BY <1>1, <1>12, <1>13, <1>15, <1>16

\* A struct is a window of itself.
LEMMA WindowSelf ==
  ASSUME NEW b \in Blocks
  PROVE  SliceStruct(b, 0, 0) = b /\ Window(b, b)
<1>1. b \in Structs BY DEF Blocks
<1>2. b.clock \in 0..Top /\ b.els \in Seq(Contents) BY <1>1 DEF Structs
<1>3. Len(b.els) \in Nat /\ 0 < Len(b.els) BY BlockBounds
<1>4. SubSeq(b.els, 1, Len(b.els)) = b.els BY <1>2
<1>5. b.clock + 0 = b.clock /\ Len(b.els) - 0 = Len(b.els) /\ 0 + 1 = 1 BY <1>2, <1>3
<1>6. SliceStruct(b, 0, 0) = [b EXCEPT !.clock = b.clock, !.els = b.els, !.origin = b.origin]
  BY <1>4, <1>5 DEF SliceStruct
<1>7. SliceStruct(b, 0, 0) = b BY <1>1, <1>6 DEF Structs
<1>8. 0 \in 0..Len(b.els) /\ 0 + 0 < Len(b.els) BY <1>3
<1> QED BY <1>7, <1>8 DEF Window

\* A window lies within its struct and is of its kind.
LEMMA WindowBounds ==
  ASSUME NEW b \in Blocks, NEW t, Window(t, b)
  PROVE  t \in Blocks /\ t.kind = b.kind /\ b.clock <= t.clock /\ EndClock(t) <= EndClock(b)
<1>1. PICK start \in 0..Len(b.els), trim \in 0..Len(b.els) :
        start + trim < Len(b.els) /\ t = SliceStruct(b, start, trim)
  BY DEF Window
<1>2. Len(b.els) = EndClock(b) - b.clock /\ b.clock \in Nat /\ EndClock(b) \in Nat BY BlockBounds
<1>3. start \in Nat /\ trim \in Nat /\ start + trim < EndClock(b) - b.clock BY <1>1, <1>2
<1>4. t \in Blocks /\ t.clock = b.clock + start /\ EndClock(t) = EndClock(b) - trim /\ t.kind = b.kind
  BY <1>1, <1>3, SliceBounds
<1> QED BY <1>2, <1>3, <1>4

\* A window of a window is a window.
LEMMA WindowOfWindow ==
  ASSUME NEW b \in Blocks, NEW t, NEW u, Window(t, b), Window(u, t)
  PROVE  Window(u, b)
<1>1. PICK p \in 0..Len(b.els), q \in 0..Len(b.els) :
        p + q < Len(b.els) /\ t = SliceStruct(b, p, q)
  BY DEF Window
<1>2. PICK x \in 0..Len(t.els), y \in 0..Len(t.els) :
        x + y < Len(t.els) /\ u = SliceStruct(t, x, y)
  BY DEF Window
<1>3. b \in Structs BY DEF Blocks
<1>4. b.clock \in Nat /\ EndClock(b) \in Nat /\ Len(b.els) = EndClock(b) - b.clock BY BlockBounds
<1>5. PICK n \in Nat : n = Len(b.els) BY <1>3 DEF Structs
<1>6. p \in Nat /\ q \in Nat /\ p + q < n BY <1>1, <1>5
<1>7. t \in Blocks /\ t.kind = b.kind /\ t.clock = b.clock + p /\ EndClock(t) = EndClock(b) - q
  BY <1>1, <1>4, <1>5, <1>6, SliceBounds
<1>8. Len(t.els) = n - p - q
  <2>1. Len(t.els) = EndClock(t) - t.clock BY <1>7, BlockBounds
  <2> QED BY <2>1, <1>4, <1>5, <1>6, <1>7
<1>9. x \in Nat /\ y \in Nat /\ x + y < n - p - q BY <1>2, <1>6, <1>8
<1>10. t.els = SubSeq(b.els, p + 1, n - q) /\ t.client = b.client
       /\ t.origin = (IF p = 0 \/ ~IsItem(b) THEN b.origin ELSE <<b.client, b.clock + p - 1>>)
  BY <1>1, <1>3, <1>5 DEF SliceStruct, Structs
<1>11. SubSeq(t.els, x + 1, Len(t.els) - y) = SubSeq(b.els, p + x + 1, n - (q + y))
  <2>1. b.els \in Seq(Contents) /\ t.els \in Seq(Contents) BY <1>3, <1>7 DEF Structs, Blocks
  <2>2. PICK l : l = SubSeq(t.els, x + 1, Len(t.els) - y) OBVIOUS
  <2>3. PICK r : r = SubSeq(b.els, p + x + 1, n - (q + y)) OBVIOUS
  <2>4. l \in Seq(Contents) /\ Len(l) = n - p - q - y - x
        /\ \A i \in 1..(n - p - q - y - x) : l[i] = t.els[x + i]
    <3>1. x + 1 \in Int /\ Len(t.els) - y \in Int /\ x + 1 <= Len(t.els) - y BY <1>6, <1>8, <1>9
    <3>2. \A i \in (x + 1)..(Len(t.els) - y) : i \in 1..Len(t.els) BY <1>6, <1>8, <1>9
    <3>3. \A i \in (x + 1)..(Len(t.els) - y) : t.els[i] \in Contents BY <3>2, <2>1
    <3>4. /\ l \in Seq(Contents) /\ Len(l) = Len(t.els) - y - (x + 1) + 1
          /\ \A i \in 1..(Len(t.els) - y - (x + 1) + 1) : l[i] = t.els[x + 1 + i - 1]
      BY <3>1, <3>3, <2>2, SubSeqProperties
    <3>5. Len(t.els) - y - (x + 1) + 1 = n - p - q - y - x BY <1>6, <1>8, <1>9
    <3>6. \A i \in 1..(n - p - q - y - x) : x + 1 + i - 1 = x + i BY <1>9
    <3> QED BY <3>4, <3>5, <3>6
  <2>5. r \in Seq(Contents) /\ Len(r) = n - p - q - y - x
        /\ \A i \in 1..(n - p - q - y - x) : r[i] = b.els[p + x + i]
    <3>1. p + x + 1 \in Int /\ n - (q + y) \in Int /\ p + x + 1 <= n - (q + y) BY <1>6, <1>9
    <3>2. \A i \in (p + x + 1)..(n - (q + y)) : i \in 1..n BY <1>6, <1>9
    <3>3. \A i \in (p + x + 1)..(n - (q + y)) : b.els[i] \in Contents BY <3>2, <2>1, <1>5
    <3>4. /\ r \in Seq(Contents) /\ Len(r) = n - (q + y) - (p + x + 1) + 1
          /\ \A i \in 1..(n - (q + y) - (p + x + 1) + 1) : r[i] = b.els[p + x + 1 + i - 1]
      BY <3>1, <3>3, <2>3, SubSeqProperties
    <3>5. n - (q + y) - (p + x + 1) + 1 = n - p - q - y - x BY <1>6, <1>9
    <3>6. \A i \in 1..(n - p - q - y - x) : p + x + 1 + i - 1 = p + x + i BY <1>6, <1>9
    <3> QED BY <3>4, <3>5, <3>6
  <2>6. \A i \in 1..(n - p - q) : t.els[i] = b.els[p + i]
    <3>1. p + 1 \in Int /\ n - q \in Int BY <1>6
    <3>2. \A i \in (p + 1)..(n - q) : i \in 1..n BY <1>6
    <3>3. \A i \in (p + 1)..(n - q) : b.els[i] \in Contents BY <3>2, <2>1, <1>5
    <3>4. \A i \in 1..(n - q - (p + 1) + 1) : t.els[i] = b.els[p + 1 + i - 1]
      BY <3>1, <3>3, <1>10, SubSeqProperties
    <3>5. n - q - (p + 1) + 1 = n - p - q BY <1>6
    <3>6. \A i \in 1..(n - p - q) : p + 1 + i - 1 = p + i BY <1>6
    <3> QED BY <3>4, <3>5, <3>6
  <2>7. ASSUME NEW i \in 1..(n - p - q - y - x) PROVE l[i] = r[i]
    <3>1. x + i \in 1..(n - p - q) BY <1>6, <1>9
    <3>2. t.els[x + i] = b.els[p + (x + i)] BY <3>1, <2>6
    <3>3. p + (x + i) = p + x + i BY <1>6, <1>9
    <3> QED BY <3>2, <3>3, <2>4, <2>5
  <2>8. l = r
    <3>1. Len(l) = Len(r) /\ \A i \in 1..Len(l) : l[i] = r[i] BY <2>4, <2>5, <2>7
    <3> QED BY <3>1, <2>4, <2>5, SeqEqual
  <2> QED BY <2>2, <2>3, <2>8
<1>12. t.clock + x = b.clock + (p + x) BY <1>4, <1>6, <1>7, <1>9
<1>13. IsItem(t) <=> IsItem(b) BY <1>7 DEF IsItem
<1>14. PICK o : o = IF x = 0 \/ ~IsItem(t) THEN t.origin ELSE <<t.client, t.clock + x - 1>> OBVIOUS
<1>15. o = IF p + x = 0 \/ ~IsItem(b) THEN b.origin ELSE <<b.client, b.clock + (p + x) - 1>>
  <2>1. CASE ~IsItem(b) BY <2>1, <1>10, <1>13, <1>14
  <2>2. CASE IsItem(b) /\ x = 0
    <3>1. p + x = p BY <2>2, <1>6
    <3> QED BY <3>1, <2>2, <1>10, <1>13, <1>14
  <2>3. CASE IsItem(b) /\ x # 0
    <3>1. p + x # 0 BY <2>3, <1>6, <1>9
    <3>2. t.clock + x - 1 = b.clock + (p + x) - 1
      <4>1. PICK k \in Nat : k = b.clock BY <1>4
      <4>2. t.clock = k + p BY <4>1, <1>7
      <4>3. k + p + x - 1 = k + (p + x) - 1 BY <1>6, <1>9
      <4> QED BY <4>1, <4>2, <4>3
    <3> QED BY <3>1, <3>2, <2>3, <1>10, <1>13, <1>14
  <2> QED BY <2>1, <2>2, <2>3
<1>16. PICK e : e = SubSeq(b.els, p + x + 1, n - (q + y)) OBVIOUS
<1>17. u = [t EXCEPT !.clock = b.clock + (p + x), !.els = e, !.origin = o]
  BY <1>2, <1>11, <1>12, <1>14, <1>16 DEF SliceStruct
<1>18. t = [b EXCEPT !.clock = t.clock, !.els = t.els, !.origin = t.origin]
  BY <1>1, <1>3, <1>7, <1>10, <1>5 DEF SliceStruct, Structs
<1>19. u = [b EXCEPT !.clock = b.clock + (p + x), !.els = e, !.origin = o]
  BY <1>3, <1>17, <1>18 DEF Structs
<1>20. u = SliceStruct(b, p + x, q + y) BY <1>19, <1>5, <1>15, <1>16 DEF SliceStruct
<1>21. p + x \in 0..Len(b.els) /\ q + y \in 0..Len(b.els) /\ (p + x) + (q + y) < Len(b.els)
  BY <1>5, <1>6, <1>9
<1> QED BY <1>20, <1>21 DEF Window

-----------------------------------------------------------------------------
(* Rows of structs.                                                        *)

\* Structs that follow each other without a hole, from one clock to another.
Row(list, from, to) ==
  /\ list \in Seq(Blocks) /\ from \in Nat /\ to \in Nat /\ from <= to
  /\ \A i \in 1..Len(list) : from <= list[i].clock /\ EndClock(list[i]) <= to
  /\ \A i, j \in 1..Len(list) : i < j => EndClock(list[i]) <= list[j].clock
  /\ \A i \in 1..(Len(list) - 1) : EndClock(list[i]) = list[i + 1].clock
  /\ list = <<>> => from = to
  /\ list # <<>> => list[1].clock = from /\ EndClock(list[Len(list)]) = to

\* A clock is in a struct that is not a Skip.
Held(list, k) ==
  \E i \in 1..Len(list) : ~IsSkip(list[i]) /\ list[i].clock <= k /\ k < EndClock(list[i])

\* Nothing is a row.
LEMMA RowOfNone ==
  ASSUME NEW from \in Nat
  PROVE  Row(<<>>, from, from) /\ \A k : ~Held(<<>>, k)
BY DEF Row, Held

\* One struct is a row.
LEMMA RowOfOne ==
  ASSUME NEW b \in Blocks
  PROVE  /\ <<b>> \in Seq(Blocks) /\ Row(<<b>>, b.clock, EndClock(b))
         /\ \A k : Held(<<b>>, k) <=> ~IsSkip(b) /\ b.clock <= k /\ k < EndClock(b)
<1>1. <<b>> \in Seq(Blocks) /\ Len(<<b>>) = 1 /\ <<b>>[1] = b OBVIOUS
<1>2. \A i \in 1..Len(<<b>>) : i = 1 BY <1>1
<1>3. b.clock \in Nat /\ EndClock(b) \in Nat /\ b.clock < EndClock(b) BY BlockBounds
<1>4. Row(<<b>>, b.clock, EndClock(b))
  <2>1. \A i \in 1..(Len(<<b>>) - 1) : FALSE BY <1>1
  <2>2. \A i, j \in 1..Len(<<b>>) : ~(i < j) BY <1>2
  <2> QED BY <1>1, <1>2, <1>3, <2>1, <2>2 DEF Row
<1>5. 1 \in 1..Len(<<b>>) BY <1>1
<1> QED BY <1>1, <1>2, <1>4, <1>5 DEF Held

\* The clocks held by a row are between its ends.
LEMMA RowHeld ==
  ASSUME NEW list, NEW from, NEW to, Row(list, from, to), NEW k \in Nat, Held(list, k)
  PROVE  from <= k /\ k < to
<1>1. PICK i \in 1..Len(list) : list[i].clock <= k /\ k < EndClock(list[i]) BY DEF Held
<1>2. list[i] \in Blocks BY DEF Row
<1>3. list[i].clock \in Nat /\ EndClock(list[i]) \in Nat BY <1>2, BlockBounds
<1>4. from \in Nat /\ to \in Nat /\ from <= list[i].clock /\ EndClock(list[i]) <= to BY DEF Row
<1> QED BY <1>1, <1>3, <1>4

\* The end of a row is at most Top.
LEMMA RowTop ==
  ASSUME NEW list, NEW from, NEW to, Row(list, from, to), list # <<>>
  PROVE  to <= Top /\ to \in Nat /\ Top \in Nat /\ from < to /\ list[1] \in Blocks /\ list[Len(list)] \in Blocks
<1>1. list \in Seq(Blocks) /\ EndClock(list[Len(list)]) = to BY DEF Row
<1>2. Len(list) \in 1..Len(list) /\ 1 \in 1..Len(list) BY <1>1
<1>3. list[Len(list)] \in Blocks /\ list[1] \in Blocks BY <1>1, <1>2
<1>4. from <= list[Len(list)].clock /\ from \in Nat BY <1>2 DEF Row
<1> QED BY <1>1, <1>3, <1>4, BlockBounds

\* A row followed by a row is a row.
LEMMA RowConcat ==
  ASSUME NEW s, NEW t, NEW a, NEW b, NEW c, Row(s, a, b), Row(t, b, c)
  PROVE  /\ Row(s \o t, a, c)
         /\ \A k : Held(s \o t, k) <=> Held(s, k) \/ Held(t, k)
<1>1. s \in Seq(Blocks) /\ t \in Seq(Blocks) /\ a \in Nat /\ b \in Nat /\ c \in Nat /\ a <= b /\ b <= c BY DEF Row
<1>2. PICK m \in Nat : m = Len(s) BY <1>1
<1>3. PICK n \in Nat : n = Len(t) BY <1>1
<1>4. PICK r : r = s \o t OBVIOUS
<1>5. r \in Seq(Blocks) /\ Len(r) = m + n
      /\ \A i \in 1..(m + n) : r[i] = IF i <= m THEN s[i] ELSE t[i - m]
  BY <1>1, <1>2, <1>3, <1>4, ConcatProperties
<1>6. \A i \in 1..m : r[i] = s[i] BY <1>5
<1>7. \A i \in 1..n : r[m + i] = t[i] BY <1>5
<1>8. \A i \in 1..(m + n) : i \in 1..m \/ (i - m \in 1..n /\ m + (i - m) = i) OBVIOUS
<1>9. \A i \in 1..m : s[i].clock \in Nat /\ EndClock(s[i]) \in Nat /\ a <= s[i].clock /\ EndClock(s[i]) <= b
      /\ s[i].clock < EndClock(s[i])
  <2>1. \A i \in 1..m : s[i] \in Blocks BY <1>1, <1>2
  <2>2. \A i \in 1..m : a <= s[i].clock /\ EndClock(s[i]) <= b BY <1>2 DEF Row
  <2> QED BY <2>1, <2>2, BlockBounds
<1>10. \A i \in 1..n : t[i].clock \in Nat /\ EndClock(t[i]) \in Nat /\ b <= t[i].clock /\ EndClock(t[i]) <= c
  <2>1. \A i \in 1..n : t[i] \in Blocks BY <1>1, <1>3
  <2>2. \A i \in 1..n : b <= t[i].clock /\ EndClock(t[i]) <= c BY <1>3 DEF Row
  <2> QED BY <2>1, <2>2, BlockBounds
<1>11. ASSUME NEW i \in 1..(m + n) PROVE a <= r[i].clock /\ EndClock(r[i]) <= c
  <2>1. CASE i \in 1..m
    <3>1. EndClock(s[i]) \in Nat /\ a <= s[i].clock /\ EndClock(s[i]) <= b BY <2>1, <1>9
    <3> QED BY <3>1, <2>1, <1>1, <1>6
  <2>2. CASE i - m \in 1..n /\ m + (i - m) = i
    <3>1. PICK j \in 1..n : j = i - m BY <2>2
    <3>2. t[j].clock \in Nat /\ b <= t[j].clock /\ EndClock(t[j]) <= c /\ r[i] = t[j] BY <3>1, <2>2, <1>7, <1>10
    <3> QED BY <3>2, <1>1
  <2> QED BY <2>1, <2>2, <1>8
<1>12. ASSUME NEW i \in 1..(m + n), NEW j \in 1..(m + n), i < j PROVE EndClock(r[i]) <= r[j].clock
  <2>1. CASE i \in 1..m /\ j \in 1..m
    <3>1. EndClock(s[i]) <= s[j].clock BY <2>1, <1>2, <1>12 DEF Row
    <3> QED BY <3>1, <2>1, <1>6
  <2>2. CASE i \in 1..m /\ j - m \in 1..n /\ m + (j - m) = j
    <3>1. PICK q \in 1..n : q = j - m BY <2>2
    <3>2. r[j] = t[q] BY <3>1, <2>2, <1>7
    <3>3. EndClock(s[i]) \in Nat /\ EndClock(s[i]) <= b /\ r[i] = s[i] BY <2>2, <1>6, <1>9
    <3>4. t[q].clock \in Nat /\ b <= t[q].clock BY <1>10
    <3> QED BY <3>2, <3>3, <3>4, <1>1
  <2>3. CASE i - m \in 1..n /\ m + (i - m) = i /\ j - m \in 1..n /\ m + (j - m) = j
    <3>1. PICK p \in 1..n : p = i - m BY <2>3
    <3>2. PICK q \in 1..n : q = j - m BY <2>3
    <3>3. p < q BY <3>1, <3>2, <1>12
    <3>4. EndClock(t[p]) <= t[q].clock BY <3>3, <1>3 DEF Row
    <3>5. r[i] = t[p] /\ r[j] = t[q] BY <3>1, <3>2, <2>3, <1>7
    <3> QED BY <3>4, <3>5
  <2>4. ~(i - m \in 1..n /\ j \in 1..m) BY <1>12
  <2> QED BY <2>1, <2>2, <2>3, <2>4, <1>8
<1>13. m # 0 => EndClock(s[m]) = b /\ s[1].clock = a /\ s # <<>> BY <1>1, <1>2 DEF Row
<1>14. n # 0 => t[1].clock = b /\ EndClock(t[n]) = c /\ t # <<>> BY <1>1, <1>3 DEF Row
<1>15. (m = 0 => a = b) /\ (n = 0 => b = c) BY <1>1, <1>2, <1>3 DEF Row
<1>16. ASSUME NEW i \in 1..(m + n - 1) PROVE EndClock(r[i]) = r[i + 1].clock
  <2>1. CASE i < m
    <3>1. i \in 1..(m - 1) /\ i \in 1..m /\ i + 1 \in 1..m BY <2>1
    <3>2. EndClock(s[i]) = s[i + 1].clock BY <3>1, <1>2 DEF Row
    <3> QED BY <3>1, <3>2, <1>6
  <2>2. CASE i = m
    <3>1. i \in 1..m /\ n # 0 /\ 1 \in 1..n /\ m # 0 BY <2>2
    <3>2. r[i] = s[m] /\ r[i + 1] = t[1] BY <3>1, <2>2, <1>6, <1>7
    <3> QED BY <3>1, <3>2, <1>13, <1>14
  <2>3. CASE i > m
    <3>1. PICK p \in 1..(n - 1) : p = i - m BY <2>3
    <3>2. m + p = i /\ m + (p + 1) = i + 1 /\ p \in 1..n /\ p + 1 \in 1..n BY <3>1
    <3>3. EndClock(t[p]) = t[p + 1].clock BY <3>1, <1>3 DEF Row
    <3>4. r[i] = t[p] /\ r[i + 1] = t[p + 1] BY <3>2, <1>7
    <3> QED BY <3>3, <3>4
  <2> QED BY <2>1, <2>2, <2>3
<1>17. r = <<>> => a = c
  <2>1. r = <<>> => m = 0 /\ n = 0 BY <1>5
  <2> QED BY <2>1, <1>15
<1>18. r # <<>> => r[1].clock = a /\ EndClock(r[m + n]) = c
  <2>1. SUFFICES ASSUME m + n # 0 PROVE r[1].clock = a /\ EndClock(r[m + n]) = c BY <1>5
  <2>2. r[1].clock = a
    <3>1. CASE m = 0
      <4>1. n # 0 /\ m + 1 = 1 /\ 1 \in 1..n BY <3>1, <2>1
      <4>2. r[1] = t[1] BY <4>1, <1>7
      <4> QED BY <4>1, <4>2, <3>1, <1>14, <1>15
    <3>2. CASE m # 0
      <4>1. 1 \in 1..m BY <3>2
      <4> QED BY <4>1, <3>2, <1>6, <1>13
    <3> QED BY <3>1, <3>2
  <2>3. EndClock(r[m + n]) = c
    <3>1. CASE n = 0
      <4>1. m # 0 /\ m + n = m /\ m \in 1..m BY <3>1, <2>1
      <4>2. r[m + n] = s[m] BY <4>1, <1>6
      <4> QED BY <4>1, <4>2, <3>1, <1>13, <1>15
    <3>2. CASE n # 0
      <4>1. n \in 1..n BY <3>2
      <4> QED BY <4>1, <3>2, <1>7, <1>14
    <3> QED BY <3>1, <3>2
  <2> QED BY <2>2, <2>3
<1>19. Row(r, a, c)
  <2>1. a <= c BY <1>1
  <2> QED BY <1>1, <1>5, <1>11, <1>12, <1>16, <1>17, <1>18, <2>1 DEF Row
<1>20. ASSUME NEW k PROVE Held(r, k) <=> Held(s, k) \/ Held(t, k)
  <2>1. ASSUME Held(r, k) PROVE Held(s, k) \/ Held(t, k)
    <3>1. PICK i \in 1..(m + n) : ~IsSkip(r[i]) /\ r[i].clock <= k /\ k < EndClock(r[i]) BY <2>1, <1>5 DEF Held
    <3>2. CASE i \in 1..m BY <3>1, <3>2, <1>2, <1>6 DEF Held
    <3>3. CASE i - m \in 1..n /\ m + (i - m) = i
      <4>1. PICK j \in 1..n : j = i - m BY <3>3
      <4>2. r[i] = t[j] BY <4>1, <3>3, <1>7
      <4> QED BY <3>1, <4>2, <1>3 DEF Held
    <3> QED BY <3>2, <3>3, <1>8
  <2>2. ASSUME Held(s, k) PROVE Held(r, k)
    <3>1. PICK i \in 1..m : ~IsSkip(s[i]) /\ s[i].clock <= k /\ k < EndClock(s[i]) BY <2>2, <1>2 DEF Held
    <3>2. i \in 1..(m + n) /\ r[i] = s[i] BY <1>6
    <3> QED BY <3>1, <3>2, <1>5 DEF Held
  <2>3. ASSUME Held(t, k) PROVE Held(r, k)
    <3>1. PICK i \in 1..n : ~IsSkip(t[i]) /\ t[i].clock <= k /\ k < EndClock(t[i]) BY <2>3, <1>3 DEF Held
    <3>2. m + i \in 1..(m + n) /\ r[m + i] = t[i] BY <1>7
    <3> QED BY <3>1, <3>2, <1>5 DEF Held
  <2> QED BY <2>1, <2>2, <2>3
<1> QED BY <1>4, <1>19, <1>20

\* A row is cut in two at any place.
LEMMA RowSplit ==
  ASSUME NEW s, NEW a, NEW c, Row(s, a, c), NEW n \in 0..Len(s), NEW b, b = IF n = 0 THEN a ELSE EndClock(s[n])
  PROVE  /\ Row(SubSeq(s, 1, n), a, b) /\ Row(SubSeq(s, n + 1, Len(s)), b, c)
         /\ Len(SubSeq(s, 1, n)) = n /\ \A i \in 1..n : SubSeq(s, 1, n)[i] = s[i]
         /\ Len(SubSeq(s, n + 1, Len(s))) = Len(s) - n
         /\ \A i \in 1..(Len(s) - n) : SubSeq(s, n + 1, Len(s))[i] = s[n + i]
         /\ \A k : Held(s, k) <=> Held(SubSeq(s, 1, n), k) \/ Held(SubSeq(s, n + 1, Len(s)), k)
<1>1. s \in Seq(Blocks) /\ a \in Nat /\ c \in Nat /\ a <= c BY DEF Row
<1>2. PICK l \in Nat : l = Len(s) BY <1>1
<1>3. n \in Nat /\ n <= l BY <1>2
<1>4. PICK p : p = SubSeq(s, 1, n) OBVIOUS
<1>5. PICK q : q = SubSeq(s, n + 1, l) OBVIOUS
<1>6. p \in Seq(Blocks) /\ Len(p) = n /\ \A i \in 1..n : p[i] = s[i]
  <2>1. \A i \in 1..n : s[i] \in Blocks
    <3>1. \A i \in 1..n : i \in 1..l BY <1>3
    <3> QED BY <3>1, <1>1, <1>2
  <2>2. 1 \in Int /\ n \in Int BY <1>3
  <2>3. p \in Seq(Blocks) /\ Len(p) = (IF 1 <= n THEN n - 1 + 1 ELSE 0) /\ \A i \in 1..(n - 1 + 1) : p[i] = s[1 + i - 1]
    BY <2>1, <2>2, <1>4, SubSeqProperties
  <2>4. n - 1 + 1 = n /\ \A i \in 1..n : 1 + i - 1 = i BY <1>3
  <2> QED BY <2>3, <2>4, <1>3
<1>7. q \in Seq(Blocks) /\ Len(q) = l - n /\ \A i \in 1..(l - n) : q[i] = s[n + i]
  <2>1. \A i \in (n + 1)..l : s[i] \in Blocks
    <3>1. \A i \in (n + 1)..l : i \in 1..l BY <1>3
    <3> QED BY <3>1, <1>1, <1>2
  <2>2. n + 1 \in Int /\ l \in Int BY <1>3
  <2>3. /\ q \in Seq(Blocks) /\ Len(q) = (IF n + 1 <= l THEN l - (n + 1) + 1 ELSE 0)
        /\ \A i \in 1..(l - (n + 1) + 1) : q[i] = s[n + 1 + i - 1]
    BY <2>1, <2>2, <1>5, SubSeqProperties
  <2>4. l - (n + 1) + 1 = l - n /\ \A i \in 1..(l - n) : n + 1 + i - 1 = n + i BY <1>3
  <2> QED BY <2>3, <2>4, <1>3
<1>8. \A i \in 1..l : s[i].clock \in Nat /\ EndClock(s[i]) \in Nat /\ s[i].clock < EndClock(s[i])
                      /\ a <= s[i].clock /\ EndClock(s[i]) <= c
  <2>1. \A i \in 1..l : s[i] \in Blocks BY <1>1, <1>2
  <2>2. \A i \in 1..l : a <= s[i].clock /\ EndClock(s[i]) <= c BY <1>2 DEF Row
  <2> QED BY <2>1, <2>2, BlockBounds
<1>9. \A i, j \in 1..l : i < j => EndClock(s[i]) <= s[j].clock BY <1>2 DEF Row
<1>10. \A i \in 1..(l - 1) : EndClock(s[i]) = s[i + 1].clock BY <1>2 DEF Row
<1>11. (l = 0 => a = c) /\ (l # 0 => s[1].clock = a /\ EndClock(s[l]) = c) BY <1>1, <1>2 DEF Row
<1>12. b \in Nat /\ a <= b /\ b <= c
  <2>1. CASE n = 0 BY <2>1, <1>1
  <2>2. CASE n # 0
    <3>1. n \in 1..l /\ b = EndClock(s[n]) BY <2>2, <1>3
    <3>2. a <= s[n].clock /\ s[n].clock < EndClock(s[n]) /\ s[n].clock \in Nat /\ EndClock(s[n]) \in Nat
          /\ EndClock(s[n]) <= c
      BY <3>1, <1>8
    <3> QED BY <3>1, <3>2, <1>1
  <2> QED BY <2>1, <2>2
<1>13. Row(p, a, b)
  <2>1. ASSUME NEW i \in 1..n PROVE a <= p[i].clock /\ EndClock(p[i]) <= b
    <3>1. i \in 1..l /\ n \in 1..l /\ n # 0 /\ p[i] = s[i] BY <1>3, <1>6
    <3>2. CASE i = n BY <3>1, <3>2, <1>8, <1>12
    <3>3. CASE i # n
      <4>1. i < n BY <3>3, <1>3
      <4>2. EndClock(s[i]) <= s[n].clock BY <4>1, <3>1, <1>9
      <4>3. b = EndClock(s[n]) BY <3>1
      <4>4. s[n].clock < EndClock(s[n]) /\ s[n].clock \in Nat /\ EndClock(s[i]) \in Nat /\ a <= s[i].clock BY <3>1, <1>8
      <4> QED BY <4>2, <4>3, <4>4, <3>1, <1>12
    <3> QED BY <3>2, <3>3
  <2>2. ASSUME NEW i \in 1..n, NEW j \in 1..n, i < j PROVE EndClock(p[i]) <= p[j].clock
    <3>1. i \in 1..l /\ j \in 1..l BY <1>3
    <3> QED BY <3>1, <2>2, <1>6, <1>9
  <2>3. ASSUME NEW i \in 1..(n - 1) PROVE EndClock(p[i]) = p[i + 1].clock
    <3>1. i \in 1..n /\ i + 1 \in 1..n /\ i \in 1..(l - 1) BY <1>3
    <3> QED BY <3>1, <1>6, <1>10
  <2>4. p = <<>> => a = b BY <1>6
  <2>5. p # <<>> => p[1].clock = a /\ EndClock(p[n]) = b
    <3>1. SUFFICES ASSUME n # 0 PROVE p[1].clock = a /\ EndClock(p[n]) = b BY <1>6
    <3>2. 1 \in 1..n /\ n \in 1..n /\ l # 0 BY <3>1, <1>3
    <3> QED BY <3>1, <3>2, <1>6, <1>11
  <2> QED BY <1>1, <1>6, <1>12, <2>1, <2>2, <2>3, <2>4, <2>5 DEF Row
<1>14. Row(q, b, c)
  <2>1. ASSUME NEW i \in 1..(l - n) PROVE b <= q[i].clock /\ EndClock(q[i]) <= c
    <3>1. n + i \in 1..l /\ q[i] = s[n + i] BY <1>3, <1>7
    <3>2. CASE n = 0 BY <3>1, <3>2, <1>8
    <3>3. CASE n # 0
      <4>1. n \in 1..l /\ n < n + i BY <3>3, <1>3
      <4>2. EndClock(s[n]) <= s[n + i].clock BY <4>1, <3>1, <1>9
      <4> QED BY <4>2, <3>1, <3>3, <1>8
    <3> QED BY <3>2, <3>3
  <2>2. ASSUME NEW i \in 1..(l - n), NEW j \in 1..(l - n), i < j PROVE EndClock(q[i]) <= q[j].clock
    <3>1. n + i \in 1..l /\ n + j \in 1..l /\ n + i < n + j BY <1>3, <2>2
    <3> QED BY <3>1, <1>7, <1>9
  <2>3. ASSUME NEW i \in 1..(l - n - 1) PROVE EndClock(q[i]) = q[i + 1].clock
    <3>1. i \in 1..(l - n) /\ i + 1 \in 1..(l - n) /\ n + i \in 1..(l - 1) /\ n + (i + 1) = n + i + 1 BY <1>3
    <3> QED BY <3>1, <1>7, <1>10
  <2>4. q = <<>> => b = c
    <3>1. SUFFICES ASSUME l - n = 0 PROVE b = c BY <1>7
    <3>2. l = n BY <3>1, <1>3
    <3> QED BY <3>2, <1>11
  <2>5. q # <<>> => q[1].clock = b /\ EndClock(q[l - n]) = c
    <3>1. SUFFICES ASSUME l - n # 0 PROVE q[1].clock = b /\ EndClock(q[l - n]) = c BY <1>7
    <3>2. 1 \in 1..(l - n) /\ l - n \in 1..(l - n) /\ l # 0 /\ n + (l - n) = l BY <3>1, <1>3
    <3>3. q[1] = s[n + 1] /\ q[l - n] = s[l] BY <3>2, <1>7
    <3>4. CASE n = 0 BY <3>2, <3>3, <3>4, <1>11
    <3>5. CASE n # 0
      <4>1. n \in 1..(l - 1) BY <3>1, <3>5, <1>3
      <4> QED BY <4>1, <3>2, <3>3, <3>5, <1>10, <1>11
    <3> QED BY <3>4, <3>5
  <2> QED BY <1>1, <1>7, <1>12, <2>1, <2>2, <2>3, <2>4, <2>5 DEF Row
<1>15. p \o q = s
  <2>1. PICK r : r = p \o q OBVIOUS
  <2>2. r \in Seq(Blocks) /\ Len(r) = n + (l - n)
        /\ \A i \in 1..(n + (l - n)) : r[i] = IF i <= n THEN p[i] ELSE q[i - n]
    <3>1. p \in Seq(Blocks) /\ q \in Seq(Blocks) BY <1>6, <1>7
    <3>2. r \in Seq(Blocks) /\ Len(r) = Len(p) + Len(q)
          /\ \A i \in 1..(Len(p) + Len(q)) : r[i] = IF i <= Len(p) THEN p[i] ELSE q[i - Len(p)]
      BY <3>1, <2>1, ConcatProperties
    <3>3. Len(p) = n /\ Len(q) = l - n BY <1>6, <1>7
    <3> QED BY <3>2, <3>3
  <2>3. n + (l - n) = l BY <1>3
  <2>4. ASSUME NEW i \in 1..l PROVE r[i] = s[i]
    <3>1. CASE i <= n
      <4>1. i \in 1..n BY <3>1, <1>3
      <4> QED BY <4>1, <3>1, <2>2, <2>3, <1>6
    <3>2. CASE ~(i <= n)
      <4>1. i - n \in 1..(l - n) /\ n + (i - n) = i BY <3>2, <1>3
      <4>2. r[i] = q[i - n] BY <3>2, <2>2, <2>3
      <4>3. q[i - n] = s[n + (i - n)] BY <4>1, <1>7
      <4> QED BY <4>1, <4>2, <4>3
    <3> QED BY <3>1, <3>2
  <2>5. Len(r) = Len(s) /\ \A i \in 1..Len(r) : r[i] = s[i] BY <2>2, <2>3, <2>4, <1>2
  <2> QED BY <2>1, <2>2, <2>5, <1>1, SeqEqual
<1>16. \A k : Held(s, k) <=> Held(p, k) \/ Held(q, k) BY <1>13, <1>14, <1>15, RowConcat
<1> QED BY <1>2, <1>4, <1>5, <1>6, <1>7, <1>13, <1>14, <1>16

\* Every clock between the ends of a row is in one of its structs.
LEMMA RowCovers ==
  ASSUME NEW s, NEW a, NEW c, Row(s, a, c), NEW k \in Nat, a <= k, k < c
  PROVE  \E i \in 1..Len(s) : s[i].clock <= k /\ k < EndClock(s[i])
<1>1. s \in Seq(Blocks) /\ a \in Nat /\ c \in Nat BY DEF Row
<1>2. PICK l \in Nat : l = Len(s) BY <1>1
<1>3. s # <<>> BY <1>1 DEF Row
<1>4. l # 0 BY <1>1, <1>2, <1>3
<1>5. s[1].clock = a /\ EndClock(s[l]) = c BY <1>2, <1>3 DEF Row
<1> DEFINE S == {i \in 1..l : k < EndClock(s[i])}
<1>6. l \in S BY <1>4, <1>5
<1>7. S \in SUBSET Nat /\ S # {} BY <1>6
<1>8. PICK m \in S : \A y \in S : m <= y BY <1>7, LeastNumber
<1>9. m \in 1..l /\ k < EndClock(s[m]) BY <1>8
<1>10. s[m].clock <= k
  <2>1. CASE m = 1 BY <2>1, <1>5
  <2>2. CASE m # 1
    <3>1. m - 1 \in 1..l /\ m - 1 \in 1..(l - 1) /\ ~(m <= m - 1) /\ (m - 1) + 1 = m BY <2>2, <1>9
    <3>2. m - 1 \notin S BY <3>1, <1>8
    <3>3. ~(k < EndClock(s[m - 1])) BY <3>1, <3>2
    <3>4. EndClock(s[m - 1]) = s[m].clock BY <3>1, <1>2 DEF Row
    <3>5. s[m - 1] \in Blocks BY <3>1, <1>1, <1>2
    <3>6. EndClock(s[m - 1]) \in Nat BY <3>5, BlockBounds
    <3> QED BY <3>3, <3>4, <3>6
  <2> QED BY <2>1, <2>2
<1> QED BY <1>2, <1>9, <1>10

\* Structs of which each starts where the one before it ends are a row.
LEMMA RowOfNeighbours ==
  ASSUME NEW s \in Seq(Blocks), s # <<>>, \A i \in 1..(Len(s) - 1) : EndClock(s[i]) = s[i + 1].clock
  PROVE  Row(s, s[1].clock, EndClock(s[Len(s)]))
<1>1. PICK l \in Nat : l = Len(s) OBVIOUS
<1>2. l # 0 /\ 1 \in 1..l /\ l \in 1..l BY <1>1
<1>3. \A i \in 1..l : s[i].clock \in Nat /\ EndClock(s[i]) \in Nat /\ s[i].clock < EndClock(s[i])
  <2>1. \A i \in 1..l : s[i] \in Blocks BY <1>1
  <2> QED BY <2>1, BlockBounds
<1> DEFINE P == {j \in 0..l : \A i \in 1..l : i < j => EndClock(s[i]) <= s[j].clock}
<1>4. 0 \in P OBVIOUS
<1>5. ASSUME NEW j \in 0..(l - 1), j \in P PROVE j + 1 \in P
  <2>1. ASSUME NEW i \in 1..l, i < j + 1 PROVE EndClock(s[i]) <= s[j + 1].clock
    <3>1. j \in 1..(l - 1) /\ j \in 1..l /\ j + 1 \in 1..l BY <2>1
    <3>2. EndClock(s[j]) = s[j + 1].clock BY <3>1, <1>1
    <3>3. CASE i = j
      <4>1. EndClock(s[j]) \in Nat BY <3>1, <1>3
      <4> QED BY <4>1, <3>2, <3>3
    <3>4. CASE i # j
      <4>1. i < j BY <3>4, <2>1
      <4>2. EndClock(s[i]) <= s[j].clock BY <4>1, <1>5
      <4>3. EndClock(s[i]) \in Nat /\ s[j].clock \in Nat /\ EndClock(s[j]) \in Nat /\ s[j].clock < EndClock(s[j])
        BY <3>1, <1>3
      <4>4. EndClock(s[i]) <= EndClock(s[j]) BY <4>2, <4>3
      <4> QED BY <4>4, <3>2
    <3> QED BY <3>3, <3>4
  <2>2. j + 1 \in 0..l OBVIOUS
  <2> QED BY <2>1, <2>2
<1>6. \A j \in 0..l : j \in P
  <2> HIDE DEF P
  <2> QED BY <1>4, <1>5, UpTo
<1>7. \A i, j \in 1..l : i < j => EndClock(s[i]) <= s[j].clock
  <2>1. \A j \in 1..l : j \in 0..l OBVIOUS
  <2> QED BY <2>1, <1>6
<1>8. ASSUME NEW i \in 1..l PROVE s[1].clock <= s[i].clock
  <2>1. CASE i = 1 BY <2>1, <1>2, <1>3
  <2>2. CASE i # 1
    <3>1. 1 < i BY <2>2
    <3>2. EndClock(s[1]) <= s[i].clock BY <3>1, <1>2, <1>7
    <3>3. s[1].clock < EndClock(s[1]) /\ s[1].clock \in Nat /\ EndClock(s[1]) \in Nat /\ s[i].clock \in Nat BY <1>2, <1>3
    <3> QED BY <3>2, <3>3
  <2> QED BY <2>1, <2>2
<1>9. ASSUME NEW i \in 1..l PROVE EndClock(s[i]) <= EndClock(s[l])
  <2>1. CASE i = l BY <2>1, <1>2, <1>3
  <2>2. CASE i # l
    <3>1. i < l BY <2>2
    <3>2. EndClock(s[i]) <= s[l].clock BY <3>1, <1>2, <1>7
    <3>3. s[l].clock < EndClock(s[l]) /\ s[l].clock \in Nat /\ EndClock(s[l]) \in Nat /\ EndClock(s[i]) \in Nat BY <1>2, <1>3
    <3> QED BY <3>2, <3>3
  <2> QED BY <2>1, <2>2
<1>10. s[1].clock <= EndClock(s[l])
  <2>1. s[1].clock <= s[l].clock BY <1>2, <1>8
  <2>2. s[1].clock \in Nat /\ s[l].clock < EndClock(s[l]) /\ s[l].clock \in Nat /\ EndClock(s[l]) \in Nat BY <1>2, <1>3
  <2> QED BY <2>1, <2>2
<1>11. s[1].clock \in Nat /\ EndClock(s[l]) \in Nat BY <1>2, <1>3
<1> QED BY <1>1, <1>7, <1>8, <1>9, <1>10, <1>11 DEF Row

\* The least and the greatest of a set of numbers.
LEMMA MinIs ==
  ASSUME NEW S \in SUBSET Nat, S # {}
  PROVE  Min(S) \in S /\ \A y \in S : Min(S) <= y
<1>1. \E x \in S : \A y \in S : x <= y BY LeastNumber
<1> QED BY <1>1 DEF Min

\* A sequence is its head and its tail.
LEMMA HeadAndTail ==
  ASSUME NEW S, NEW s \in Seq(S), s # <<>>
  PROVE  Head(s) = s[1] /\ Tail(s) = SubSeq(s, 2, Len(s)) /\ 1 \in 1..Len(s)
<1>1. Head(s) = s[1] /\ Len(s) \in Nat /\ Len(s) # 0 OBVIOUS
<1>2. 1 \in 1..Len(s) BY <1>1
<1>3. PICK t : t = Tail(s) OBVIOUS
<1>4. PICK u : u = SubSeq(s, 2, Len(s)) OBVIOUS
<1>5. t \in Seq(S) /\ Len(t) = Len(s) - 1 /\ \A i \in 1..Len(t) : t[i] = s[i + 1]
  BY <1>3, HeadTailProperties
<1>6. u \in Seq(S) /\ Len(u) = Len(s) - 1 /\ \A i \in 1..(Len(s) - 1) : u[i] = s[i + 1]
  <2>1. \A i \in 2..Len(s) : i \in 1..Len(s) OBVIOUS
  <2>2. \A i \in 2..Len(s) : s[i] \in S BY <2>1
  <2>3. 2 \in Int /\ Len(s) \in Int BY <1>1
  <2>4. u \in Seq(S) /\ Len(u) = (IF 2 <= Len(s) THEN Len(s) - 2 + 1 ELSE 0)
        /\ \A i \in 1..(Len(s) - 2 + 1) : u[i] = s[2 + i - 1]
    BY <2>2, <2>3, <1>4, SubSeqProperties
  <2>5. Len(s) - 2 + 1 = Len(s) - 1 /\ \A i \in 1..(Len(s) - 1) : 2 + i - 1 = i + 1 BY <1>1
  <2>6. (IF 2 <= Len(s) THEN Len(s) - 2 + 1 ELSE 0) = Len(s) - 1
    <3>1. PICK n \in Nat : n = Len(s) BY <1>1
    <3>2. n # 0 BY <3>1, <1>1
    <3>3. (IF 2 <= n THEN n - 2 + 1 ELSE 0) = n - 1
      <4>1. CASE 2 <= n BY <4>1
      <4>2. CASE ~(2 <= n)
        <5>1. n = 1 BY <4>2, <3>2
        <5> QED BY <5>1
      <4> QED BY <4>1, <4>2
    <3> QED BY <3>1, <3>3
  <2>7. \A i \in 1..(Len(s) - 1) : u[i] = s[i + 1]
    <3>1. \A i \in 1..(Len(s) - 1) : u[i] = s[2 + i - 1] BY <2>4, <2>5
    <3> QED BY <3>1, <2>5
  <2> QED BY <2>4, <2>6, <2>7
<1>7. Len(t) = Len(u) /\ \A i \in 1..Len(t) : t[i] = u[i] BY <1>5, <1>6
<1>8. t = u BY <1>5, <1>6, <1>7, SeqEqual
<1> QED BY <1>1, <1>2, <1>3, <1>4, <1>8

\* Parts of the structs of a list.
Parts(list, of) ==
  \A i \in 1..Len(list) : ~IsSkip(list[i]) => \E j \in 1..Len(of) : Window(list[i], of[j])

\* What a side still holds: the structs at or after `next`.
Covered(refs, src, next) ==
  /\ refs \in Seq(Blocks)
  /\ \E from, to : Row(refs, from, to)
  /\ \A k \in Nat : k >= next => (Held(refs, k) <=> Held(src, k))
  /\ Parts(refs, src)

\* The structs not behind `next` hold the same clocks from there on.
LEMMA AheadCovers ==
  ASSUME NEW refs, NEW src, NEW next \in Nat, Covered(refs, src, next)
  PROVE  LET ahead == Ahead(refs, next)
         IN /\ Covered(ahead, src, next) /\ Len(ahead) <= Len(refs)
            /\ ahead # <<>> => ~IsSkip(ahead[1]) /\ EndClock(ahead[1]) > next
            /\ refs # <<>> /\ (IsSkip(refs[1]) \/ EndClock(refs[1]) <= next) => Len(ahead) < Len(refs)
            /\ refs # <<>> /\ ~IsSkip(refs[1]) /\ EndClock(refs[1]) > next => ahead = refs
<1>1. PICK f, t : Row(refs, f, t) BY DEF Covered
<1>2. refs \in Seq(Blocks) BY DEF Covered
<1>3. PICK l \in Nat : l = Len(refs) /\ DOMAIN refs = 1..l BY <1>2
<1> DEFINE kept == {i \in DOMAIN refs : ~IsSkip(refs[i]) /\ EndClock(refs[i]) > next}
<1>4. PICK K : K = kept OBVIOUS
<1>5. K = {i \in 1..l : ~IsSkip(refs[i]) /\ EndClock(refs[i]) > next} BY <1>3, <1>4
<1>6. PICK h : h = Ahead(refs, next) OBVIOUS
<1>7. h = IF K = {} THEN <<>> ELSE SubSeq(refs, Min(K), l) BY <1>3, <1>4, <1>6 DEF Ahead
<1>8. \A i \in 1..l : refs[i].clock \in Nat /\ EndClock(refs[i]) \in Nat
  <2>1. \A i \in 1..l : refs[i] \in Blocks BY <1>2, <1>3
  <2> QED BY <2>1, BlockBounds
<1>9. \A i \in 1..l : i \notin K => IsSkip(refs[i]) \/ EndClock(refs[i]) <= next BY <1>5, <1>8
<1>10. CASE K = {}
  <2>1. h = <<>> BY <1>7, <1>10
  <2>2. ASSUME NEW k \in Nat, k >= next PROVE ~Held(refs, k)
    <3>1. SUFFICES ASSUME NEW i \in 1..l, ~IsSkip(refs[i]), refs[i].clock <= k, k < EndClock(refs[i]) PROVE FALSE
      BY <1>3 DEF Held
    <3>2. EndClock(refs[i]) <= next BY <3>1, <1>9, <1>10
    <3> QED BY <3>1, <3>2, <2>2, <1>8
  <2>3. Covered(<<>>, src, next)
    <3>1. Row(<<>>, 0, 0) /\ \A k : ~Held(<<>>, k) BY RowOfNone
    <3>2. Parts(<<>>, src) BY DEF Parts
    <3>3. \A k \in Nat : k >= next => ~Held(src, k) BY <2>2 DEF Covered
    <3>4. <<>> \in Seq(Blocks) OBVIOUS
    <3> QED BY <3>1, <3>2, <3>3, <3>4 DEF Covered
  <2>4. Len(<<>>) = 0 OBVIOUS
  <2>5. refs # <<>> => l # 0 /\ 1 \in 1..l BY <1>2, <1>3
  <2>6. ~(refs # <<>> /\ ~IsSkip(refs[1]) /\ EndClock(refs[1]) > next) BY <2>5, <1>5, <1>10
  <2> QED BY <2>1, <2>3, <2>4, <2>5, <2>6, <1>3, <1>6
<1>11. CASE K # {}
  <2>1. K \in SUBSET Nat BY <1>5
  <2>2. PICK m \in K : m = Min(K) /\ \A y \in K : m <= y BY <2>1, <1>11, MinIs
  <2>3. m \in 1..l /\ ~IsSkip(refs[m]) /\ EndClock(refs[m]) > next BY <2>2, <1>5
  <2>4. h = SubSeq(refs, m, l) BY <2>2, <1>7, <1>11
  <2>5. PICK n \in 0..l : n = m - 1 BY <2>3
  <2>6. n + 1 = m /\ n < l BY <2>3, <2>5
  <2>7. PICK b : b = IF n = 0 THEN f ELSE EndClock(refs[n]) OBVIOUS
  <2>8. PICK p : p = SubSeq(refs, 1, n) OBVIOUS
  <2>9. n \in 0..Len(refs) BY <2>5, <1>3
  <2>10. /\ Row(p, f, b) /\ Row(h, b, t) /\ Len(p) = n /\ \A i \in 1..n : p[i] = refs[i]
    BY <1>1, <1>3, <2>4, <2>6, <2>7, <2>8, <2>9, RowSplit
  <2>11. /\ Len(h) = l - n /\ \A i \in 1..(l - n) : h[i] = refs[n + i]
         /\ \A k : Held(refs, k) <=> Held(p, k) \/ Held(h, k)
    <3>1. /\ Len(SubSeq(refs, n + 1, Len(refs))) = Len(refs) - n
          /\ \A i \in 1..(Len(refs) - n) : SubSeq(refs, n + 1, Len(refs))[i] = refs[n + i]
          /\ \A k : Held(refs, k) <=> Held(SubSeq(refs, 1, n), k) \/ Held(SubSeq(refs, n + 1, Len(refs)), k)
      BY <1>1, <2>7, <2>9, RowSplit
    <3> QED BY <3>1, <1>3, <2>4, <2>6, <2>8
  <2>12. ASSUME NEW k \in Nat, k >= next PROVE ~Held(p, k)
    <3>1. SUFFICES ASSUME NEW i \in 1..n, ~IsSkip(refs[i]), refs[i].clock <= k, k < EndClock(refs[i]) PROVE FALSE
      BY <2>10 DEF Held
    <3>2. i \in 1..l /\ i \notin K
      <4>1. i \in 1..l /\ ~(m <= i) BY <2>5, <2>3
      <4> QED BY <4>1, <2>2
    <3>3. EndClock(refs[i]) <= next BY <3>1, <3>2, <1>9
    <3> QED BY <3>1, <3>2, <3>3, <2>12, <1>8
  <2>13. Parts(h, src)
    <3>1. \A i \in 1..(l - n) : n + i \in 1..l BY <2>5
    <3> QED BY <3>1, <2>11, <1>3 DEF Covered, Parts
  <2>14. Covered(h, src, next)
    <3>1. \A k \in Nat : k >= next => (Held(h, k) <=> Held(src, k)) BY <2>11, <2>12 DEF Covered
    <3>2. h \in Seq(Blocks) BY <2>10 DEF Row
    <3> QED BY <3>1, <3>2, <2>10, <2>13 DEF Covered
  <2>15. h[1] = refs[m]
    <3>1. 1 \in 1..(l - n) BY <2>6, <2>5
    <3> QED BY <3>1, <2>6, <2>11
  <2>16. Len(h) <= l BY <2>11, <2>5
  <2>17. ASSUME refs # <<>>, IsSkip(refs[1]) \/ EndClock(refs[1]) <= next PROVE Len(h) < l
    <3>1. 1 \in 1..l BY <2>3
    <3>2. 1 \notin K BY <3>1, <2>17, <1>5, <1>8
    <3>3. m # 1 BY <3>2, <2>2
    <3>4. n >= 1 BY <3>3, <2>3, <2>5
    <3> QED BY <3>4, <2>5, <2>11
  <2>18. ASSUME refs # <<>>, ~IsSkip(refs[1]), EndClock(refs[1]) > next PROVE h = refs
    <3>1. 1 \in K BY <2>3, <2>18, <1>5
    <3>2. m = 1 BY <3>1, <2>2, <2>3
    <3>3. SubSeq(refs, 1, l) = refs BY <1>2, <1>3
    <3> QED BY <3>2, <3>3, <2>4
  <2> QED BY <2>3, <2>14, <2>15, <2>16, <2>17, <2>18, <1>3, <1>6
<1> QED BY <1>10, <1>11

\* The greatest of a bounded set of numbers.
LEMMA MaxIs ==
  ASSUME NEW l \in Nat, NEW S \in SUBSET (0..l), S # {}
  PROVE  Max(S) \in S /\ \A y \in S : y <= Max(S)
<1> DEFINE T == {l - x : x \in S}
<1>1. T \in SUBSET Nat /\ T # {} OBVIOUS
<1>2. PICK z \in T : \A y \in T : z <= y BY <1>1, LeastNumber
<1>3. PICK x \in S : z = l - x BY <1>2
<1>4. \A y \in S : y <= x
  <2>1. ASSUME NEW y \in S PROVE y <= x
    <3>1. l - y \in T OBVIOUS
    <3>2. l - x <= l - y BY <3>1, <1>2, <1>3
    <3>3. x \in 0..l /\ y \in 0..l OBVIOUS
    <3> QED BY <3>2, <3>3
  <2> QED BY <2>1
<1> HIDE DEF T
<1>5. \E m \in S : \A y \in S : m >= y
  <2>1. \A y \in S : x >= y
    <3>1. ASSUME NEW y \in S PROVE x >= y
      <4>1. x \in 0..l /\ y \in 0..l /\ y <= x BY <1>4
      <4> QED BY <4>1
    <3> QED BY <3>1
  <2> QED BY <2>1
<1>6. Max(S) \in S /\ \A y \in S : Max(S) >= y BY <1>5 DEF Max
<1>7. \A y \in S : y \in 0..l /\ Max(S) \in 0..l BY <1>6
<1> QED BY <1>6, <1>7

\* Slicing the struct that straddles `next` leaves what is held from there on.
LEMMA StraddlingCovers ==
  ASSUME NEW refs, NEW src \in Seq(Blocks), NEW next \in Nat, Covered(refs, src, next),
         refs # <<>> => ~IsSkip(refs[1]) /\ EndClock(refs[1]) > next
  PROVE  LET st == Straddling(refs, next)
         IN /\ Covered(st, src, next) /\ Len(st) = Len(refs)
            /\ st # <<>> => ~IsSkip(st[1]) /\ st[1].clock >= next
            /\ refs # <<>> /\ refs[1].clock <= next => st # <<>> /\ st[1].clock = next
            /\ ~(refs # <<>> /\ refs[1].clock < next) => st = refs
<1>1. PICK f, t : Row(refs, f, t) BY DEF Covered
<1>2. refs \in Seq(Blocks) BY DEF Covered
<1>3. PICK st : st = Straddling(refs, next) OBVIOUS
<1>4. refs # <<>> => 1 \in 1..Len(refs) /\ refs[1] \in Blocks /\ refs[1].clock \in Nat /\ EndClock(refs[1]) \in Nat
  <2>1. ASSUME refs # <<>> PROVE 1 \in 1..Len(refs) /\ refs[1] \in Blocks BY <2>1, <1>2, HeadAndTail
  <2> QED BY <2>1, BlockBounds
<1>5. refs # <<>> => Head(refs) = refs[1] BY <1>2
<1>6. CASE ~(refs # <<>> /\ refs[1].clock < next)
  <2>1. st = refs BY <1>3, <1>5, <1>6 DEF Straddling
  <2>2. refs # <<>> => refs[1].clock >= next BY <1>4, <1>6
  <2>3. refs # <<>> /\ refs[1].clock <= next => refs[1].clock = next BY <2>2, <1>4
  <2> QED BY <2>1, <2>2, <2>3, <1>3
<1>7. CASE refs # <<>> /\ refs[1].clock < next
  <2>1. PICK h \in Blocks : h = refs[1] BY <1>4, <1>7
  <2>2. h.clock \in Nat /\ EndClock(h) \in Nat /\ h.clock < next /\ next < EndClock(h) /\ ~IsSkip(h) BY <2>1, <1>4, <1>7
  <2>3. PICK d \in Nat : d = next - h.clock BY <2>2
  <2>4. d + 0 < EndClock(h) - h.clock BY <2>2, <2>3
  <2>5. PICK s : s = SliceStruct(h, d, 0) OBVIOUS
  <2>6. s \in Blocks /\ s.clock = h.clock + d /\ EndClock(s) = EndClock(h) - 0 /\ s.kind = h.kind /\ Window(s, h)
    BY <2>4, <2>5, SliceBounds
  <2>7. s.clock = next /\ EndClock(s) = EndClock(h) /\ ~IsSkip(s) BY <2>2, <2>3, <2>6 DEF IsSkip
  <2>8. PICK l \in Nat : l = Len(refs) BY <1>2
  <2>9. PICK q : q = SubSeq(refs, 2, l) OBVIOUS
  <2>10. st = <<s>> \o q BY <2>1, <2>3, <2>5, <2>8, <2>9, <1>2, <1>3, <1>5, <1>7, HeadAndTail DEF Straddling
  <2>11. 1 \in 0..Len(refs) /\ 1 + 1 = 2 /\ l >= 1
    <3>1. 1 \in 1..l BY <2>8, <1>4, <1>7
    <3> QED BY <3>1, <2>8
  <2>12. PICK p : p = SubSeq(refs, 1, 1) OBVIOUS
  <2>13. /\ Row(p, f, EndClock(h)) /\ Row(q, EndClock(h), t) /\ Len(p) = 1 /\ \A i \in 1..1 : p[i] = refs[i]
         /\ Len(q) = l - 1 /\ \A i \in 1..(l - 1) : q[i] = refs[1 + i]
         /\ \A k : Held(refs, k) <=> Held(p, k) \/ Held(q, k)
    BY <2>1, <2>8, <2>9, <2>11, <2>12, <1>1, RowSplit
  <2>14. /\ <<s>> \in Seq(Blocks) /\ Row(<<s>>, next, EndClock(h))
         /\ \A k : Held(<<s>>, k) <=> next <= k /\ k < EndClock(h)
    BY <2>6, <2>7, RowOfOne
  <2>15. Row(st, next, t) /\ \A k : Held(st, k) <=> Held(<<s>>, k) \/ Held(q, k)
    BY <2>10, <2>13, <2>14, RowConcat
  <2>16. st \in Seq(Blocks) /\ q \in Seq(Blocks) BY <2>13, <2>15 DEF Row
  <2>17. Len(st) = l /\ st[1] = s /\ \A i \in 2..l : st[i] = refs[i]
    <3>1. Len(<<s>>) = 1 /\ <<s>>[1] = s OBVIOUS
    <3>2. Len(st) = Len(<<s>>) + Len(q)
          /\ \A i \in 1..(Len(<<s>>) + Len(q)) : st[i] = IF i <= Len(<<s>>) THEN <<s>>[i] ELSE q[i - Len(<<s>>)]
      BY <2>10, <2>14, <2>16, ConcatProperties
    <3>3. 1 + (l - 1) = l BY <2>8
    <3>4. Len(st) = l /\ \A i \in 1..l : st[i] = IF i <= 1 THEN <<s>>[i] ELSE q[i - 1] BY <3>1, <3>2, <3>3, <2>13
    <3>5. st[1] = s
      <4>1. 1 \in 1..l BY <2>11
      <4> QED BY <4>1, <3>1, <3>4
    <3>6. ASSUME NEW i \in 2..l PROVE st[i] = refs[i]
      <4>1. i \in 1..l /\ ~(i <= 1) /\ i - 1 \in 1..(l - 1) /\ 1 + (i - 1) = i BY <2>8
      <4>2. st[i] = q[i - 1] BY <4>1, <3>4
      <4>3. q[i - 1] = refs[1 + (i - 1)] BY <4>1, <2>13
      <4> QED BY <4>1, <4>2, <4>3
    <3> QED BY <3>4, <3>5, <3>6
  <2>18. ASSUME NEW k \in Nat, k >= next PROVE Held(st, k) <=> Held(refs, k)
    <3>1. Held(p, k) <=> k < EndClock(h)
      <4>1. 1 \in 1..1 /\ \A i \in 1..1 : i = 1 OBVIOUS
      <4>2. p[1] = h BY <4>1, <2>1, <2>13
      <4>3. Held(p, k) <=> ~IsSkip(h) /\ h.clock <= k /\ k < EndClock(h) BY <4>1, <4>2, <2>13 DEF Held
      <4> QED BY <4>3, <2>2, <2>18
    <3> QED BY <3>1, <2>13, <2>14, <2>15, <2>18
  <2>19. Parts(st, src)
    <3>1. ASSUME NEW i \in 1..l, ~IsSkip(st[i]) PROVE \E j \in 1..Len(src) : Window(st[i], src[j])
      <4>1. CASE i = 1
        <5>1. 1 \in 1..Len(refs) BY <2>8, <2>11
        <5>2. PICK j \in 1..Len(src) : Window(h, src[j]) BY <5>1, <2>1, <2>2 DEF Covered, Parts
        <5>3. src[j] \in Blocks OBVIOUS
        <5>4. Window(s, src[j]) BY <5>2, <5>3, <2>6, WindowOfWindow
        <5> QED BY <5>4, <4>1, <2>17
      <4>2. CASE i # 1
        <5>1. i \in 2..l /\ i \in 1..Len(refs) BY <4>2, <2>8
        <5>2. st[i] = refs[i] BY <5>1, <2>17
        <5> QED BY <5>1, <5>2, <3>1 DEF Covered, Parts
      <4> QED BY <4>1, <4>2
    <3> QED BY <3>1, <2>17 DEF Parts
  <2>20. Covered(st, src, next)
    <3>1. \A k \in Nat : k >= next => (Held(st, k) <=> Held(src, k)) BY <2>18 DEF Covered
    <3> QED BY <3>1, <2>15, <2>16, <2>19 DEF Covered
  <2>21. st # <<>> BY <2>11, <2>17
  <2>22. next >= next OBVIOUS
  <2> QED BY <2>7, <2>8, <2>17, <2>20, <2>21, <2>22, <1>3, <1>7
<1> QED BY <1>6, <1>7

\* How many structs go on without a hole, and what comes after them.
LEMMA RunIs ==
  ASSUME NEW st, NEW next \in Nat, NEW f, NEW t, Row(st, f, t),
         st # <<>> => ~IsSkip(st[1]) /\ st[1].clock >= next
  PROVE  /\ RunLength(st, next) \in 0..Len(st)
         /\ \A i \in 1..RunLength(st, next) : ~IsSkip(st[i])
         /\ RunLength(st, next) # 0 => st[1].clock = next
         /\ RunLength(st, next) = 0 /\ st # <<>> => st[1].clock > next
         /\ RunLength(st, next) # 0 /\ RunLength(st, next) < Len(st) => IsSkip(st[RunLength(st, next) + 1])
<1>1. st \in Seq(Blocks) BY DEF Row
<1>2. PICK l \in Nat : l = Len(st) BY <1>1
<1> DEFINE In(n) == \A i \in 1..n : ~IsSkip(st[i]) /\ st[i].clock = IF i = 1 THEN next ELSE EndClock(st[i - 1])
<1>3. PICK S : S = {n \in 0..l : In(n)} OBVIOUS
<1>4. RunLength(st, next) = Max(S) BY <1>2, <1>3 DEF RunLength
<1>5. S \in SUBSET (0..l) /\ 0 \in S BY <1>3
<1>6. PICK n \in S : n = Max(S) /\ \A y \in S : y <= n BY <1>5, MaxIs
<1>7. n \in 0..l /\ In(n) BY <1>3, <1>6
<1>8. \A i \in 1..n : ~IsSkip(st[i]) BY <1>7
<1>9. n # 0 => st[1].clock = next
  <2>1. ASSUME n # 0 PROVE st[1].clock = next
    <3>1. 1 \in 1..n BY <2>1, <1>7
    <3> QED BY <3>1, <1>7
  <2> QED BY <2>1
<1>10. ASSUME n = 0, st # <<>> PROVE st[1].clock > next
  <2>1. 1 \in 1..l /\ 1 \in 0..l /\ st[1] \in Blocks BY <1>1, <1>2, <1>10, HeadAndTail
  <2>2. st[1].clock \in Nat BY <2>1, BlockBounds
  <2>3. ASSUME st[1].clock = next PROVE FALSE
    <3>1. \A i \in 1..1 : i = 1 OBVIOUS
    <3>2. In(1) BY <3>1, <2>3, <1>10
    <3>3. 1 \in S BY <3>2, <2>1, <1>3
    <3>4. 1 <= n BY <3>3, <1>6
    <3> QED BY <3>4, <1>10
  <2> QED BY <2>2, <2>3, <1>10
<1>11. ASSUME n # 0, n < l PROVE IsSkip(st[n + 1])
  <2>1. n + 1 \in 0..l /\ n \in 1..(l - 1) BY <1>7, <1>11
  <2>2. EndClock(st[n]) = st[n + 1].clock BY <2>1, <1>2 DEF Row
  <2>3. ASSUME ~IsSkip(st[n + 1]) PROVE FALSE
    <3>1. ASSUME NEW i \in 1..(n + 1)
          PROVE  ~IsSkip(st[i]) /\ st[i].clock = IF i = 1 THEN next ELSE EndClock(st[i - 1])
      <4>1. CASE i \in 1..n BY <4>1, <1>7
      <4>2. CASE i = n + 1
        <5>1. i # 1 /\ i - 1 = n BY <4>2, <2>1
        <5> QED BY <5>1, <4>2, <2>2, <2>3
      <4> QED BY <4>1, <4>2, <2>1
    <3>2. In(n + 1) BY <3>1
    <3>3. n + 1 \in S BY <3>2, <2>1, <1>3
    <3>4. n + 1 <= n BY <3>3, <1>6
    <3> QED BY <3>4, <2>1
  <2> QED BY <2>3
<1> HIDE DEF In
<1> QED BY <1>2, <1>4, <1>6, <1>7, <1>8, <1>9, <1>10, <1>11

\* A side goes on at `next`.
Ready(refs, next) == refs # <<>> /\ (IsSkip(refs[1]) \/ refs[1].clock <= next)

\* A side whose next struct is a Skip at `next`, or comes after it.
Beyond(refs, next) ==
  refs # <<>> => (IsSkip(refs[1]) /\ refs[1].clock = next) \/ (~IsSkip(refs[1]) /\ refs[1].clock > next)

\* What a side gives when it is applied: a row of structs from `next` to a new
\* `next`, all that it holds there; the rest is what it holds from there on.
Advanced(refs, src, next, seg, rest, new) ==
  /\ new \in Nat /\ next <= new /\ Row(seg, next, new)
  /\ \A i \in 1..Len(seg) : ~IsSkip(seg[i])
  /\ Parts(seg, src)
  /\ \A k \in Nat : next <= k /\ k < new => Held(seg, k) /\ Held(src, k)
  /\ Covered(rest, src, new) /\ Beyond(rest, new)
  /\ Len(rest) <= Len(refs)
  /\ Ready(refs, next) => Len(rest) < Len(refs)
  /\ ~Ready(refs, next) => seg = <<>> /\ rest = refs /\ new = next
  /\ refs # <<>> /\ ~IsSkip(refs[1]) /\ refs[1].clock = next => seg # <<>>

\* Taking the run off structs of which the first is at or after `next`.
LEMMA RunTaken ==
  ASSUME NEW st, NEW src, NEW next \in Nat, Covered(st, src, next),
         st # <<>> => ~IsSkip(st[1]) /\ st[1].clock >= next
  PROVE  LET n    == RunLength(st, next)
             seg  == SubSeq(st, 1, n)
             rest == SubSeq(st, n + 1, Len(st))
             new  == IF n = 0 THEN next ELSE EndClock(st[n])
         IN /\ new \in Nat /\ next <= new /\ Row(seg, next, new)
            /\ \A i \in 1..Len(seg) : ~IsSkip(seg[i])
            /\ Parts(seg, src)
            /\ \A k \in Nat : next <= k /\ k < new => Held(seg, k) /\ Held(src, k)
            /\ Covered(rest, src, new) /\ Beyond(rest, new)
            /\ Len(rest) = Len(st) - n /\ n \in 0..Len(st)
            /\ n = 0 => seg = <<>> /\ rest = st
            /\ n # 0 => seg # <<>>
            /\ st # <<>> => (n # 0 <=> st[1].clock = next)
<1>1. PICK f, t : Row(st, f, t) BY DEF Covered
<1>2. st \in Seq(Blocks) BY DEF Covered
<1>3. PICK l \in Nat : l = Len(st) BY <1>2
<1>4. PICK n \in 0..l : n = RunLength(st, next) BY <1>1, <1>3, RunIs
<1>5. /\ \A i \in 1..n : ~IsSkip(st[i])
      /\ n # 0 => st[1].clock = next
      /\ n = 0 /\ st # <<>> => st[1].clock > next
      /\ n # 0 /\ n < l => IsSkip(st[n + 1])
  BY <1>1, <1>3, <1>4, RunIs
<1>6. PICK seg : seg = SubSeq(st, 1, n) OBVIOUS
<1>7. PICK rest : rest = SubSeq(st, n + 1, l) OBVIOUS
<1>8. PICK new : new = IF n = 0 THEN next ELSE EndClock(st[n]) OBVIOUS
<1>9. PICK b : b = IF n = 0 THEN f ELSE EndClock(st[n]) OBVIOUS
<1>10. n \in 0..Len(st) BY <1>3, <1>4
<1>11. /\ Row(seg, f, b) /\ Row(rest, b, t) /\ Len(seg) = n /\ \A i \in 1..n : seg[i] = st[i]
  BY <1>1, <1>3, <1>6, <1>7, <1>9, <1>10, RowSplit
<1>12. /\ Len(rest) = l - n /\ \A i \in 1..(l - n) : rest[i] = st[n + i]
       /\ \A k : Held(st, k) <=> Held(seg, k) \/ Held(rest, k)
  BY <1>1, <1>3, <1>6, <1>7, <1>9, <1>10, RowSplit
<1>13. seg \in Seq(Blocks) /\ rest \in Seq(Blocks) BY <1>11 DEF Row
<1>14. (n = 0 <=> seg = <<>>) BY <1>11, <1>13
<1>15. n = 0 => rest = st
  <2>1. SubSeq(st, 1, l) = st BY <1>2, <1>3
  <2>2. n = 0 => n + 1 = 1 OBVIOUS
  <2> QED BY <2>1, <2>2, <1>7
<1>16. n # 0 => f = next
  <2>1. ASSUME n # 0 PROVE f = next
    <3>1. st # <<>> BY <2>1, <1>3, <1>4
    <3>2. st[1].clock = f BY <3>1, <1>1 DEF Row
    <3> QED BY <3>2, <2>1, <1>5
  <2> QED BY <2>1
<1>17. new \in Nat /\ next <= new /\ Row(seg, next, new)
  <2>1. CASE n = 0
    <3>1. seg = <<>> /\ new = next BY <2>1, <1>8, <1>14
    <3> QED BY <3>1, RowOfNone
  <2>2. CASE n # 0
    <3>1. Row(seg, next, new) BY <2>2, <1>8, <1>9, <1>11, <1>16
    <3> QED BY <3>1 DEF Row
  <2> QED BY <2>1, <2>2
<1>18. \A i \in 1..n : ~IsSkip(seg[i]) BY <1>5, <1>11
<1>19. Parts(seg, src) /\ Parts(rest, src)
  <2>1. \A i \in 1..n : i \in 1..l BY <1>4
  <2>2. \A i \in 1..(l - n) : n + i \in 1..l BY <1>4
  <2>3. \A i \in 1..l : ~IsSkip(st[i]) => \E j \in 1..Len(src) : Window(st[i], src[j]) BY <1>3 DEF Covered, Parts
  <2>4. Parts(seg, src) BY <2>1, <2>3, <1>11 DEF Parts
  <2>5. ASSUME NEW i \in 1..(l - n), ~IsSkip(rest[i]) PROVE \E j \in 1..Len(src) : Window(rest[i], src[j])
    <3>1. n + i \in 1..l /\ rest[i] = st[n + i] BY <2>2, <1>12
    <3> QED BY <3>1, <2>3, <2>5
  <2>6. Parts(rest, src) BY <2>5, <1>12 DEF Parts
  <2> QED BY <2>4, <2>6
<1>20. ASSUME NEW k \in Nat, next <= k, k < new PROVE Held(seg, k) /\ Held(src, k)
  <2>1. PICK i \in 1..Len(seg) : seg[i].clock <= k /\ k < EndClock(seg[i]) BY <1>17, <1>20, RowCovers
  <2>2. ~IsSkip(seg[i]) BY <1>11, <1>18
  <2>3. Held(seg, k) BY <2>1, <2>2 DEF Held
  <2>4. k >= next BY <1>20
  <2> QED BY <2>3, <2>4, <1>12 DEF Covered
<1>21. Covered(rest, src, new)
  <2>1. ASSUME NEW k \in Nat, k >= new PROVE Held(rest, k) <=> Held(src, k)
    <3>1. ~Held(seg, k)
      <4>1. SUFFICES ASSUME Held(seg, k) PROVE FALSE OBVIOUS
      <4>2. k < new BY <4>1, <1>17, RowHeld
      <4> QED BY <4>2, <2>1, <1>17
    <3>2. k >= next BY <2>1, <1>17
    <3> QED BY <3>1, <3>2, <1>12 DEF Covered
  <2> QED BY <2>1, <1>11, <1>13, <1>19 DEF Covered
<1>22. Beyond(rest, new)
  <2>1. SUFFICES ASSUME rest # <<>>
        PROVE (IsSkip(rest[1]) /\ rest[1].clock = new) \/ (~IsSkip(rest[1]) /\ rest[1].clock > new)
    BY DEF Beyond
  <2>2. 1 \in 1..(l - n) /\ n < l
    <3>1. Len(rest) # 0 BY <2>1, <1>13
    <3> QED BY <3>1, <1>4, <1>12
  <2>3. rest[1] = st[n + 1] BY <2>2, <1>12
  <2>4. CASE n = 0
    <3>1. rest = st /\ new = next /\ st # <<>> BY <2>1, <2>4, <1>8, <1>15
    <3> QED BY <3>1, <2>4, <1>5
  <2>5. CASE n # 0
    <3>1. rest[1].clock = b BY <2>1, <1>11 DEF Row
    <3>2. b = new BY <2>5, <1>8, <1>9
    <3> QED BY <3>1, <3>2, <2>2, <2>3, <2>5, <1>5
  <2> QED BY <2>4, <2>5
<1>23. st # <<>> => (n # 0 <=> st[1].clock = next)
  <2>1. ASSUME st # <<>> PROVE st[1].clock \in Nat
    <3>1. st[1] \in Blocks BY <2>1, <1>2, HeadAndTail
    <3> QED BY <3>1, BlockBounds
  <2> QED BY <2>1, <1>5
<1> QED BY <1>3, <1>4, <1>6, <1>7, <1>8, <1>11, <1>12, <1>14, <1>15, <1>17, <1>18, <1>19, <1>20, <1>21, <1>22, <1>23

\* Applying a side.
LEMMA ApplyAdvances ==
  ASSUME NEW refs, NEW src \in Seq(Blocks), NEW next \in Nat, Covered(refs, src, next)
  PROVE  LET a == Applied(refs, next) IN Advanced(refs, src, next, a.run, a.rest, a.next)
<1>1. PICK h : h = Ahead(refs, next) OBVIOUS
<1>2. /\ Covered(h, src, next) /\ Len(h) <= Len(refs)
      /\ h # <<>> => ~IsSkip(h[1]) /\ EndClock(h[1]) > next
      /\ refs # <<>> /\ (IsSkip(refs[1]) \/ EndClock(refs[1]) <= next) => Len(h) < Len(refs)
      /\ refs # <<>> /\ ~IsSkip(refs[1]) /\ EndClock(refs[1]) > next => h = refs
  BY <1>1, AheadCovers
<1>3. PICK st : st = Straddling(h, next) OBVIOUS
<1>4. /\ Covered(st, src, next) /\ Len(st) = Len(h)
      /\ st # <<>> => ~IsSkip(st[1]) /\ st[1].clock >= next
      /\ h # <<>> /\ h[1].clock <= next => st # <<>> /\ st[1].clock = next
      /\ ~(h # <<>> /\ h[1].clock < next) => st = h
  BY <1>2, <1>3, StraddlingCovers
<1>5. PICK n : n = RunLength(st, next) OBVIOUS
<1>6. PICK seg : seg = SubSeq(st, 1, n) OBVIOUS
<1>7. PICK rest : rest = SubSeq(st, n + 1, Len(st)) OBVIOUS
<1>8. PICK new : new = IF n = 0 THEN next ELSE EndClock(st[n]) OBVIOUS
<1>9. /\ new \in Nat /\ next <= new /\ Row(seg, next, new)
      /\ \A i \in 1..Len(seg) : ~IsSkip(seg[i])
      /\ Parts(seg, src)
      /\ \A k \in Nat : next <= k /\ k < new => Held(seg, k) /\ Held(src, k)
      /\ Covered(rest, src, new) /\ Beyond(rest, new)
      /\ Len(rest) = Len(st) - n /\ n \in 0..Len(st)
      /\ n = 0 => seg = <<>> /\ rest = st
      /\ n # 0 => seg # <<>>
      /\ st # <<>> => (n # 0 <=> st[1].clock = next)
  BY <1>4, <1>5, <1>6, <1>7, <1>8, RunTaken
<1>10. refs \in Seq(Blocks) /\ h \in Seq(Blocks) /\ st \in Seq(Blocks) BY <1>2, <1>4 DEF Covered
<1>11. PICK lr \in Nat : lr = Len(refs) BY <1>10
<1>12. PICK lh \in Nat : lh = Len(h) BY <1>10
<1>13. lh <= lr /\ Len(st) = lh /\ Len(rest) = lh - n /\ n \in 0..lh BY <1>2, <1>4, <1>9, <1>11, <1>12
<1>14. refs # <<>> => refs[1].clock \in Nat /\ EndClock(refs[1]) \in Nat /\ refs[1].clock < EndClock(refs[1])
  <2>1. ASSUME refs # <<>> PROVE refs[1] \in Blocks BY <2>1, <1>10, HeadAndTail
  <2> QED BY <2>1, BlockBounds
<1>15. Len(rest) <= Len(refs) BY <1>11, <1>13
<1>16. ASSUME Ready(refs, next) PROVE Len(rest) < Len(refs)
  <2>1. CASE IsSkip(refs[1]) \/ EndClock(refs[1]) <= next
    <3>1. lh < lr BY <2>1, <1>2, <1>11, <1>12, <1>16 DEF Ready
    <3> QED BY <3>1, <1>11, <1>13
  <2>2. CASE ~IsSkip(refs[1]) /\ ~(EndClock(refs[1]) <= next)
    <3>1. h = refs /\ refs # <<>> /\ refs[1].clock <= next BY <2>2, <1>2, <1>14, <1>16 DEF Ready
    <3>2. st # <<>> /\ st[1].clock = next BY <3>1, <1>4
    <3>3. n # 0 BY <3>2, <1>9
    <3> QED BY <3>3, <1>11, <1>13
  <2> QED BY <2>1, <2>2
<1>17. ASSUME ~Ready(refs, next) PROVE seg = <<>> /\ rest = refs /\ new = next
  <2>1. CASE refs = <<>>
    <3>1. lr = 0 BY <2>1, <1>11
    <3>2. lh = 0 /\ n = 0 BY <3>1, <1>13
    <3>3. st = <<>> BY <3>2, <1>10, <1>13
    <3> QED BY <3>2, <3>3, <2>1, <1>8, <1>9
  <2>2. CASE refs # <<>>
    <3>1. ~IsSkip(refs[1]) /\ refs[1].clock > next BY <2>2, <1>14, <1>17 DEF Ready
    <3>2. EndClock(refs[1]) > next BY <3>1, <2>2, <1>14
    <3>3. h = refs BY <3>1, <3>2, <2>2, <1>2
    <3>4. st = refs BY <3>1, <3>3, <2>2, <1>4, <1>14
    <3>5. n = 0 BY <3>1, <3>4, <2>2, <1>9, <1>14
    <3> QED BY <3>4, <3>5, <1>8, <1>9
  <2> QED BY <2>1, <2>2
<1>18. ASSUME refs # <<>>, ~IsSkip(refs[1]), refs[1].clock = next PROVE seg # <<>>
  <2>1. EndClock(refs[1]) > next BY <1>14, <1>18
  <2>2. h = refs BY <2>1, <1>2, <1>18
  <2>3. st # <<>> /\ st[1].clock = next BY <2>2, <1>4, <1>18
  <2> QED BY <2>3, <1>9
<1>19. Advanced(refs, src, next, seg, rest, new) BY <1>9, <1>15, <1>16, <1>17, <1>18 DEF Advanced
<1>20. Applied(refs, next) = [run |-> seg, next |-> new, rest |-> rest]
  BY <1>1, <1>3, <1>5, <1>6, <1>7, <1>8 DEF Applied
<1> QED BY <1>19, <1>20

-----------------------------------------------------------------------------
(* The merge of two rows.                                                  *)

\* What the merge holds on its way.
Weaves == [out : Seq(Blocks), next : Nat, left : Seq(Blocks), right : Seq(Blocks)]

\* Parts of the structs of either list.
PartsOfBoth(list, left, right) ==
  \A i \in 1..Len(list) : ~IsSkip(list[i]) =>
    \/ \E j \in 1..Len(left) : Window(list[i], left[j])
    \/ \E j \in 1..Len(right) : Window(list[i], right[j])

\* A Skip at the front of a side is not after `next`.
SkipBehind(refs, next) == refs # <<>> /\ IsSkip(refs[1]) => refs[1].clock <= next

\* What is out is a row up to `next` of what the lists hold there, and the
\* sides hold the rest.
Woven(left, right, w) ==
  /\ w \in Weaves
  /\ Row(w.out, left[1].clock, w.next)
  /\ PartsOfBoth(w.out, left, right)
  /\ \A k \in Nat : k < w.next => (Held(w.out, k) <=> Held(left, k) \/ Held(right, k))
  /\ Covered(w.left, left, w.next) /\ Covered(w.right, right, w.next)
  /\ SkipBehind(w.left, w.next) /\ SkipBehind(w.right, w.next)

\* Structs that are parts of either list, after others.
LEMMA PartsConcat ==
  ASSUME NEW s \in Seq(Blocks), NEW t \in Seq(Blocks), NEW left, NEW right,
         PartsOfBoth(s, left, right), PartsOfBoth(t, left, right)
  PROVE  PartsOfBoth(s \o t, left, right)
<1>1. PICK m \in Nat : m = Len(s) OBVIOUS
<1>2. PICK n \in Nat : n = Len(t) OBVIOUS
<1>3. PICK r : r = s \o t OBVIOUS
<1>4. Len(r) = m + n /\ \A i \in 1..(m + n) : r[i] = IF i <= m THEN s[i] ELSE t[i - m]
  BY <1>1, <1>2, <1>3, ConcatProperties
<1>5. ASSUME NEW i \in 1..(m + n), ~IsSkip(r[i])
      PROVE  \/ \E j \in 1..Len(left) : Window(r[i], left[j])
             \/ \E j \in 1..Len(right) : Window(r[i], right[j])
  <2>1. CASE i <= m
    <3>1. i \in 1..m /\ r[i] = s[i] BY <2>1, <1>4
    <3> QED BY <3>1, <1>1, <1>5 DEF PartsOfBoth
  <2>2. CASE ~(i <= m)
    <3>1. PICK y \in 1..n : y = i - m BY <2>2
    <3>2. r[i] = t[y] BY <3>1, <2>2, <1>4
    <3> QED BY <3>2, <1>2, <1>5 DEF PartsOfBoth
  <2> QED BY <2>1, <2>2
<1> QED BY <1>3, <1>4, <1>5 DEF PartsOfBoth

\* A side that covers a list from `next` on covers it from any later clock on.
LEMMA CoveredLater ==
  ASSUME NEW refs, NEW src, NEW next \in Nat, NEW new \in Nat, next <= new, Covered(refs, src, next)
  PROVE  Covered(refs, src, new) /\ (SkipBehind(refs, next) => SkipBehind(refs, new))
<1>1. \A k \in Nat : k >= new => k >= next OBVIOUS
<1>2. Covered(refs, src, new) BY <1>1 DEF Covered
<1>3. ASSUME SkipBehind(refs, next), refs # <<>>, IsSkip(refs[1]) PROVE refs[1].clock <= new
  <2>1. refs[1] \in Blocks
    <3>1. refs \in Seq(Blocks) BY DEF Covered
    <3> QED BY <3>1, <1>3, HeadAndTail
  <2>2. refs[1].clock \in Nat BY <2>1, BlockBounds
  <2>3. refs[1].clock <= next BY <1>3 DEF SkipBehind
  <2> QED BY <2>2, <2>3
<1> QED BY <1>2, <1>3 DEF SkipBehind

\* What a side gives goes on from what is out.
LEMMA AppliedWoven ==
  ASSUME NEW left \in Seq(Blocks), NEW right \in Seq(Blocks), NEW w, Woven(left, right, w),
         NEW src, src = left \/ src = right, NEW refs, NEW seg, NEW rest, NEW new,
         Advanced(refs, src, w.next, seg, rest, new)
  PROVE  /\ w.out \o seg \in Seq(Blocks) /\ Row(w.out \o seg, left[1].clock, new)
         /\ PartsOfBoth(w.out \o seg, left, right)
         /\ \A k \in Nat : k < new => (Held(w.out \o seg, k) <=> Held(left, k) \/ Held(right, k))
<1>1. w.next \in Nat /\ w.out \in Seq(Blocks) BY DEF Woven, Weaves
<1>2. new \in Nat /\ w.next <= new /\ Row(seg, w.next, new) BY DEF Advanced
<1>3. Row(w.out, left[1].clock, w.next) BY DEF Woven
<1>4. PICK o : o = w.out \o seg OBVIOUS
<1>5. Row(o, left[1].clock, new) /\ \A k : Held(o, k) <=> Held(w.out, k) \/ Held(seg, k)
  BY <1>2, <1>3, <1>4, RowConcat
<1>6. o \in Seq(Blocks) /\ seg \in Seq(Blocks) BY <1>2, <1>5 DEF Row
<1>7. PartsOfBoth(o, left, right)
  <2>1. PartsOfBoth(seg, left, right) BY DEF Advanced, Parts, PartsOfBoth
  <2> QED BY <2>1, <1>1, <1>4, <1>6, PartsConcat DEF Woven
<1>8. ASSUME NEW k \in Nat, k < new PROVE Held(o, k) <=> Held(left, k) \/ Held(right, k)
  <2>1. CASE k < w.next
    <3>1. ~Held(seg, k)
      <4>1. SUFFICES ASSUME Held(seg, k) PROVE FALSE OBVIOUS
      <4>2. w.next <= k BY <4>1, <1>2, RowHeld
      <4> QED BY <4>2, <2>1, <1>1
    <3> QED BY <3>1, <2>1, <1>5 DEF Woven
  <2>2. CASE ~(k < w.next)
    <3>1. w.next <= k BY <2>2, <1>1
    <3>2. Held(seg, k) /\ Held(src, k) BY <3>1, <1>8 DEF Advanced
    <3> QED BY <3>2, <1>5
  <2> QED BY <2>1, <2>2
<1> QED BY <1>4, <1>5, <1>6, <1>7, <1>8

\* Applying the left side keeps the merge woven.
LEMMA ApplyLeftWoven ==
  ASSUME NEW left \in Seq(Blocks), NEW right \in Seq(Blocks), NEW w, Woven(left, right, w)
  PROVE  \E seg : /\ Advanced(w.left, left, w.next, seg, ApplyLeft(w).left, ApplyLeft(w).next)
                  /\ ApplyLeft(w).out = w.out \o seg /\ ApplyLeft(w).right = w.right
                  /\ Woven(left, right, ApplyLeft(w))
<1>1. w \in Weaves /\ w.next \in Nat /\ Covered(w.left, left, w.next) /\ Covered(w.right, right, w.next)
  BY DEF Woven, Weaves
<1>2. PICK a : a = Applied(w.left, w.next) OBVIOUS
<1>3. Advanced(w.left, left, w.next, a.run, a.rest, a.next) BY <1>1, <1>2, ApplyAdvances
<1>4. PICK v : v = ApplyLeft(w) OBVIOUS
<1>5. v = [out |-> w.out \o a.run, next |-> a.next, left |-> a.rest, right |-> w.right]
  BY <1>1, <1>2, <1>4 DEF ApplyLeft, Weaves
<1>6. v.out = w.out \o a.run /\ v.next = a.next /\ v.left = a.rest /\ v.right = w.right BY <1>5
<1>7. /\ v.out \in Seq(Blocks) /\ Row(v.out, left[1].clock, v.next)
      /\ PartsOfBoth(v.out, left, right)
      /\ \A k \in Nat : k < v.next => (Held(v.out, k) <=> Held(left, k) \/ Held(right, k))
  <2>1. /\ w.out \o a.run \in Seq(Blocks) /\ Row(w.out \o a.run, left[1].clock, a.next)
        /\ PartsOfBoth(w.out \o a.run, left, right)
        /\ \A k \in Nat : k < a.next => (Held(w.out \o a.run, k) <=> Held(left, k) \/ Held(right, k))
    BY <1>3, AppliedWoven
  <2> QED BY <2>1, <1>6
<1>8. a.next \in Nat /\ w.next <= a.next /\ Covered(a.rest, left, a.next) /\ Beyond(a.rest, a.next)
  BY <1>3 DEF Advanced
<1>9. Covered(w.right, right, a.next) /\ SkipBehind(w.right, a.next)
  BY <1>1, <1>8, CoveredLater DEF Woven
<1>10. SkipBehind(a.rest, a.next) BY <1>8 DEF Beyond, SkipBehind
<1>11. a.rest \in Seq(Blocks) /\ w.right \in Seq(Blocks) BY <1>8, <1>9 DEF Covered
<1>12. v \in Weaves BY <1>5, <1>6, <1>7, <1>8, <1>11 DEF Weaves
<1>13. Woven(left, right, v) BY <1>6, <1>7, <1>8, <1>9, <1>10, <1>12 DEF Woven
<1> QED BY <1>3, <1>4, <1>6, <1>13

\* So does applying the right side.
LEMMA ApplyRightWoven ==
  ASSUME NEW left \in Seq(Blocks), NEW right \in Seq(Blocks), NEW w, Woven(left, right, w)
  PROVE  \E seg : /\ Advanced(w.right, right, w.next, seg, ApplyRight(w).right, ApplyRight(w).next)
                  /\ ApplyRight(w).out = w.out \o seg /\ ApplyRight(w).left = w.left
                  /\ Woven(left, right, ApplyRight(w))
<1>1. w \in Weaves /\ w.next \in Nat /\ Covered(w.left, left, w.next) /\ Covered(w.right, right, w.next)
  BY DEF Woven, Weaves
<1>2. PICK a : a = Applied(w.right, w.next) OBVIOUS
<1>3. Advanced(w.right, right, w.next, a.run, a.rest, a.next) BY <1>1, <1>2, ApplyAdvances
<1>4. PICK v : v = ApplyRight(w) OBVIOUS
<1>5. v = [out |-> w.out \o a.run, next |-> a.next, left |-> w.left, right |-> a.rest]
  BY <1>1, <1>2, <1>4 DEF ApplyRight, Weaves
<1>6. v.out = w.out \o a.run /\ v.next = a.next /\ v.left = w.left /\ v.right = a.rest BY <1>5
<1>7. /\ v.out \in Seq(Blocks) /\ Row(v.out, left[1].clock, v.next)
      /\ PartsOfBoth(v.out, left, right)
      /\ \A k \in Nat : k < v.next => (Held(v.out, k) <=> Held(left, k) \/ Held(right, k))
  <2>1. /\ w.out \o a.run \in Seq(Blocks) /\ Row(w.out \o a.run, left[1].clock, a.next)
        /\ PartsOfBoth(w.out \o a.run, left, right)
        /\ \A k \in Nat : k < a.next => (Held(w.out \o a.run, k) <=> Held(left, k) \/ Held(right, k))
    BY <1>3, AppliedWoven
  <2> QED BY <2>1, <1>6
<1>8. a.next \in Nat /\ w.next <= a.next /\ Covered(a.rest, right, a.next) /\ Beyond(a.rest, a.next)
  BY <1>3 DEF Advanced
<1>9. Covered(w.left, left, a.next) /\ SkipBehind(w.left, a.next)
  BY <1>1, <1>8, CoveredLater DEF Woven
<1>10. SkipBehind(a.rest, a.next) BY <1>8 DEF Beyond, SkipBehind
<1>11. a.rest \in Seq(Blocks) /\ w.left \in Seq(Blocks) BY <1>8, <1>9 DEF Covered
<1>12. v \in Weaves BY <1>5, <1>6, <1>7, <1>8, <1>11 DEF Weaves
<1>13. Woven(left, right, v) BY <1>6, <1>7, <1>8, <1>9, <1>10, <1>12 DEF Woven
<1> QED BY <1>3, <1>4, <1>6, <1>13

\* A struct without payload covers the clocks asked for.
LEMMA BlankIs ==
  ASSUME NEW kind \in {"gc", "skip"}, NEW from \in Nat, NEW to \in Nat, from < to, to <= Top
  PROVE  LET b == NewBlank(kind, Client, from, to - from)
         IN b \in Blocks /\ b.clock = from /\ EndClock(b) = to /\ b.kind = kind
<1>1. PICK n \in Nat : n = to - from /\ n # 0 OBVIOUS
<1>2. PICK e : e = [i \in 1..n |-> Blank] OBVIOUS
<1>3. Blank \in Contents BY ClientStructsAssumption
<1>4. e \in Seq(Contents) /\ Len(e) = n BY <1>2, <1>3
<1>5. PICK b : b = NewBlank(kind, Client, from, to - from) OBVIOUS
<1>6. b = [client |-> Client, clock |-> from, kind |-> kind, els |-> e, origin |-> NoId, right |-> NoId, raw |-> "none"]
  BY <1>1, <1>2, <1>5 DEF NewBlank
<1>7. Top \in Nat BY RangeSetAssumption, WidthAssumption
<1>8. from \in 0..Top BY <1>7
<1>9. NoId \in References BY DEF References
<1>10. b \in Structs BY <1>4, <1>6, <1>8, <1>9 DEF Structs
<1>11. b.clock = from /\ b.els = e /\ b.kind = kind BY <1>6
<1>12. EndClock(b) = to BY <1>1, <1>4, <1>11 DEF EndClock
<1>13. b.els # <<>> BY <1>1, <1>4, <1>11
<1> QED BY <1>5, <1>10, <1>11, <1>12, <1>13 DEF Blocks

\* A side goes on exactly at `next`.
At(refs, next) == refs # <<>> /\ ~IsSkip(refs[1]) /\ refs[1].clock = next

\* Neither the first nor the last struct is a Skip.
Solid(out) == out # <<>> /\ ~IsSkip(out[1]) /\ ~IsSkip(out[Len(out)])

\* Structs that are not Skips after what is out.
LEMMA SolidConcat ==
  ASSUME NEW s \in Seq(Blocks), NEW t \in Seq(Blocks), s # <<>> => ~IsSkip(s[1]),
         \A i \in 1..Len(t) : ~IsSkip(t[i]), t # <<>> \/ Solid(s)
  PROVE  Solid(s \o t) /\ s \o t # <<>>
<1>1. PICK m \in Nat : m = Len(s) OBVIOUS
<1>2. PICK n \in Nat : n = Len(t) OBVIOUS
<1>3. PICK r : r = s \o t OBVIOUS
<1>4. r \in Seq(Blocks) /\ Len(r) = m + n /\ \A i \in 1..(m + n) : r[i] = IF i <= m THEN s[i] ELSE t[i - m]
  BY <1>1, <1>2, <1>3, ConcatProperties
<1>5. (m # 0 <=> s # <<>>) /\ (n # 0 <=> t # <<>>) BY <1>1, <1>2
<1>6. m + n # 0 BY <1>5 DEF Solid
<1>7. r # <<>> BY <1>4, <1>6
<1>8. ~IsSkip(r[1])
  <2>1. 1 \in 1..(m + n) BY <1>6
  <2>2. CASE m # 0
    <3>1. r[1] = s[1] BY <2>1, <2>2, <1>4
    <3> QED BY <3>1, <2>2, <1>5
  <2>3. CASE m = 0
    <3>1. r[1] = t[1 - m] /\ 1 - m = 1 BY <2>1, <2>3, <1>4
    <3>2. 1 \in 1..n BY <2>3, <1>6
    <3> QED BY <3>1, <3>2, <1>2
  <2> QED BY <2>2, <2>3
<1>9. ~IsSkip(r[m + n])
  <2>1. m + n \in 1..(m + n) BY <1>6
  <2>2. CASE n # 0
    <3>1. ~(m + n <= m) /\ m + n - m = n /\ n \in 1..n BY <2>2
    <3>2. r[m + n] = t[n] BY <3>1, <2>1, <1>4
    <3> QED BY <3>1, <3>2, <1>2
  <2>3. CASE n = 0
    <3>1. m + n = m /\ m <= m BY <2>3
    <3>2. r[m] = s[m] BY <3>1, <2>1, <1>4
    <3>3. ~IsSkip(s[m]) BY <2>3, <1>1, <1>5 DEF Solid
    <3> QED BY <3>1, <3>2, <3>3
  <2> QED BY <2>2, <2>3
<1> QED BY <1>3, <1>4, <1>7, <1>8, <1>9 DEF Solid

\* What a merge has to keep after a round.
Standing(left, right, w) ==
  /\ Woven(left, right, w)
  /\ w.out # <<>> => ~IsSkip(w.out[1])
  /\ w.out = <<>> => At(w.left, w.next)
  /\ w.out # <<>> /\ IsSkip(w.out[Len(w.out)]) => At(w.left, w.next) \/ At(w.right, w.next)

\* The clocks of a side that starts at or after a clock.
LEMMA NotHeldBefore ==
  ASSUME NEW refs, NEW src, NEW next \in Nat, Covered(refs, src, next), NEW clock \in Nat,
         refs # <<>> => refs[1].clock >= clock, NEW k \in Nat, k >= next, k < clock
  PROVE  ~Held(src, k)
<1>1. SUFFICES ASSUME Held(refs, k) PROVE FALSE BY DEF Covered
<1>2. PICK f, t : Row(refs, f, t) BY DEF Covered
<1>3. f <= k /\ f \in Nat BY <1>1, <1>2, RowHeld DEF Row
<1>4. refs # <<>> BY <1>1, RowOfNone
<1>5. refs[1].clock = f BY <1>2, <1>4 DEF Row
<1> QED BY <1>3, <1>4, <1>5

\* A Skip up to where a side goes on.
LEMMA SkipToStanding ==
  ASSUME NEW left \in Seq(Blocks), NEW right \in Seq(Blocks), NEW w, Woven(left, right, w), Solid(w.out),
         NEW clock \in Nat, clock > w.next, clock <= Top,
         w.left # <<>> => w.left[1].clock >= clock,
         w.right # <<>> => w.right[1].clock >= clock,
         At(w.left, clock) \/ At(w.right, clock)
  PROVE  LET v == SkipTo(Client, w, clock)
         IN /\ Standing(left, right, v) /\ v.left = w.left /\ v.right = w.right
            /\ Ready(v.left, v.next) \/ Ready(v.right, v.next)
<1>1. /\ w \in Weaves /\ w.next \in Nat /\ w.out \in Seq(Blocks)
      /\ Covered(w.left, left, w.next) /\ Covered(w.right, right, w.next)
  BY DEF Woven, Weaves
<1>2. PICK b : b = NewBlank("skip", Client, w.next, clock - w.next) OBVIOUS
<1>3. b \in Blocks /\ b.clock = w.next /\ EndClock(b) = clock /\ b.kind = "skip" BY <1>1, <1>2, BlankIs
<1>4. PICK v : v = SkipTo(Client, w, clock) OBVIOUS
<1>5. PICK o : o = Append(w.out, b) OBVIOUS
<1>6. v = [out |-> o, next |-> clock, left |-> w.left, right |-> w.right]
  BY <1>1, <1>2, <1>4, <1>5 DEF SkipTo, Weaves
<1>7. v.out = o /\ v.next = clock /\ v.left = w.left /\ v.right = w.right BY <1>6
<1>8. o = w.out \o <<b>> BY <1>1, <1>3, <1>5, AppendIsConcat
<1>9. <<b>> \in Seq(Blocks) /\ Row(<<b>>, w.next, clock) /\ \A k : ~Held(<<b>>, k)
  BY <1>3, RowOfOne DEF IsSkip
<1>10. Row(w.out, left[1].clock, w.next) BY DEF Woven
<1>11. Row(o, left[1].clock, clock) /\ \A k : Held(o, k) <=> Held(w.out, k)
  BY <1>8, <1>9, <1>10, RowConcat
<1>12. o \in Seq(Blocks) BY <1>11 DEF Row
<1>13. PartsOfBoth(o, left, right)
  <2>1. \A i \in 1..Len(<<b>>) : <<b>>[i] = b OBVIOUS
  <2>2. PartsOfBoth(<<b>>, left, right) BY <2>1, <1>3 DEF PartsOfBoth, IsSkip
  <2> QED BY <2>2, <1>1, <1>8, <1>9, PartsConcat DEF Woven
<1>14. ASSUME NEW k \in Nat, k < clock PROVE Held(o, k) <=> Held(left, k) \/ Held(right, k)
  <2>1. CASE k < w.next BY <2>1, <1>11 DEF Woven
  <2>2. CASE ~(k < w.next)
    <3>1. k >= w.next BY <2>2, <1>1
    <3>2. ~Held(left, k) BY <3>1, <1>1, <1>14, NotHeldBefore
    <3>3. ~Held(right, k) BY <3>1, <1>1, <1>14, NotHeldBefore
    <3>4. ~Held(w.out, k)
      <4>1. SUFFICES ASSUME Held(w.out, k) PROVE FALSE OBVIOUS
      <4>2. k < w.next BY <4>1, <1>10, RowHeld
      <4> QED BY <4>2, <2>2
    <3> QED BY <3>2, <3>3, <3>4, <1>11
  <2> QED BY <2>1, <2>2
<1>15. /\ Covered(w.left, left, clock) /\ SkipBehind(w.left, clock)
       /\ Covered(w.right, right, clock) /\ SkipBehind(w.right, clock)
  <2>1. w.next <= clock BY <1>1
  <2> QED BY <2>1, <1>1, CoveredLater DEF Woven
<1>16. v \in Weaves
  <2>1. w.left \in Seq(Blocks) /\ w.right \in Seq(Blocks) BY <1>1 DEF Weaves
  <2> QED BY <2>1, <1>6, <1>12 DEF Weaves
<1>17. Woven(left, right, v) BY <1>7, <1>11, <1>13, <1>14, <1>15, <1>16 DEF Woven
<1>18. o # <<>> /\ o[1] = w.out[1]
  <2>1. w.out # <<>> /\ 1 \in 1..Len(w.out) BY <1>1, HeadAndTail DEF Solid
  <2> QED BY <2>1, <1>1, <1>3, <1>5, AppendProperties
<1>19. Standing(left, right, v) BY <1>7, <1>17, <1>18 DEF Standing, Solid
<1>20. Ready(v.left, v.next) \/ Ready(v.right, v.next)
  <2>1. clock <= clock OBVIOUS
  <2> QED BY <2>1, <1>7 DEF Ready, At
<1> QED BY <1>4, <1>7, <1>19, <1>20

\* The bridge after both sides were applied.
LEMMA BridgedStanding ==
  ASSUME NEW left \in Seq(Blocks), NEW right \in Seq(Blocks), NEW w, Woven(left, right, w), Solid(w.out),
         NEW both \in BOOLEAN
  PROVE  LET v == Bridged(Client, w, both)
         IN /\ Standing(left, right, v) /\ v.left = w.left /\ v.right = w.right
            /\ (w.left # <<>> \/ w.right # <<>>) /\ ~(both /\ (w.left = <<>> \/ w.right = <<>>)) =>
                 Ready(v.left, v.next) \/ Ready(v.right, v.next)
<1>1. Standing(left, right, w) BY DEF Standing, Solid
<1>2. w \in Weaves /\ w.next \in Nat /\ w.left \in Seq(Blocks) /\ w.right \in Seq(Blocks) BY DEF Woven, Weaves
<1>3. PICK v : v = Bridged(Client, w, both) OBVIOUS
<1>4. CASE (w.left = <<>> /\ w.right = <<>>) \/ (both /\ (w.left = <<>> \/ w.right = <<>>))
  <2>1. v = w BY <1>3, <1>4 DEF Bridged, Bridge
  <2> QED BY <2>1, <1>1, <1>3, <1>4
<1>5. CASE ~((w.left = <<>> /\ w.right = <<>>) \/ (both /\ (w.left = <<>> \/ w.right = <<>>)))
  <2> DEFINE M == {Head(refs).clock : refs \in {w.left, w.right} \ {<<>>}}
  <2>1. v = SkipTo(Client, w, Min(M)) BY <1>3, <1>5 DEF Bridged, Bridge
  <2>2. ASSUME NEW refs \in {w.left, w.right}, refs # <<>>
        PROVE  Head(refs) = refs[1] /\ refs[1] \in Blocks /\ refs[1].clock \in Nat /\ refs[1].clock <= Top
    <3>1. refs \in Seq(Blocks) BY <1>2
    <3>2. Head(refs) = refs[1] /\ refs[1] \in Blocks BY <3>1, <2>2, HeadAndTail
    <3>3. refs[1].clock \in Nat /\ refs[1].clock < EndClock(refs[1]) /\ EndClock(refs[1]) <= Top
          /\ EndClock(refs[1]) \in Nat /\ Top \in Nat
      BY <3>2, BlockBounds
    <3> QED BY <3>2, <3>3
  <2>3. M \in SUBSET Nat /\ M # {}
    <3>1. ASSUME NEW x \in M PROVE x \in Nat
      <4>1. PICK refs \in {w.left, w.right} \ {<<>>} : x = Head(refs).clock OBVIOUS
      <4> QED BY <4>1, <2>2
    <3>2. PICK refs \in {w.left, w.right} \ {<<>>} : TRUE BY <1>5
    <3>3. Head(refs).clock \in M OBVIOUS
    <3> QED BY <3>1, <3>3
  <2>4. PICK m \in M : m = Min(M) /\ \A y \in M : m <= y BY <2>3, MinIs
  <2>5. PICK refs \in {w.left, w.right} \ {<<>>} : m = Head(refs).clock BY <2>4
  <2>6. refs[1] \in Blocks /\ m = refs[1].clock /\ m \in Nat /\ m <= Top /\ refs # <<>> BY <2>2, <2>5
  <2>7. w.left # <<>> => w.left[1].clock \in Nat /\ w.left[1].clock >= m
    <3>1. ASSUME w.left # <<>> PROVE w.left[1].clock \in Nat /\ w.left[1].clock >= m
      <4>1. w.left[1].clock \in Nat /\ Head(w.left) = w.left[1] BY <3>1, <2>2
      <4>2. Head(w.left).clock \in M BY <3>1
      <4>3. m <= w.left[1].clock BY <4>1, <4>2, <2>4
      <4> QED BY <4>1, <4>3, <2>6
    <3> QED BY <3>1
  <2>8. w.right # <<>> => w.right[1].clock \in Nat /\ w.right[1].clock >= m
    <3>1. ASSUME w.right # <<>> PROVE w.right[1].clock \in Nat /\ w.right[1].clock >= m
      <4>1. w.right[1].clock \in Nat /\ Head(w.right) = w.right[1] BY <3>1, <2>2
      <4>2. Head(w.right).clock \in M BY <3>1
      <4>3. m <= w.right[1].clock BY <4>1, <4>2, <2>4
      <4> QED BY <4>1, <4>3, <2>6
    <3> QED BY <3>1
  <2>9. v = SkipTo(Client, w, m) BY <2>1, <2>4
  <2> HIDE DEF M
  <2>10. refs = w.left \/ refs = w.right BY <2>5
  <2>11. CASE m > w.next
    <3>1. ~IsSkip(refs[1])
      <4>1. SkipBehind(refs, w.next) BY <2>10 DEF Woven
      <4> QED BY <4>1, <2>6, <2>11, <1>2 DEF SkipBehind
    <3>2. At(w.left, m) \/ At(w.right, m) BY <3>1, <2>6, <2>10 DEF At
    <3>3. /\ Standing(left, right, v) /\ v.left = w.left /\ v.right = w.right
          /\ Ready(v.left, v.next) \/ Ready(v.right, v.next)
      BY <3>2, <2>6, <2>7, <2>8, <2>9, <2>11, SkipToStanding
    <3> QED BY <3>3, <1>3
  <2>12. CASE ~(m > w.next)
    <3>1. v = w BY <2>9, <2>12 DEF SkipTo
    <3>2. refs[1].clock <= w.next BY <2>6, <2>12, <1>2
    <3>3. Ready(w.left, w.next) \/ Ready(w.right, w.next) BY <3>2, <2>6, <2>10 DEF Ready
    <3> QED BY <3>1, <3>3, <1>1, <1>3
  <2> QED BY <2>11, <2>12
<1> QED BY <1>4, <1>5

\* The sizes of the sides after a round: they have become smaller, or a side
\* has become ready that was not.
Shrunk(w, v) ==
  \/ Len(v.left) + Len(v.right) < Len(w.left) + Len(w.right)
  \/ /\ Len(v.left) + Len(v.right) = Len(w.left) + Len(w.right)
     /\ ~Ready(w.left, w.next) /\ ~Ready(w.right, w.next)
     /\ Ready(v.left, v.next) \/ Ready(v.right, v.next)

\* What a side gives goes out; if it had to go on at `next`, it did.
LEMMA AdvancedSolid ==
  ASSUME NEW out \in Seq(Blocks), NEW refs, NEW src, NEW next, NEW seg, NEW rest, NEW new,
         Advanced(refs, src, next, seg, rest, new), out # <<>> => ~IsSkip(out[1])
  PROVE  /\ At(refs, next) \/ Solid(out) => Solid(out \o seg)
         /\ out \o seg # <<>> => ~IsSkip((out \o seg)[1])
         /\ ~Solid(out \o seg) => out \o seg = out /\ new = next
<1>1. seg \in Seq(Blocks) /\ (\A i \in 1..Len(seg) : ~IsSkip(seg[i])) BY DEF Advanced, Row
<1>2. At(refs, next) => seg # <<>> BY DEF Advanced, At
<1>3. seg # <<>> \/ Solid(out) => Solid(out \o seg) BY <1>1, SolidConcat
<1>4. seg = <<>> => out \o seg = out BY ConcatEmptySeq
<1>5. seg = <<>> => new = next BY DEF Advanced, Row
<1>6. Solid(out \o seg) => ~IsSkip((out \o seg)[1]) BY DEF Solid
<1> QED BY <1>2, <1>3, <1>4, <1>5, <1>6

\* The length of a side that was applied.
LEMMA AdvancedLen ==
  ASSUME NEW refs \in Seq(Blocks), NEW src, NEW next, NEW seg, NEW rest, NEW new,
         Advanced(refs, src, next, seg, rest, new)
  PROVE  /\ Len(rest) \in Nat /\ Len(refs) \in Nat /\ Len(rest) <= Len(refs)
         /\ Ready(refs, next) => Len(rest) < Len(refs)
         /\ ~Ready(refs, next) => rest = refs /\ new = next
<1>1. rest \in Seq(Blocks) BY DEF Advanced, Covered
<1> QED BY <1>1 DEF Advanced

\* A sum of which one part is smaller and none is greater.
LEMMA SmallerSum ==
  ASSUME NEW a \in Nat, NEW b \in Nat, NEW c \in Nat, NEW d \in Nat, a <= c, b <= d, a < c \/ b < d
  PROVE  a + b < c + d
OBVIOUS

\* A round keeps the merge standing and gets closer to its end.
LEMMA RoundStanding ==
  ASSUME NEW left \in Seq(Blocks), NEW right \in Seq(Blocks), NEW w, Standing(left, right, w)
  PROVE  /\ Standing(left, right, Round(Client, w))
         /\ w.left = <<>> /\ w.right = <<>> => Round(Client, w) = w
         /\ w.left # <<>> \/ w.right # <<>> => Shrunk(w, Round(Client, w))
<1>1. Woven(left, right, w) /\ (w.out # <<>> => ~IsSkip(w.out[1])) BY DEF Standing
<1>2. /\ w \in Weaves /\ w.next \in Nat /\ w.left \in Seq(Blocks) /\ w.right \in Seq(Blocks)
      /\ w.out \in Seq(Blocks)
  BY <1>1 DEF Woven, Weaves
<1>3. Solid(w.out) \/ At(w.left, w.next) \/ At(w.right, w.next) BY DEF Standing, Solid
<1>4. PICK v : v = Round(Client, w) OBVIOUS
<1>5. CASE w.left = <<>> /\ w.right = <<>>
  <2>1. v = w BY <1>4, <1>5 DEF Round
  <2> QED BY <2>1, <1>4, <1>5
<1>6. CASE w.left = <<>> /\ w.right # <<>>
  <2>1. PICK u : u = ApplyRight(w) OBVIOUS
  <2>2. v = Bridged(Client, u, FALSE) BY <2>1, <1>4, <1>6 DEF Round
  <2>3. PICK seg : /\ Advanced(w.right, right, w.next, seg, u.right, u.next)
                   /\ u.out = w.out \o seg /\ u.left = w.left /\ Woven(left, right, u)
    <3>1. \E seg : /\ Advanced(w.right, right, w.next, seg, ApplyRight(w).right, ApplyRight(w).next)
                   /\ ApplyRight(w).out = w.out \o seg /\ ApplyRight(w).left = w.left
                   /\ Woven(left, right, ApplyRight(w))
      BY <1>1, ApplyRightWoven
    <3> QED BY <3>1, <2>1
  <2>4. Solid(u.out)
    <3>1. At(w.right, w.next) \/ Solid(w.out) BY <1>3, <1>6 DEF At
    <3> QED BY <3>1, <2>3, <1>1, <1>2, AdvancedSolid
  <2>5. /\ Standing(left, right, v) /\ v.left = u.left /\ v.right = u.right
        /\ u.right # <<>> => Ready(v.left, v.next) \/ Ready(v.right, v.next)
    BY <2>2, <2>3, <2>4, BridgedStanding
  <2>6. /\ Len(u.right) \in Nat /\ Len(w.right) \in Nat /\ Len(u.right) <= Len(w.right)
        /\ Ready(w.right, w.next) => Len(u.right) < Len(w.right)
        /\ ~Ready(w.right, w.next) => u.right = w.right
    BY <2>3, <1>2, AdvancedLen
  <2>7. Shrunk(w, v)
    <3>1. Len(v.left) = Len(w.left) /\ Len(w.left) \in Nat BY <2>3, <2>5, <1>2
    <3>2. CASE Ready(w.right, w.next)
      <4>1. Len(v.left) + Len(v.right) < Len(w.left) + Len(w.right)
        <5>1. /\ Len(v.left) \in Nat /\ Len(v.right) \in Nat /\ Len(w.left) \in Nat /\ Len(w.right) \in Nat
              /\ Len(v.left) <= Len(w.left) /\ Len(v.right) <= Len(w.right)
              /\ Len(v.left) < Len(w.left) \/ Len(v.right) < Len(w.right)
          BY <3>1, <3>2, <2>5, <2>6
        <5> QED BY <5>1, SmallerSum
      <4> QED BY <4>1 DEF Shrunk
    <3>3. CASE ~Ready(w.right, w.next)
      <4>1. ~Ready(w.left, w.next) BY <1>6 DEF Ready
      <4>2. v.right = w.right /\ v.left = w.left BY <3>3, <2>3, <2>5, <2>6
      <4>3. Ready(v.left, v.next) \/ Ready(v.right, v.next) BY <3>3, <2>5, <2>6, <1>6
      <4> QED BY <4>1, <4>2, <4>3, <3>3 DEF Shrunk
    <3> QED BY <3>2, <3>3
  <2> QED BY <2>5, <2>7, <1>4, <1>6
<1>7. CASE w.left # <<>> /\ w.right = <<>>
  <2>1. PICK u : u = ApplyLeft(w) OBVIOUS
  <2>2. v = Bridged(Client, u, FALSE) BY <2>1, <1>4, <1>7 DEF Round
  <2>3. PICK seg : /\ Advanced(w.left, left, w.next, seg, u.left, u.next)
                   /\ u.out = w.out \o seg /\ u.right = w.right /\ Woven(left, right, u)
    <3>1. \E seg : /\ Advanced(w.left, left, w.next, seg, ApplyLeft(w).left, ApplyLeft(w).next)
                   /\ ApplyLeft(w).out = w.out \o seg /\ ApplyLeft(w).right = w.right
                   /\ Woven(left, right, ApplyLeft(w))
      BY <1>1, ApplyLeftWoven
    <3> QED BY <3>1, <2>1
  <2>4. Solid(u.out)
    <3>1. At(w.left, w.next) \/ Solid(w.out) BY <1>3, <1>7 DEF At
    <3> QED BY <3>1, <2>3, <1>1, <1>2, AdvancedSolid
  <2>5. /\ Standing(left, right, v) /\ v.left = u.left /\ v.right = u.right
        /\ u.left # <<>> => Ready(v.left, v.next) \/ Ready(v.right, v.next)
    BY <2>2, <2>3, <2>4, BridgedStanding
  <2>6. /\ Len(u.left) \in Nat /\ Len(w.left) \in Nat /\ Len(u.left) <= Len(w.left)
        /\ Ready(w.left, w.next) => Len(u.left) < Len(w.left)
        /\ ~Ready(w.left, w.next) => u.left = w.left
    BY <2>3, <1>2, AdvancedLen
  <2>7. Shrunk(w, v)
    <3>1. Len(v.right) = Len(w.right) /\ Len(w.right) \in Nat BY <2>3, <2>5, <1>2
    <3>2. CASE Ready(w.left, w.next)
      <4>1. Len(v.left) + Len(v.right) < Len(w.left) + Len(w.right)
        <5>1. /\ Len(v.left) \in Nat /\ Len(v.right) \in Nat /\ Len(w.left) \in Nat /\ Len(w.right) \in Nat
              /\ Len(v.left) <= Len(w.left) /\ Len(v.right) <= Len(w.right)
              /\ Len(v.left) < Len(w.left) \/ Len(v.right) < Len(w.right)
          BY <3>1, <3>2, <2>5, <2>6
        <5> QED BY <5>1, SmallerSum
      <4> QED BY <4>1 DEF Shrunk
    <3>3. CASE ~Ready(w.left, w.next)
      <4>1. ~Ready(w.right, w.next) BY <1>7 DEF Ready
      <4>2. v.right = w.right /\ v.left = w.left BY <3>3, <2>3, <2>5, <2>6
      <4>3. Ready(v.left, v.next) \/ Ready(v.right, v.next) BY <3>3, <2>5, <2>6, <1>7
      <4> QED BY <4>1, <4>2, <4>3, <3>3 DEF Shrunk
    <3> QED BY <3>2, <3>3
  <2> QED BY <2>5, <2>7, <1>4, <1>7
<1>8. CASE w.left # <<>> /\ w.right # <<>>
  <2>1. PICK t : t = ApplyLeft(w) OBVIOUS
  <2>2. PICK u : u = ApplyRight(t) OBVIOUS
  <2>3. v = Bridged(Client, u, TRUE) BY <2>1, <2>2, <1>4, <1>8 DEF Round
  <2>4. PICK seg : /\ Advanced(w.left, left, w.next, seg, t.left, t.next)
                   /\ t.out = w.out \o seg /\ t.right = w.right /\ Woven(left, right, t)
    <3>1. \E seg : /\ Advanced(w.left, left, w.next, seg, ApplyLeft(w).left, ApplyLeft(w).next)
                   /\ ApplyLeft(w).out = w.out \o seg /\ ApplyLeft(w).right = w.right
                   /\ Woven(left, right, ApplyLeft(w))
      BY <1>1, ApplyLeftWoven
    <3> QED BY <3>1, <2>1
  <2>5. PICK more : /\ Advanced(t.right, right, t.next, more, u.right, u.next)
                    /\ u.out = t.out \o more /\ u.left = t.left /\ Woven(left, right, u)
    <3>1. \E more : /\ Advanced(t.right, right, t.next, more, ApplyRight(t).right, ApplyRight(t).next)
                    /\ ApplyRight(t).out = t.out \o more /\ ApplyRight(t).left = t.left
                    /\ Woven(left, right, ApplyRight(t))
      <4>1. Woven(left, right, t) BY <2>4
      <4> QED BY <4>1, ApplyRightWoven
    <3> QED BY <3>1, <2>2
  <2>6. t.out \in Seq(Blocks) /\ t.next \in Nat /\ w.next <= t.next BY <2>4 DEF Woven, Weaves, Advanced
  <2>7. /\ At(w.left, w.next) \/ Solid(w.out) => Solid(t.out)
        /\ t.out # <<>> => ~IsSkip(t.out[1])
        /\ ~Solid(t.out) => t.next = w.next
    BY <2>4, <1>1, <1>2, AdvancedSolid
  <2>8. At(t.right, t.next) \/ Solid(t.out) => Solid(u.out) BY <2>5, <2>6, <2>7, AdvancedSolid
  <2>9. Solid(u.out)
    <3>1. CASE Solid(t.out) BY <3>1, <2>8
    <3>2. CASE ~Solid(t.out)
      <4>1. At(w.right, w.next) /\ t.next = w.next BY <3>2, <2>7, <1>3
      <4> QED BY <4>1, <2>4, <2>8
    <3> QED BY <3>1, <3>2
  <2>10. /\ Standing(left, right, v) /\ v.left = u.left /\ v.right = u.right
         /\ u.left # <<>> /\ u.right # <<>> => Ready(v.left, v.next) \/ Ready(v.right, v.next)
    BY <2>3, <2>5, <2>9, BridgedStanding
  <2>11. /\ Len(t.left) \in Nat /\ Len(w.left) \in Nat /\ Len(t.left) <= Len(w.left)
         /\ Ready(w.left, w.next) => Len(t.left) < Len(w.left)
         /\ ~Ready(w.left, w.next) => t.left = w.left /\ t.next = w.next
    BY <2>4, <1>2, AdvancedLen
  <2>12. /\ Len(u.right) \in Nat /\ Len(w.right) \in Nat /\ Len(u.right) <= Len(w.right)
         /\ Ready(w.right, t.next) => Len(u.right) < Len(w.right)
         /\ ~Ready(w.right, t.next) => u.right = w.right
    BY <2>4, <2>5, <1>2, AdvancedLen
  <2>13. Ready(w.right, w.next) => Ready(w.right, t.next)
    <3>1. w.right[1] \in Blocks BY <1>2, <1>8, HeadAndTail
    <3>2. w.right[1].clock \in Nat BY <3>1, BlockBounds
    <3>3. w.right[1].clock <= w.next => w.right[1].clock <= t.next BY <3>2, <2>6, <1>2
    <3> QED BY <3>3 DEF Ready
  <2>14. Shrunk(w, v)
    <3>1. Len(v.left) = Len(t.left) /\ Len(v.right) = Len(u.right) BY <2>5, <2>10
    <3>2. CASE Ready(w.left, w.next)
      <4>1. Len(v.left) + Len(v.right) < Len(w.left) + Len(w.right)
        <5>1. /\ Len(v.left) \in Nat /\ Len(v.right) \in Nat /\ Len(w.left) \in Nat /\ Len(w.right) \in Nat
              /\ Len(v.left) <= Len(w.left) /\ Len(v.right) <= Len(w.right)
              /\ Len(v.left) < Len(w.left) \/ Len(v.right) < Len(w.right)
          BY <3>1, <3>2, <2>11, <2>12
        <5> QED BY <5>1, SmallerSum
      <4> QED BY <4>1 DEF Shrunk
    <3>3. CASE Ready(w.right, w.next)
      <4>1. Len(v.left) + Len(v.right) < Len(w.left) + Len(w.right)
        <5>1. /\ Len(v.left) \in Nat /\ Len(v.right) \in Nat /\ Len(w.left) \in Nat /\ Len(w.right) \in Nat
              /\ Len(v.left) <= Len(w.left) /\ Len(v.right) <= Len(w.right)
              /\ Len(v.left) < Len(w.left) \/ Len(v.right) < Len(w.right)
          BY <3>1, <3>3, <2>11, <2>12, <2>13
        <5> QED BY <5>1, SmallerSum
      <4> QED BY <4>1 DEF Shrunk
    <3>4. CASE ~Ready(w.left, w.next) /\ ~Ready(w.right, w.next)
      <4>1. t.left = w.left /\ t.next = w.next BY <3>4, <2>11
      <4>2. u.right = w.right BY <4>1, <3>4, <2>12
      <4>3. v.left = w.left /\ v.right = w.right BY <4>1, <4>2, <2>5, <2>10
      <4>4. Ready(v.left, v.next) \/ Ready(v.right, v.next) BY <4>3, <2>10, <1>8
      <4> QED BY <4>3, <4>4, <3>4 DEF Shrunk
    <3> QED BY <3>2, <3>3, <3>4
  <2> QED BY <2>10, <2>14, <1>4, <1>8
<1> QED BY <1>5, <1>6, <1>7, <1>8

\* Two rows of which the left one starts first, both with a struct that is not
\* a Skip.
Mergeable(left, right) ==
  /\ left \in Seq(Blocks) /\ right \in Seq(Blocks) /\ left # <<>> /\ right # <<>>
  /\ (\E a, b : Row(left, a, b)) /\ (\E a, b : Row(right, a, b))
  /\ ~IsSkip(left[1]) /\ ~IsSkip(right[1]) /\ left[1].clock <= right[1].clock

WeavesOf(left, right) == {w \in Weaves : Standing(left, right, w)}

\* A struct is a part of itself.
LEMMA PartsSelf ==
  ASSUME NEW s \in Seq(Blocks)
  PROVE  Parts(s, s)
<1>1. \A i \in 1..Len(s) : s[i] \in Blocks OBVIOUS
<1>2. \A i \in 1..Len(s) : Window(s[i], s[i]) BY <1>1, WindowSelf
<1> QED BY <1>2 DEF Parts

\* A merge starts standing.
LEMMA WeaveStart ==
  ASSUME NEW left, NEW right, Mergeable(left, right)
  PROVE  [out |-> <<>>, next |-> Head(left).clock, left |-> left, right |-> right] \in WeavesOf(left, right)
<1>1. /\ left \in Seq(Blocks) /\ right \in Seq(Blocks) /\ left # <<>> /\ right # <<>>
      /\ ~IsSkip(left[1]) /\ ~IsSkip(right[1]) /\ left[1].clock <= right[1].clock
  BY DEF Mergeable
<1>2. Head(left) = left[1] /\ left[1] \in Blocks /\ right[1] \in Blocks BY <1>1, HeadAndTail
<1>3. PICK c \in Nat : c = left[1].clock BY <1>2, BlockBounds
<1>4. right[1].clock \in Nat BY <1>2, BlockBounds
<1>5. PICK w : w = [out |-> <<>>, next |-> c, left |-> left, right |-> right] OBVIOUS
<1>6. w.out = <<>> /\ w.next = c /\ w.left = left /\ w.right = right BY <1>5
<1>7. <<>> \in Seq(Blocks) OBVIOUS
<1>8. w \in Weaves BY <1>1, <1>5, <1>7 DEF Weaves
<1>9. Row(<<>>, c, c) /\ \A k : ~Held(<<>>, k) BY RowOfNone
<1>10. Covered(left, left, c) /\ Covered(right, right, c) BY <1>1, PartsSelf DEF Covered, Mergeable
<1>11. ASSUME NEW k \in Nat, k < c PROVE ~Held(left, k) /\ ~Held(right, k)
  <2>1. Covered(left, left, 0) /\ Covered(right, right, 0) BY <1>1, PartsSelf DEF Covered, Mergeable
  <2>2. left[1].clock >= c /\ right[1].clock >= c /\ k >= 0 BY <1>1, <1>3, <1>4
  <2> QED BY <2>1, <2>2, <1>11, NotHeldBefore
<1>12. PartsOfBoth(<<>>, left, right) BY DEF PartsOfBoth
<1>13. SkipBehind(left, c) /\ SkipBehind(right, c) BY <1>1 DEF SkipBehind
<1>14. Woven(left, right, w)
  <2>1. Row(w.out, left[1].clock, w.next) BY <1>3, <1>6, <1>9
  <2>2. \A k \in Nat : k < w.next => (Held(w.out, k) <=> Held(left, k) \/ Held(right, k)) BY <1>6, <1>9, <1>11
  <2> QED BY <2>1, <2>2, <1>6, <1>8, <1>10, <1>12, <1>13 DEF Woven
<1>15. At(left, c) BY <1>1, <1>3 DEF At
<1>16. Standing(left, right, w) BY <1>6, <1>14, <1>15 DEF Standing
<1> QED BY <1>2, <1>3, <1>5, <1>8, <1>16 DEF WeavesOf

\* The rounds of a merge one by one.
LEMMA RoundsStep ==
  ASSUME NEW left, NEW right, Mergeable(left, right)
  PROVE  /\ Rounds(Client, left, right)[0] = [out |-> <<>>, next |-> Head(left).clock, left |-> left, right |-> right]
         /\ \A i \in 1..(2 * (Len(left) + Len(right))) : Rounds(Client, left, right)[i] = Round(Client, Rounds(Client, left, right)[i - 1])
         /\ \A i \in 0..(2 * (Len(left) + Len(right))) : Rounds(Client, left, right)[i] \in WeavesOf(left, right)
<1>1. PICK n \in Nat : n = (2 * (Len(left) + Len(right))) 
  <2>1. Len(left) \in Nat /\ Len(right) \in Nat BY DEF Mergeable
  <2> QED BY <2>1
<1> DEFINE Step(i, v) == Round(Client, v)
           Raw(p) == p = [i \in 0..n |-> IF i = 0 THEN [out |-> <<>>, next |-> Head(left).clock, left |-> left, right |-> right] ELSE Step(i, p[i - 1])]
<1>2. PICK V : V = WeavesOf(left, right) OBVIOUS
<1>3. \A i \in 1..n, v \in V : Step(i, v) \in V
  <2>1. ASSUME NEW i \in 1..n, NEW v \in V PROVE Step(i, v) \in V
    <3>1. left \in Seq(Blocks) /\ right \in Seq(Blocks) /\ Standing(left, right, v) BY <2>1, <1>2 DEF Mergeable, WeavesOf
    <3>2. Standing(left, right, Round(Client, v)) BY <3>1, RoundStanding
    <3>3. Round(Client, v) \in Weaves BY <3>2 DEF Standing, Woven
    <3> QED BY <3>2, <3>3, <1>2 DEF WeavesOf
  <2> QED BY <2>1
<1>4. [out |-> <<>>, next |-> Head(left).clock, left |-> left, right |-> right] \in V BY <1>2, WeaveStart
<1>5. PICK b \in V : b = [out |-> <<>>, next |-> Head(left).clock, left |-> left, right |-> right] BY <1>4
<1>6. Rounds(Client, left, right) = CHOOSE q : Raw(q) BY <1>1 DEF Rounds
<1> DEFINE Is(p) == p = [i \in 0..n |-> IF i = 0 THEN b ELSE Step(i, p[i - 1])]
<1> HIDE DEF Step
<1>7. \A q : Raw(q) <=> Is(q) BY <1>5
<1> HIDE DEF Raw
<1>8. PICK G : G = [i \in 1..n |-> [v \in V |-> Step(i, v)]] OBVIOUS
<1>9. G \in [1..n -> [V -> V]] BY <1>3, <1>8
<1>10. Defined(n, V, b, G) BY <1>9, Recursion
<1>11. \A i \in 1..n, v \in V : G[i][v] = Step(i, v) BY <1>8
<1>12. PICK p \in [0..n -> V] : p[0] = b /\ \A i \in 1..n : p[i] = G[i][p[i - 1]]
  BY <1>10 DEF Defined
<1>13. ASSUME NEW i \in 1..n PROVE p[i] = Step(i, p[i - 1])
  <2>1. i - 1 \in 0..n OBVIOUS
  <2>2. p[i - 1] \in V BY <2>1
  <2> QED BY <2>2, <1>11, <1>12
<1>14. Is(p)
  <2>1. ASSUME NEW i \in 0..n PROVE p[i] = IF i = 0 THEN b ELSE Step(i, p[i - 1])
    BY <1>12, <1>13
  <2> QED BY <2>1
<1>15. PICK f : f = Rounds(Client, left, right) OBVIOUS
<1>16. Raw(f) BY <1>14, <1>7, <1>6, <1>15
<1>17. Is(f) BY <1>7, <1>16
<1>18. f[0] = b BY <1>17
<1>19. \A i \in 1..n : f[i] = Step(i, f[i - 1]) BY <1>17
<1>20. \A i \in 1..n : f[i - 1] \in V => f[i] \in V BY <1>19, <1>3
<1>21. \A i \in 0..n : f[i] \in V BY <1>18, <1>20, RecursionType
<1> QED BY <1>1, <1>2, <1>5, <1>15, <1>18, <1>19, <1>21 DEF Step

\* Twice the structs left after m rounds, one less when a side is ready.
Bounded(n, m, w) ==
  \/ w.left = <<>> /\ w.right = <<>>
  \/ 2 * (Len(w.left) + Len(w.right)) + m <= n + (IF Ready(w.left, w.next) \/ Ready(w.right, w.next) THEN 1 ELSE 0)

\* A round keeps the bound.
LEMMA RoundBounded ==
  ASSUME NEW left \in Seq(Blocks), NEW right \in Seq(Blocks), NEW w, Standing(left, right, w),
         NEW n \in Nat, NEW m \in Nat, Bounded(n, m, w)
  PROVE  Bounded(n, m + 1, Round(Client, w))
<1>1. PICK v : v = Round(Client, w) OBVIOUS
<1>2. /\ Standing(left, right, v)
      /\ w.left = <<>> /\ w.right = <<>> => v = w
      /\ w.left # <<>> \/ w.right # <<>> => Shrunk(w, v)
  BY <1>1, RoundStanding
<1>3. CASE w.left = <<>> /\ w.right = <<>> BY <1>1, <1>2, <1>3 DEF Bounded
<1>4. CASE ~(w.left = <<>> /\ w.right = <<>>)
  <2>1. w \in Weaves /\ v \in Weaves BY <1>2 DEF Standing, Woven
  <2>2. PICK x \in Nat : x = Len(w.left) + Len(w.right)
    <3>1. PICK p \in Nat : p = Len(w.left) BY <2>1 DEF Weaves
    <3>2. PICK q \in Nat : q = Len(w.right) BY <2>1 DEF Weaves
    <3>3. p + q \in Nat OBVIOUS
    <3> QED BY <3>1, <3>2, <3>3
  <2>3. PICK y \in Nat : y = Len(v.left) + Len(v.right)
    <3>1. PICK p \in Nat : p = Len(v.left) BY <2>1 DEF Weaves
    <3>2. PICK q \in Nat : q = Len(v.right) BY <2>1 DEF Weaves
    <3>3. p + q \in Nat OBVIOUS
    <3> QED BY <3>1, <3>2, <3>3
  <2>4. PICK b \in {0, 1} : b = IF Ready(w.left, w.next) \/ Ready(w.right, w.next) THEN 1 ELSE 0 OBVIOUS
  <2>5. PICK c \in {0, 1} : c = IF Ready(v.left, v.next) \/ Ready(v.right, v.next) THEN 1 ELSE 0 OBVIOUS
  <2>6. 2 * x + m <= n + b BY <2>2, <2>4, <1>4 DEF Bounded
  <2>7. y < x \/ (y = x /\ b = 0 /\ c = 1) BY <2>2, <2>3, <2>4, <2>5, <1>2, <1>4 DEF Shrunk
  <2>8. 2 * y + (m + 1) <= n + c
    <3>1. CASE y < x
      <4>1. y + 1 <= x BY <3>1
      <4>2. 2 * y + 2 <= 2 * x BY <4>1
      <4>3. b <= 1 /\ 0 <= c /\ b \in Nat /\ c \in Nat OBVIOUS
      <4> QED BY <4>2, <4>3, <2>6
    <3>2. CASE y = x /\ b = 0 /\ c = 1 BY <3>2, <2>6
    <3> QED BY <3>1, <3>2, <2>7
  <2> QED BY <2>3, <2>5, <2>8, <1>1 DEF Bounded
<1> QED BY <1>3, <1>4

\* The merge of two rows.
Merged(out, left, right) ==
  /\ \E a, b : Row(out, a, b)
  /\ Solid(out)
  /\ PartsOfBoth(out, left, right)
  /\ \A k \in Nat : Held(out, k) <=> Held(left, k) \/ Held(right, k)

\* When the rounds are over, everything is out.
LEMMA OverlappingMerged ==
  ASSUME NEW left, NEW right, Mergeable(left, right)
  PROVE  Merged(MergeOverlapping(Client, left, right), left, right)
<1>1. left \in Seq(Blocks) /\ right \in Seq(Blocks) BY DEF Mergeable
<1>2. Len(left) \in Nat /\ Len(right) \in Nat BY <1>1
<1>3. PICK n \in Nat : n = 2 * (Len(left) + Len(right)) BY <1>2
<1>4. PICK f : f = Rounds(Client, left, right) OBVIOUS
<1>5. /\ f[0] = [out |-> <<>>, next |-> Head(left).clock, left |-> left, right |-> right]
      /\ \A i \in 1..n : f[i] = Round(Client, f[i - 1])
      /\ \A i \in 0..n : f[i] \in WeavesOf(left, right)
  BY <1>3, <1>4, RoundsStep
<1>6. PICK P : P = {i \in 0..n : Bounded(n, i, f[i])} OBVIOUS
<1>7. 0 \in P
  <2>1. f[0].left = left /\ f[0].right = right BY <1>5
  <2>2. n + 0 <= n + (IF Ready(f[0].left, f[0].next) \/ Ready(f[0].right, f[0].next) THEN 1 ELSE 0) OBVIOUS
  <2>3. Bounded(n, 0, f[0]) BY <2>1, <2>2, <1>3 DEF Bounded
  <2> QED BY <2>3, <1>6
<1>8. ASSUME NEW i \in 0..(n - 1), i \in P PROVE i + 1 \in P
  <2>1. i + 1 \in 1..n /\ (i + 1) - 1 = i /\ i \in 0..n /\ i \in Nat /\ i + 1 \in 0..n OBVIOUS
  <2>2. f[i + 1] = Round(Client, f[i]) BY <2>1, <1>5
  <2>3. Standing(left, right, f[i]) /\ Bounded(n, i, f[i]) BY <2>1, <1>5, <1>6, <1>8 DEF WeavesOf
  <2>4. Bounded(n, i + 1, f[i + 1]) BY <2>1, <2>2, <2>3, <1>1, RoundBounded
  <2> QED BY <2>1, <2>4, <1>6
<1>9. n \in P
  <2>1. \A i \in 0..n : i \in P BY <1>7, <1>8, UpTo
  <2> QED BY <2>1
<1>10. PICK w : w = f[n] OBVIOUS
<1>11. Standing(left, right, w) /\ Bounded(n, n, w)
  <2>1. n \in 0..n OBVIOUS
  <2> QED BY <2>1, <1>5, <1>6, <1>9, <1>10 DEF WeavesOf
<1>12. Woven(left, right, w) BY <1>11 DEF Standing
<1>13. w \in Weaves BY <1>12 DEF Woven
<1>14. w.left = <<>> /\ w.right = <<>>
  <2>1. SUFFICES ASSUME ~(w.left = <<>> /\ w.right = <<>>) PROVE FALSE OBVIOUS
  <2>2. PICK x \in Nat : x = Len(w.left) BY <1>13 DEF Weaves
  <2>3. PICK y \in Nat : y = Len(w.right) BY <1>13 DEF Weaves
  <2>4. x + y >= 1
    <3>1. x # 0 \/ y # 0 BY <2>1, <2>2, <2>3, <1>13 DEF Weaves
    <3> QED BY <3>1
  <2>5. PICK b \in {0, 1} : b = IF Ready(w.left, w.next) \/ Ready(w.right, w.next) THEN 1 ELSE 0 OBVIOUS
  <2>6. 2 * (x + y) + n <= n + b BY <2>1, <2>2, <2>3, <2>5, <1>11 DEF Bounded
  <2> QED BY <2>4, <2>5, <2>6
<1>15. Solid(w.out) BY <1>11, <1>14 DEF Standing, At, Solid
<1>16. w.next \in Nat /\ Row(w.out, left[1].clock, w.next) BY <1>12 DEF Woven, Weaves
<1>17. ASSUME NEW k \in Nat PROVE Held(w.out, k) <=> Held(left, k) \/ Held(right, k)
  <2>1. CASE k < w.next BY <2>1, <1>12 DEF Woven
  <2>2. CASE ~(k < w.next)
    <3>1. k >= w.next BY <2>2, <1>16
    <3>2. ~Held(<<>>, k) BY RowOfNone
    <3>3. ~Held(left, k) /\ ~Held(right, k) BY <3>1, <3>2, <1>12, <1>14 DEF Woven, Covered
    <3>4. ~Held(w.out, k)
      <4>1. SUFFICES ASSUME Held(w.out, k) PROVE FALSE OBVIOUS
      <4>2. k < w.next BY <4>1, <1>16, RowHeld
      <4> QED BY <4>2, <2>2
    <3> QED BY <3>3, <3>4
  <2> QED BY <2>1, <2>2
<1>18. MergeOverlapping(Client, left, right) = w.out BY <1>3, <1>4, <1>10 DEF MergeOverlapping
<1>19. PartsOfBoth(w.out, left, right) BY <1>12 DEF Woven
<1> QED BY <1>15, <1>16, <1>17, <1>18, <1>19 DEF Merged

\* The ends of two lists put together.
LEMMA ConcatEnds ==
  ASSUME NEW s \in Seq(Blocks), NEW t \in Seq(Blocks)
  PROVE  /\ s \o t \in Seq(Blocks)
         /\ s # <<>> => s \o t # <<>> /\ (s \o t)[1] = s[1]
         /\ t # <<>> => s \o t # <<>> /\ (s \o t)[Len(s \o t)] = t[Len(t)]
<1>1. PICK m \in Nat : m = Len(s) OBVIOUS
<1>2. PICK n \in Nat : n = Len(t) OBVIOUS
<1>3. PICK r : r = s \o t OBVIOUS
<1>4. r \in Seq(Blocks) /\ Len(r) = m + n /\ \A i \in 1..(m + n) : r[i] = IF i <= m THEN s[i] ELSE t[i - m]
  BY <1>1, <1>2, <1>3, ConcatProperties
<1>5. ASSUME s # <<>> PROVE r # <<>> /\ r[1] = s[1]
  <2>1. m # 0 BY <1>1, <1>5
  <2>2. 1 \in 1..(m + n) /\ 1 <= m /\ m + n # 0 BY <2>1
  <2> QED BY <2>2, <1>4
<1>6. ASSUME t # <<>> PROVE r # <<>> /\ r[m + n] = t[n]
  <2>1. n # 0 BY <1>2, <1>6
  <2>2. m + n \in 1..(m + n) /\ ~(m + n <= m) /\ m + n - m = n /\ m + n # 0 BY <2>1
  <2> QED BY <2>2, <1>4
<1> QED BY <1>2, <1>3, <1>4, <1>5, <1>6

\* Each of the lists is parts of both.
LEMMA PartsOfEither ==
  ASSUME NEW s, NEW left, NEW right, Parts(s, left) \/ Parts(s, right)
  PROVE  PartsOfBoth(s, left, right)
BY DEF Parts, PartsOfBoth

\* Two rows one after the other are joined, with a Skip between them.
LEMMA DisjointMerged ==
  ASSUME NEW left, NEW right, Mergeable(left, right), Solid(left), Solid(right),
         Head(right).clock >= EndClock(Last(left))
  PROVE  Merged(MergeDisjoint(Client, left, right), left, right)
<1>1. /\ left \in Seq(Blocks) /\ right \in Seq(Blocks) /\ left # <<>> /\ right # <<>>
  BY DEF Mergeable
<1>2. PICK a, b : Row(left, a, b) BY DEF Mergeable
<1>3. PICK c, d : Row(right, c, d) BY DEF Mergeable
<1>4. Head(right) = right[1] /\ Last(left) = left[Len(left)] BY <1>1, HeadAndTail DEF Last
<1>5. Head(right).clock = c /\ EndClock(Last(left)) = b BY <1>1, <1>2, <1>3, <1>4 DEF Row
<1>6. b \in Nat /\ c \in Nat /\ d \in Nat /\ c >= b BY <1>2, <1>3, <1>5 DEF Row
<1>7. PICK g : g = IF c - b > 0 THEN <<NewBlank("skip", Client, b, c - b)>> ELSE <<>> OBVIOUS
<1>8. g \in Seq(Blocks) /\ Row(g, b, c) /\ (\A k : ~Held(g, k)) /\ PartsOfBoth(g, left, right)
  <2>1. CASE c - b > 0
    <3>1. b < c /\ c <= Top
      <4>1. right[1] \in Blocks /\ right[1].clock = c BY <1>1, <1>4, <1>5, HeadAndTail
      <4>2. c < EndClock(right[1]) /\ EndClock(right[1]) <= Top /\ EndClock(right[1]) \in Nat /\ Top \in Nat
        BY <4>1, BlockBounds
      <4> QED BY <4>2, <2>1, <1>6
    <3>2. PICK x : x = NewBlank("skip", Client, b, c - b) OBVIOUS
    <3>3. x \in Blocks /\ x.clock = b /\ EndClock(x) = c /\ IsSkip(x) BY <3>1, <3>2, <1>6, BlankIs DEF IsSkip
    <3>4. g = <<x>> BY <3>2, <2>1, <1>7
    <3>5. \A i \in 1..Len(<<x>>) : <<x>>[i] = x OBVIOUS
    <3>6. PartsOfBoth(<<x>>, left, right) BY <3>3, <3>5 DEF PartsOfBoth
    <3> QED BY <3>3, <3>4, <3>6, RowOfOne
  <2>2. CASE ~(c - b > 0)
    <3>1. g = <<>> /\ b = c BY <2>2, <1>6, <1>7
    <3>2. PartsOfBoth(<<>>, left, right) BY DEF PartsOfBoth
    <3> QED BY <3>1, <3>2, <1>6, RowOfNone
  <2> QED BY <2>1, <2>2
<1>9. PICK p : p = left \o g OBVIOUS
<1>10. PICK o : o = p \o right OBVIOUS
<1>11. MergeDisjoint(Client, left, right) = o
  BY <1>5, <1>7, <1>9, <1>10 DEF MergeDisjoint
<1>12. Row(p, a, c) /\ \A k : Held(p, k) <=> Held(left, k) BY <1>2, <1>8, <1>9, RowConcat
<1>13. Row(o, a, d) /\ \A k : Held(o, k) <=> Held(left, k) \/ Held(right, k)
  BY <1>3, <1>10, <1>12, RowConcat
<1>14. p \in Seq(Blocks) /\ p # <<>> /\ p[1] = left[1] BY <1>1, <1>8, <1>9, ConcatEnds
<1>15. o # <<>> /\ o[1] = p[1] /\ o[Len(o)] = right[Len(right)] BY <1>1, <1>10, <1>14, ConcatEnds
<1>16. Solid(o) BY <1>14, <1>15 DEF Solid
<1>17. PartsOfBoth(o, left, right)
  <2>1. PartsOfBoth(left, left, right) /\ PartsOfBoth(right, left, right) BY <1>1, PartsSelf, PartsOfEither
  <2>2. PartsOfBoth(p, left, right) BY <2>1, <1>1, <1>8, <1>9, PartsConcat
  <2> QED BY <2>1, <2>2, <1>1, <1>10, <1>14, PartsConcat
<1> QED BY <1>11, <1>13, <1>16, <1>17 DEF Merged

\* The lists a document may hold of a client.
Good(list) ==
  /\ list \in Seq(Blocks)
  /\ list # <<>> => Solid(list) /\ \E a, b : Row(list, a, b)

\* Inserting a list into another gives what both hold.
LEMMA Inserted ==
  ASSUME NEW current, NEW new, Good(current), Good(new)
  PROVE  LET out == InsertList(Client, current, new)
         IN /\ Good(out) /\ PartsOfBoth(out, current, new)
            /\ \A k \in Nat : Held(out, k) <=> Held(current, k) \/ Held(new, k)
<1>1. PICK out : out = InsertList(Client, current, new) OBVIOUS
<1>2. current \in Seq(Blocks) /\ new \in Seq(Blocks) BY DEF Good
<1>3. \A k : ~Held(<<>>, k) BY RowOfNone
<1>4. PartsOfBoth(current, current, new) /\ PartsOfBoth(new, current, new) BY <1>2, PartsSelf, PartsOfEither
<1>5. CASE new = <<>> \/ current = <<>>
  <2>1. (new = <<>> /\ out = current) \/ (current = <<>> /\ out = new) BY <1>1, <1>5 DEF InsertList
  <2> QED BY <2>1, <1>1, <1>3, <1>4
<1>6. CASE new # <<>> /\ current # <<>>
  <2>1. out = MergeLists(Client, current, new) BY <1>1, <1>6 DEF InsertList
  <2>2. Solid(current) /\ Solid(new) /\ (\E a, b : Row(current, a, b)) /\ (\E a, b : Row(new, a, b))
    BY <1>6 DEF Good
  <2>3. ASSUME NEW left, NEW right, Mergeable(left, right), Solid(left), Solid(right)
        PROVE  Merged(MergeInOrder(Client, left, right), left, right)
    <3>1. CASE Head(right).clock >= EndClock(Last(left))
      BY <3>1, <2>3, DisjointMerged DEF MergeInOrder
    <3>2. CASE ~(Head(right).clock >= EndClock(Last(left)))
      BY <3>2, <2>3, OverlappingMerged DEF MergeInOrder
    <3> QED BY <3>1, <3>2
  <2>4. /\ Head(current) = current[1] /\ current[1] \in Blocks
        /\ Head(new) = new[1] /\ new[1] \in Blocks
    BY <1>2, <1>6, HeadAndTail
  <2>5. current[1].clock \in Nat /\ new[1].clock \in Nat BY <2>4, BlockBounds
  <2>6. Merged(out, current, new)
    <3>1. CASE Head(current).clock < Head(new).clock
      <4>1. Mergeable(current, new) BY <3>1, <2>2, <2>4, <2>5, <1>2, <1>6 DEF Mergeable, Solid
      <4> QED BY <4>1, <3>1, <2>1, <2>2, <2>3 DEF MergeLists
    <3>2. CASE ~(Head(current).clock < Head(new).clock)
      <4>1. new[1].clock <= current[1].clock BY <3>2, <2>4, <2>5
      <4>2. Mergeable(new, current) BY <4>1, <2>2, <1>2, <1>6 DEF Mergeable, Solid
      <4>3. Merged(out, new, current) BY <4>2, <3>2, <2>1, <2>2, <2>3 DEF MergeLists
      <4> QED BY <4>3 DEF Merged, PartsOfBoth
    <3> QED BY <3>1, <3>2
  <2>7. Good(out)
    <3>1. out \in Seq(Blocks) BY <2>6 DEF Merged, Row
    <3> QED BY <3>1, <2>6 DEF Merged, Good
  <2> QED BY <2>6, <2>7, <1>1 DEF Merged
<1> QED BY <1>5, <1>6

-----------------------------------------------------------------------------
(* The collection of deleted content.                                      *)

\* A window becomes a GC, or stays a part of its struct.
LEMMA CollectedWindow ==
  ASSUME NEW b \in Blocks, NEW from \in Nat, NEW to \in Nat, b.clock <= from, from < to, to <= EndClock(b), NEW referenced
  PROVE  LET t == CollectWindow(b, from, to, referenced)
         IN /\ t \in Blocks /\ t.clock = from /\ EndClock(t) = to
            /\ \/ Window(t, b)
               \/ t.kind = "gc" /\ \A k \in Nat : from <= k /\ k < to => <<Client, k>> \notin referenced
<1>1. b.clock \in Nat /\ EndClock(b) \in Nat /\ EndClock(b) <= Top /\ Top \in Nat BY BlockBounds
<1>2. b.client = Client BY DEF Blocks, Structs
<1>3. PICK t : t = CollectWindow(b, from, to, referenced) OBVIOUS
<1>4. CASE \E k \in from..(to - 1) : <<Client, k>> \in referenced
  <2>1. from - b.clock \in Nat /\ EndClock(b) - to \in Nat BY <1>1
  <2>2. (from - b.clock) + (EndClock(b) - to) < EndClock(b) - b.clock BY <1>1
  <2>3. t = SliceStruct(b, from - b.clock, EndClock(b) - to) BY <1>2, <1>3, <1>4 DEF CollectWindow
  <2>4. t \in Blocks /\ t.clock = b.clock + (from - b.clock) /\ EndClock(t) = EndClock(b) - (EndClock(b) - to)
        /\ Window(t, b)
    BY <2>1, <2>2, <2>3, SliceBounds
  <2>5. b.clock + (from - b.clock) = from /\ EndClock(b) - (EndClock(b) - to) = to BY <1>1
  <2> QED BY <2>4, <2>5, <1>3
<1>5. CASE ~\E k \in from..(to - 1) : <<Client, k>> \in referenced
  <2>1. to <= Top BY <1>1
  <2>2. t = NewBlank("gc", Client, from, to - from) BY <1>2, <1>3, <1>5 DEF CollectWindow
  <2>3. t \in Blocks /\ t.clock = from /\ EndClock(t) = to /\ t.kind = "gc" BY <2>1, <2>2, BlankIs
  <2>4. \A k \in Nat : from <= k /\ k < to => <<Client, k>> \notin referenced
    <3>1. \A k \in Nat : from <= k /\ k < to => k \in from..(to - 1) OBVIOUS
    <3> QED BY <3>1, <1>5
  <2> QED BY <2>3, <2>4, <1>3
<1> QED BY <1>4, <1>5

\* The part of a struct before a window.
KeptBefore(b, cursor, from) ==
  IF from > cursor THEN <<SliceStruct(b, cursor - b.clock, EndClock(b) - from)>> ELSE <<>>

\* It is a row of at most one part of the struct.
LEMMA KeptIs ==
  ASSUME NEW b \in Blocks, NEW cursor \in Nat, NEW from \in Nat, b.clock <= cursor, cursor <= from, from <= EndClock(b)
  PROVE  /\ KeptBefore(b, cursor, from) \in Seq(Blocks) /\ Row(KeptBefore(b, cursor, from), cursor, from)
         /\ \A i \in 1..Len(KeptBefore(b, cursor, from)) : Window(KeptBefore(b, cursor, from)[i], b)
<1>1. b.clock \in Nat /\ EndClock(b) \in Nat BY BlockBounds
<1>2. CASE from > cursor
  <2>1. PICK t : t = SliceStruct(b, cursor - b.clock, EndClock(b) - from) OBVIOUS
  <2>2. cursor - b.clock \in Nat /\ EndClock(b) - from \in Nat BY <1>1
  <2>3. (cursor - b.clock) + (EndClock(b) - from) < EndClock(b) - b.clock BY <1>1, <1>2
  <2>4. t \in Blocks /\ t.clock = b.clock + (cursor - b.clock) /\ EndClock(t) = EndClock(b) - (EndClock(b) - from)
        /\ Window(t, b)
    BY <2>1, <2>2, <2>3, SliceBounds
  <2>5. t.clock = cursor /\ EndClock(t) = from BY <2>4, <1>1
  <2>6. KeptBefore(b, cursor, from) = <<t>> BY <2>1, <1>2 DEF KeptBefore
  <2>7. \A i \in 1..Len(<<t>>) : <<t>>[i] = t OBVIOUS
  <2> QED BY <2>4, <2>5, <2>6, <2>7, RowOfOne
<1>3. CASE ~(from > cursor)
  <2>1. from = cursor BY <1>3
  <2>2. KeptBefore(b, cursor, from) = <<>> BY <1>3 DEF KeptBefore
  <2> QED BY <2>1, <2>2, RowOfNone
<1> QED BY <1>2, <1>3

\* The states of the walk over the ranges; at the end of the struct a window
\* would be empty.
Collecting(b) == [out : Seq(Blocks \cup {NewBlank("gc", Client, EndClock(b), 0)}), cursor : b.clock..EndClock(b)]

\* What a range does to the walk.
LEMMA CollectRangeIs ==
  ASSUME NEW b \in Blocks, NEW referenced, NEW acc \in Collecting(b), NEW r \in Ranges
  PROVE  LET from == IF r.clock >= acc.cursor THEN r.clock ELSE acc.cursor
             to   == IF End(r) <= EndClock(b) THEN End(r) ELSE EndClock(b)
         IN CollectRange(b, referenced, acc, r) =
              IF End(r) <= acc.cursor \/ r.clock >= EndClock(b) THEN acc
              ELSE [out |-> acc.out \o KeptBefore(b, acc.cursor, from) \o <<CollectWindow(b, from, to, referenced)>>,
                    cursor |-> to]
<1>1. b.clock \in Nat /\ EndClock(b) \in Nat BY BlockBounds
<1>2. acc.cursor \in Int BY <1>1 DEF Collecting
<1>3. r.clock \in Int /\ End(r) \in Int BY RangeBounds
<1>4. Max({r.clock, acc.cursor}) = (IF r.clock >= acc.cursor THEN r.clock ELSE acc.cursor) BY <1>2, <1>3, MaxMin
<1>5. Min({End(r), EndClock(b)}) = (IF End(r) <= EndClock(b) THEN End(r) ELSE EndClock(b))
  <2>1. PICK x \in Int : x = End(r) BY <1>3
  <2>2. PICK y \in Int : y = EndClock(b) BY <1>1
  <2>3. Min({x, y}) = (IF x <= y THEN x ELSE y) BY MaxMin
  <2> QED BY <2>1, <2>2, <2>3
<1> QED BY <1>4, <1>5 DEF CollectRange, KeptBefore

\* The walk stays in its states.
LEMMA CollectRangeTyped ==
  ASSUME NEW b \in Blocks, NEW referenced, NEW acc \in Collecting(b), NEW r \in Ranges
  PROVE  CollectRange(b, referenced, acc, r) \in Collecting(b)
<1>1. b.clock \in Nat /\ EndClock(b) \in Nat /\ b.clock < EndClock(b) BY BlockBounds
<1>2. r.clock \in Nat /\ End(r) \in Nat /\ r.clock < End(r) BY RangeBounds
<1>3. PICK z : z = NewBlank("gc", Client, EndClock(b), 0) OBVIOUS
<1>4. acc.cursor \in Nat /\ b.clock <= acc.cursor /\ acc.cursor <= EndClock(b) /\ acc.out \in Seq(Blocks \cup {z})
  BY <1>1, <1>3 DEF Collecting
<1>5. PICK from \in Nat : from = IF r.clock >= acc.cursor THEN r.clock ELSE acc.cursor BY <1>2, <1>4
<1>6. PICK to \in Nat : to = IF End(r) <= EndClock(b) THEN End(r) ELSE EndClock(b) BY <1>1, <1>2
<1>7. PICK kept : kept = KeptBefore(b, acc.cursor, from) OBVIOUS
<1>8. PICK t : t = CollectWindow(b, from, to, referenced) OBVIOUS
<1>9. PICK v : v = CollectRange(b, referenced, acc, r) OBVIOUS
<1>10. v = IF End(r) <= acc.cursor \/ r.clock >= EndClock(b) THEN acc
           ELSE [out |-> acc.out \o kept \o <<t>>, cursor |-> to]
  BY <1>5, <1>6, <1>7, <1>8, <1>9, CollectRangeIs
<1>11. CASE End(r) <= acc.cursor \/ r.clock >= EndClock(b) BY <1>9, <1>10, <1>11
<1>12. CASE ~(End(r) <= acc.cursor \/ r.clock >= EndClock(b))
  <2>1. b.clock <= from /\ acc.cursor <= from /\ from <= EndClock(b) /\ b.clock <= to /\ to <= EndClock(b)
    BY <1>1, <1>2, <1>4, <1>5, <1>6, <1>12
  <2>2. kept \in Seq(Blocks) BY <2>1, <1>4, <1>7, KeptIs
  <2>3. t \in Blocks \cup {z}
    <3>1. CASE from < to BY <3>1, <2>1, <1>8, CollectedWindow
    <3>2. CASE ~(from < to)
      <4>1. from = EndClock(b) /\ to = EndClock(b) BY <3>2, <2>1, <1>1, <1>2, <1>4, <1>5, <1>6, <1>12
      <4>2. EndClock(b)..(EndClock(b) - 1) = {} /\ EndClock(b) - EndClock(b) = 0 BY <1>1
      <4>3. b.client = Client BY DEF Blocks, Structs
      <4>4. t = z BY <4>1, <4>2, <4>3, <1>3, <1>8 DEF CollectWindow
      <4> QED BY <4>4
    <3> QED BY <3>1, <3>2
  <2>4. PICK S : S = Blocks \cup {z} OBVIOUS
  <2>5. kept \in Seq(S)
    <3>1. \A i \in 1..Len(kept) : kept[i] \in S BY <2>2, <2>4
    <3> QED BY <3>1, <2>2, SeqDef
  <2>6. acc.out \in Seq(S) /\ <<t>> \in Seq(S) BY <2>3, <2>4, <1>4
  <2>7. acc.out \o kept \o <<t>> \in Seq(S)
    <3>1. acc.out \o kept \in Seq(S) BY <2>5, <2>6, ConcatProperties
    <3> QED BY <3>1, <2>6, ConcatProperties
  <2>8. to \in b.clock..EndClock(b) BY <2>1
  <2> QED BY <2>4, <2>7, <2>8, <1>3, <1>9, <1>10, <1>12 DEF Collecting
<1> QED BY <1>11, <1>12

\* The walk over the ranges one by one.
LEMMA CollectRangesStep ==
  ASSUME NEW b \in Blocks, NEW s \in Seq(Ranges), NEW referenced
  PROVE  /\ CollectRanges(b, s, referenced)[0] = [out |-> <<>>, cursor |-> b.clock]
         /\ \A i \in 1..Len(s) : CollectRanges(b, s, referenced)[i] = CollectRange(b, referenced, CollectRanges(b, s, referenced)[i - 1], s[i])
         /\ \A i \in 0..Len(s) : CollectRanges(b, s, referenced)[i] \in Collecting(b)
<1>1. PICK n \in Nat : n = Len(s) OBVIOUS
<1> DEFINE Step(i, v) == CollectRange(b, referenced, v, s[i])
           Raw(p) == p = [i \in 0..n |-> IF i = 0 THEN [out |-> <<>>, cursor |-> b.clock] ELSE Step(i, p[i - 1])]
<1>2. PICK V : V = Collecting(b) OBVIOUS
<1>3. \A i \in 1..n, v \in V : Step(i, v) \in V
  <2>1. ASSUME NEW i \in 1..n, NEW v \in V PROVE Step(i, v) \in V
    <3>1. s[i] \in Ranges BY <1>1
    <3>2. v \in Collecting(b) BY <1>2
    <3> QED BY <3>1, <3>2, <1>2, CollectRangeTyped
  <2> QED BY <2>1
<1>4. [out |-> <<>>, cursor |-> b.clock] \in V 
  <2>1. b.clock \in b.clock..EndClock(b)
    <3>1. b.clock \in Nat /\ EndClock(b) \in Nat /\ b.clock < EndClock(b) BY BlockBounds
    <3> QED BY <3>1
  <2> QED BY <2>1, <1>2 DEF Collecting
<1>5. PICK start \in V : start = [out |-> <<>>, cursor |-> b.clock] BY <1>4
<1>6. CollectRanges(b, s, referenced) = CHOOSE q : Raw(q) BY <1>1 DEF CollectRanges
<1> DEFINE Is(p) == p = [i \in 0..n |-> IF i = 0 THEN start ELSE Step(i, p[i - 1])]
<1> HIDE DEF Step
<1>7. \A q : Raw(q) <=> Is(q) BY <1>5
<1> HIDE DEF Raw
<1>8. PICK G : G = [i \in 1..n |-> [v \in V |-> Step(i, v)]] OBVIOUS
<1>9. G \in [1..n -> [V -> V]] BY <1>3, <1>8
<1>10. Defined(n, V, start, G) BY <1>9, Recursion
<1>11. \A i \in 1..n, v \in V : G[i][v] = Step(i, v) BY <1>8
<1>12. PICK p \in [0..n -> V] : p[0] = start /\ \A i \in 1..n : p[i] = G[i][p[i - 1]]
  BY <1>10 DEF Defined
<1>13. ASSUME NEW i \in 1..n PROVE p[i] = Step(i, p[i - 1])
  <2>1. i - 1 \in 0..n OBVIOUS
  <2>2. p[i - 1] \in V BY <2>1
  <2> QED BY <2>2, <1>11, <1>12
<1>14. Is(p)
  <2>1. ASSUME NEW i \in 0..n PROVE p[i] = IF i = 0 THEN start ELSE Step(i, p[i - 1])
    BY <1>12, <1>13
  <2> QED BY <2>1
<1>15. PICK f : f = CollectRanges(b, s, referenced) OBVIOUS
<1>16. Raw(f) BY <1>14, <1>7, <1>6, <1>15
<1>17. Is(f) BY <1>7, <1>16
<1>18. f[0] = start BY <1>17
<1>19. \A i \in 1..n : f[i] = Step(i, f[i - 1]) BY <1>17
<1>20. \A i \in 1..n : f[i - 1] \in V => f[i] \in V BY <1>19, <1>3
<1>21. \A i \in 0..n : f[i] \in V BY <1>18, <1>20, RecursionType
<1> QED BY <1>1, <1>2, <1>5, <1>15, <1>18, <1>19, <1>21 DEF Step

\* A part of a struct, or a GC of deleted clocks that nothing refers to.
Leftover(t, b, s, referenced) ==
  \/ Window(t, b)
  \/ /\ t.kind = "gc" /\ b.clock <= t.clock /\ EndClock(t) <= EndClock(b)
     /\ \A k \in Nat : t.clock <= k /\ k < EndClock(t) => Covers(s, k) /\ <<Client, k>> \notin referenced

\* After i ranges: what is out is a row up to the cursor of what remains of the
\* struct; the cursor is at the start or not after the end of a range passed.
WalkedTo(b, s, referenced, i, acc) ==
  /\ acc \in Collecting(b)
  /\ Row(acc.out, b.clock, acc.cursor)
  /\ \A x \in 1..Len(acc.out) : Leftover(acc.out[x], b, s, referenced)
  /\ acc.cursor = b.clock \/ \E j \in 1..i : acc.cursor <= End(s[j])

\* What remains of a struct, after more of it.
LEMMA LeftoversConcat ==
  ASSUME NEW p \in Seq(Blocks), NEW q \in Seq(Blocks), NEW b, NEW s, NEW referenced,
         \A x \in 1..Len(p) : Leftover(p[x], b, s, referenced), \A x \in 1..Len(q) : Leftover(q[x], b, s, referenced)
  PROVE  \A x \in 1..Len(p \o q) : Leftover((p \o q)[x], b, s, referenced)
<1>1. PICK m \in Nat : m = Len(p) OBVIOUS
<1>2. PICK n \in Nat : n = Len(q) OBVIOUS
<1>3. PICK r : r = p \o q OBVIOUS
<1>4. Len(r) = m + n /\ \A i \in 1..(m + n) : r[i] = IF i <= m THEN p[i] ELSE q[i - m]
  BY <1>1, <1>2, <1>3, ConcatProperties
<1>5. ASSUME NEW x \in 1..(m + n) PROVE Leftover(r[x], b, s, referenced)
  <2>1. CASE x <= m
    <3>1. x \in 1..m /\ r[x] = p[x] BY <2>1, <1>4
    <3> QED BY <3>1, <1>1
  <2>2. CASE ~(x <= m)
    <3>1. PICK y \in 1..n : y = x - m BY <2>2
    <3>2. r[x] = q[y] BY <3>1, <2>2, <1>4
    <3> QED BY <3>2, <1>2
  <2> QED BY <2>1, <2>2
<1> QED BY <1>3, <1>4, <1>5

\* A range keeps it.
LEMMA CollectRangeWalks ==
  ASSUME NEW b \in Blocks, NEW s, Tidy(s), NEW referenced, NEW i \in 1..Len(s), NEW acc, WalkedTo(b, s, referenced, i - 1, acc)
  PROVE  WalkedTo(b, s, referenced, i, CollectRange(b, referenced, acc, s[i]))
<1>1. s \in Seq(Ranges) BY DEF Tidy
<1>2. PICK n \in Nat : n = Len(s) BY <1>1
<1>3. PICK r \in Ranges : r = s[i] BY <1>1
<1>4. b.clock \in Nat /\ EndClock(b) \in Nat /\ b.clock < EndClock(b) BY BlockBounds
<1>5. r.clock \in Nat /\ End(r) \in Nat /\ r.clock < End(r) BY RangeBounds
<1>6. acc \in Collecting(b) /\ Row(acc.out, b.clock, acc.cursor) BY DEF WalkedTo
<1>7. acc.cursor \in Nat /\ b.clock <= acc.cursor /\ acc.cursor <= EndClock(b) /\ acc.out \in Seq(Blocks)
  BY <1>4, <1>6 DEF Collecting, Row
<1>8. PICK from \in Nat : from = IF r.clock >= acc.cursor THEN r.clock ELSE acc.cursor BY <1>5, <1>7
<1>9. PICK to \in Nat : to = IF End(r) <= EndClock(b) THEN End(r) ELSE EndClock(b) BY <1>4, <1>5
<1>10. PICK kept : kept = KeptBefore(b, acc.cursor, from) OBVIOUS
<1>11. PICK t : t = CollectWindow(b, from, to, referenced) OBVIOUS
<1>12. PICK v : v = CollectRange(b, referenced, acc, r) OBVIOUS
<1>13. v = IF End(r) <= acc.cursor \/ r.clock >= EndClock(b) THEN acc
           ELSE [out |-> acc.out \o kept \o <<t>>, cursor |-> to]
  BY <1>6, <1>8, <1>9, <1>10, <1>11, <1>12, CollectRangeIs
<1>14. CASE End(r) <= acc.cursor \/ r.clock >= EndClock(b)
  <2>1. v = acc BY <1>13, <1>14
  <2>2. \A j \in 1..(i - 1) : j \in 1..i BY <1>2
  <2> QED BY <2>1, <2>2, <1>3, <1>12 DEF WalkedTo
<1>15. CASE ~(End(r) <= acc.cursor \/ r.clock >= EndClock(b))
  <2>1. r.clock > acc.cursor \/ acc.cursor = b.clock
    <3>1. SUFFICES ASSUME acc.cursor # b.clock PROVE r.clock > acc.cursor OBVIOUS
    <3>2. PICK j \in 1..(i - 1) : acc.cursor <= End(s[j]) BY <3>1 DEF WalkedTo
    <3>3. j \in 1..n /\ i \in 1..n /\ j < i BY <1>2
    <3>4. End(s[j]) < r.clock BY <3>3, <1>2, <1>3 DEF Tidy
    <3>5. s[j] \in Ranges BY <3>3, <1>1, <1>2
    <3>6. End(s[j]) \in Nat BY <3>5, RangeBounds
    <3> QED BY <3>2, <3>4, <3>6, <1>5, <1>7
  <2>2. b.clock <= from /\ acc.cursor <= from /\ from < to /\ to <= EndClock(b) /\ from <= EndClock(b)
    BY <2>1, <1>4, <1>5, <1>7, <1>8, <1>9, <1>15
  <2>3. r.clock <= from /\ to <= End(r) BY <2>2, <1>4, <1>5, <1>7, <1>8, <1>9
  <2>4. /\ kept \in Seq(Blocks) /\ Row(kept, acc.cursor, from) /\ \A x \in 1..Len(kept) : Window(kept[x], b)
    BY <2>2, <1>7, <1>10, KeptIs
  <2>5. /\ t \in Blocks /\ t.clock = from /\ EndClock(t) = to
        /\ \/ Window(t, b)
           \/ t.kind = "gc" /\ \A k \in Nat : from <= k /\ k < to => <<Client, k>> \notin referenced
    BY <2>2, <1>11, CollectedWindow
  <2>6. <<t>> \in Seq(Blocks) /\ Row(<<t>>, from, to) BY <2>5, RowOfOne
  <2>7. ASSUME NEW k \in Nat, from <= k, k < to PROVE Covers(s, k)
    <3>1. r.clock <= k /\ k < End(r) BY <2>3, <2>7, <1>5
    <3>2. ContainsClock(s[i], k) BY <3>1, <1>3 DEF ContainsClock
    <3> QED BY <3>2 DEF Covers
  <2>8. Leftover(t, b, s, referenced) BY <2>2, <2>5, <2>7 DEF Leftover
  <2>9. PICK p : p = acc.out \o kept OBVIOUS
  <2>10. PICK o : o = p \o <<t>> OBVIOUS
  <2>11. Row(p, b.clock, from) BY <2>4, <2>9, <1>6, RowConcat
  <2>12. Row(o, b.clock, to) BY <2>6, <2>10, <2>11, RowConcat
  <2>13. p \in Seq(Blocks) /\ o \in Seq(Blocks) BY <2>11, <2>12 DEF Row
  <2>14. \A x \in 1..Len(p) : Leftover(p[x], b, s, referenced)
    <3>1. \A x \in 1..Len(kept) : Leftover(kept[x], b, s, referenced) BY <2>4 DEF Leftover
    <3>2. \A x \in 1..Len(acc.out) : Leftover(acc.out[x], b, s, referenced) BY DEF WalkedTo
    <3> QED BY <3>1, <3>2, <2>4, <2>9, <1>7, LeftoversConcat
  <2>15. \A x \in 1..Len(o) : Leftover(o[x], b, s, referenced)
    <3>1. \A x \in 1..Len(<<t>>) : <<t>>[x] = t OBVIOUS
    <3>2. \A x \in 1..Len(<<t>>) : Leftover(<<t>>[x], b, s, referenced) BY <3>1, <2>8
    <3> QED BY <3>2, <2>6, <2>10, <2>13, <2>14, LeftoversConcat
  <2>16. v = [out |-> o, cursor |-> to] BY <2>9, <2>10, <1>13, <1>15
  <2>17. v.out = o /\ v.cursor = to BY <2>16
  <2>18. v \in Collecting(b) BY <1>3, <1>6, <1>12, CollectRangeTyped
  <2>19. \E j \in 1..i : to <= End(s[j])
    <3>1. i \in 1..i BY <1>2
    <3> QED BY <3>1, <2>3, <1>3
  <2> QED BY <2>12, <2>15, <2>17, <2>18, <2>19, <1>3, <1>12 DEF WalkedTo
<1> QED BY <1>14, <1>15

\* What is left of a struct after the collection: a row over its clocks.
LEMMA StructCollected ==
  ASSUME NEW b \in Blocks, NEW s, Tidy(s), NEW referenced
  PROVE  LET out == CollectStruct(b, s, referenced)
         IN /\ out \in Seq(Blocks) /\ Row(out, b.clock, EndClock(b))
            /\ \A x \in 1..Len(out) : Leftover(out[x], b, s, referenced)
<1>1. s \in Seq(Ranges) BY DEF Tidy
<1>2. PICK n \in Nat : n = Len(s) BY <1>1
<1>3. b.clock \in Nat /\ EndClock(b) \in Nat /\ b.clock < EndClock(b) BY BlockBounds
<1>4. PICK f : f = CollectRanges(b, s, referenced) OBVIOUS
<1>5. /\ f[0] = [out |-> <<>>, cursor |-> b.clock]
      /\ \A i \in 1..n : f[i] = CollectRange(b, referenced, f[i - 1], s[i])
      /\ \A i \in 0..n : f[i] \in Collecting(b)
  BY <1>1, <1>2, <1>4, CollectRangesStep
<1>6. PICK P : P = {i \in 0..n : WalkedTo(b, s, referenced, i, f[i])} OBVIOUS
<1>7. 0 \in P
  <2>1. f[0].out = <<>> /\ f[0].cursor = b.clock /\ f[0] \in Collecting(b) BY <1>5
  <2>2. Row(<<>>, b.clock, b.clock) BY <1>3, RowOfNone
  <2>3. WalkedTo(b, s, referenced, 0, f[0]) BY <2>1, <2>2 DEF WalkedTo
  <2> QED BY <2>3, <1>6
<1>8. ASSUME NEW i \in 0..(n - 1), i \in P PROVE i + 1 \in P
  <2>1. i + 1 \in 1..n /\ (i + 1) - 1 = i /\ i + 1 \in 0..n OBVIOUS
  <2>2. f[i + 1] = CollectRange(b, referenced, f[i], s[i + 1]) BY <2>1, <1>5
  <2>3. WalkedTo(b, s, referenced, (i + 1) - 1, f[i]) BY <2>1, <1>6, <1>8
  <2>4. WalkedTo(b, s, referenced, i + 1, f[i + 1]) BY <2>1, <2>2, <2>3, <1>2, CollectRangeWalks
  <2> QED BY <2>1, <2>4, <1>6
<1>9. n \in P
  <2>1. \A i \in 0..n : i \in P BY <1>7, <1>8, UpTo
  <2> QED BY <2>1
<1>10. PICK acc : acc = f[n] OBVIOUS
<1>11. WalkedTo(b, s, referenced, n, acc) BY <1>6, <1>9, <1>10
<1>12. acc \in Collecting(b) /\ Row(acc.out, b.clock, acc.cursor) /\ \A x \in 1..Len(acc.out) : Leftover(acc.out[x], b, s, referenced)
  BY <1>11 DEF WalkedTo
<1>13. acc.cursor \in Nat /\ b.clock <= acc.cursor /\ acc.cursor <= EndClock(b) /\ acc.out \in Seq(Blocks)
  BY <1>3, <1>12 DEF Collecting, Row
<1>14. PICK out : out = CollectStruct(b, s, referenced) OBVIOUS
<1>15. out = KeepRest(b, acc) BY <1>2, <1>4, <1>10, <1>14 DEF CollectStruct
<1>16. CASE acc.cursor < EndClock(b)
  <2>1. PICK t : t = SliceStruct(b, acc.cursor - b.clock, 0) OBVIOUS
  <2>2. acc.cursor - b.clock \in Nat /\ (acc.cursor - b.clock) + 0 < EndClock(b) - b.clock BY <1>3, <1>13, <1>16
  <2>3. t \in Blocks /\ t.clock = b.clock + (acc.cursor - b.clock) /\ EndClock(t) = EndClock(b) - 0 /\ Window(t, b)
    BY <2>1, <2>2, SliceBounds
  <2>4. t.clock = acc.cursor /\ EndClock(t) = EndClock(b) BY <2>3, <1>3, <1>13
  <2>5. out = acc.out \o <<t>>
    <3>1. out = Append(acc.out, t) BY <2>1, <1>15, <1>16 DEF KeepRest
    <3> QED BY <3>1, <2>3, <1>13, AppendIsConcat
  <2>6. <<t>> \in Seq(Blocks) /\ Row(<<t>>, acc.cursor, EndClock(b)) BY <2>3, <2>4, RowOfOne
  <2>7. Row(out, b.clock, EndClock(b)) BY <2>5, <2>6, <1>12, RowConcat
  <2>8. \A x \in 1..Len(out) : Leftover(out[x], b, s, referenced)
    <3>1. \A x \in 1..Len(<<t>>) : <<t>>[x] = t OBVIOUS
    <3>2. \A x \in 1..Len(<<t>>) : Leftover(<<t>>[x], b, s, referenced) BY <3>1, <2>3 DEF Leftover
    <3> QED BY <3>2, <2>5, <2>6, <1>12, <1>13, LeftoversConcat
  <2>9. out \in Seq(Blocks) BY <2>7 DEF Row
  <2> QED BY <2>7, <2>8, <2>9, <1>14
<1>17. CASE ~(acc.cursor < EndClock(b))
  <2>1. out = acc.out /\ acc.cursor = EndClock(b) BY <1>3, <1>13, <1>15, <1>17 DEF KeepRest
  <2> QED BY <2>1, <1>12, <1>13, <1>14
<1> QED BY <1>16, <1>17

\* The collection of a list struct by struct.
LEMMA CollectStructsStep ==
  ASSUME NEW list \in Seq(Blocks), NEW s, Tidy(s), NEW referenced
  PROVE  /\ CollectStructs(list, s, referenced)[0] = <<>>
         /\ \A i \in 1..Len(list) : CollectStructs(list, s, referenced)[i] = CollectStructs(list, s, referenced)[i - 1] \o CollectStruct(list[i], s, referenced)
         /\ \A i \in 0..Len(list) : CollectStructs(list, s, referenced)[i] \in Seq(Blocks)
<1>1. PICK n \in Nat : n = Len(list) OBVIOUS
<1> DEFINE Step(i, v) == v \o CollectStruct(list[i], s, referenced)
           Raw(p) == p = [i \in 0..n |-> IF i = 0 THEN <<>> ELSE Step(i, p[i - 1])]
<1>2. PICK V : V = Seq(Blocks) OBVIOUS
<1>3. \A i \in 1..n, v \in V : Step(i, v) \in V
  <2>1. ASSUME NEW i \in 1..n, NEW v \in V PROVE Step(i, v) \in V
    <3>1. list[i] \in Blocks BY <1>1
    <3>2. v \in Seq(Blocks) BY <1>2
    <3>3. CollectStruct(list[i], s, referenced) \in Seq(Blocks) BY <3>1, StructCollected
    <3> QED BY <3>2, <3>3, <1>2, ConcatProperties
  <2> QED BY <2>1
<1>4. <<>> \in V BY <1>2
<1>5. PICK start \in V : start = <<>> BY <1>4
<1>6. CollectStructs(list, s, referenced) = CHOOSE q : Raw(q) BY <1>1 DEF CollectStructs
<1> DEFINE Is(p) == p = [i \in 0..n |-> IF i = 0 THEN start ELSE Step(i, p[i - 1])]
<1> HIDE DEF Step
<1>7. \A q : Raw(q) <=> Is(q) BY <1>5
<1> HIDE DEF Raw
<1>8. PICK G : G = [i \in 1..n |-> [v \in V |-> Step(i, v)]] OBVIOUS
<1>9. G \in [1..n -> [V -> V]] BY <1>3, <1>8
<1>10. Defined(n, V, start, G) BY <1>9, Recursion
<1>11. \A i \in 1..n, v \in V : G[i][v] = Step(i, v) BY <1>8
<1>12. PICK p \in [0..n -> V] : p[0] = start /\ \A i \in 1..n : p[i] = G[i][p[i - 1]]
  BY <1>10 DEF Defined
<1>13. ASSUME NEW i \in 1..n PROVE p[i] = Step(i, p[i - 1])
  <2>1. i - 1 \in 0..n OBVIOUS
  <2>2. p[i - 1] \in V BY <2>1
  <2> QED BY <2>2, <1>11, <1>12
<1>14. Is(p)
  <2>1. ASSUME NEW i \in 0..n PROVE p[i] = IF i = 0 THEN start ELSE Step(i, p[i - 1])
    BY <1>12, <1>13
  <2> QED BY <2>1
<1>15. PICK f : f = CollectStructs(list, s, referenced) OBVIOUS
<1>16. Raw(f) BY <1>14, <1>7, <1>6, <1>15
<1>17. Is(f) BY <1>7, <1>16
<1>18. f[0] = start BY <1>17
<1>19. \A i \in 1..n : f[i] = Step(i, f[i - 1]) BY <1>17
<1>20. \A i \in 1..n : f[i - 1] \in V => f[i] \in V BY <1>19, <1>3
<1>21. \A i \in 0..n : f[i] \in V BY <1>18, <1>20, RecursionType
<1> QED BY <1>1, <1>2, <1>5, <1>15, <1>18, <1>19, <1>21 DEF Step

\* The clocks of a struct that is not a Skip are still held after its
\* collection.
LEMMA CollectedHolds ==
  ASSUME NEW b \in Blocks, ~IsSkip(b), NEW s, NEW referenced, NEW out, Row(out, b.clock, EndClock(b)),
         \A x \in 1..Len(out) : Leftover(out[x], b, s, referenced), NEW k \in Nat, b.clock <= k, k < EndClock(b)
  PROVE  Held(out, k)
<1>1. PICK x \in 1..Len(out) : out[x].clock <= k /\ k < EndClock(out[x]) BY RowCovers
<1>2. ~IsSkip(out[x])
  <2>1. CASE Window(out[x], b)
    <3>1. out[x].kind = b.kind BY <2>1, WindowBounds
    <3> QED BY <3>1 DEF IsSkip
  <2>2. CASE out[x].kind = "gc" BY <2>2 DEF IsSkip
  <2> QED BY <2>1, <2>2 DEF Leftover
<1> QED BY <1>1, <1>2 DEF Held

\* A row that holds its first and its last clock neither starts nor ends with
\* a Skip.
LEMMA RowEnds ==
  ASSUME NEW s, NEW a \in Nat, NEW c \in Nat, a < c, Row(s, a, c), Held(s, a), Held(s, c - 1)
  PROVE  Solid(s)
<1>1. s # <<>> BY DEF Row
<1>2. PICK n \in Nat : n = Len(s) BY DEF Row
<1>3. n >= 1 /\ 1 \in 1..n /\ n \in 1..n BY <1>1, <1>2 DEF Row
<1>4. s[1].clock = a /\ EndClock(s[n]) = c BY <1>1, <1>2 DEF Row
<1>5. \A i \in 1..n : s[i] \in Blocks BY <1>2 DEF Row
<1>6. \A i \in 1..n : s[i].clock \in Nat /\ EndClock(s[i]) \in Nat /\ s[i].clock < EndClock(s[i]) BY <1>5, BlockBounds
<1>7. \A i, j \in 1..n : i < j => EndClock(s[i]) <= s[j].clock BY <1>2 DEF Row
<1>8. PICK x \in 1..n : ~IsSkip(s[x]) /\ s[x].clock <= a BY <1>2 DEF Held
<1>9. x = 1
  <2>1. SUFFICES ASSUME 1 < x PROVE FALSE BY <1>3
  <2>2. EndClock(s[1]) <= s[x].clock BY <2>1, <1>3, <1>7
  <2> QED BY <2>2, <1>3, <1>4, <1>6, <1>8
<1>10. PICK y \in 1..n : ~IsSkip(s[y]) /\ c - 1 < EndClock(s[y]) BY <1>2 DEF Held
<1>11. y = n
  <2>1. SUFFICES ASSUME y < n PROVE FALSE BY <1>3
  <2>2. EndClock(s[y]) <= s[n].clock BY <2>1, <1>3, <1>7
  <2> QED BY <2>2, <1>3, <1>4, <1>6, <1>10
<1> QED BY <1>1, <1>2, <1>8, <1>9, <1>10, <1>11 DEF Solid

\* After i structs of a row from a: what is out goes on to the end of the
\* i-th, is what remains of the structs passed, and holds their clocks.
CollectedTo(list, s, referenced, a, i, acc) ==
  /\ Row(acc, a, IF i = 0 THEN a ELSE EndClock(list[i]))
  /\ \A x \in 1..Len(acc) : \E j \in 1..Len(list) : Leftover(acc[x], list[j], s, referenced)
  /\ \A j \in 1..i : ~IsSkip(list[j]) =>
       \A k \in Nat : list[j].clock <= k /\ k < EndClock(list[j]) => Held(acc, k)

\* The next struct keeps it.
LEMMA StructKeepsCollected ==
  ASSUME NEW list, NEW a, NEW c, Row(list, a, c), NEW s, Tidy(s), NEW referenced,
         NEW i \in 1..Len(list), NEW acc, CollectedTo(list, s, referenced, a, i - 1, acc)
  PROVE  CollectedTo(list, s, referenced, a, i, acc \o CollectStruct(list[i], s, referenced))
<1>1. PICK n \in Nat : n = Len(list) BY DEF Row
<1>2. i \in 1..n /\ i \in Nat BY <1>1
<1>3. PICK b \in Blocks : b = list[i] BY <1>1, <1>2 DEF Row
<1>4. PICK new : new = CollectStruct(b, s, referenced) OBVIOUS
<1>5. new \in Seq(Blocks) /\ Row(new, b.clock, EndClock(b)) /\ \A x \in 1..Len(new) : Leftover(new[x], b, s, referenced)
  BY <1>4, StructCollected
<1>6. (IF i - 1 = 0 THEN a ELSE EndClock(list[i - 1])) = b.clock
  <2>1. CASE i = 1
    <3>1. list # <<>> BY <2>1, <1>1, <1>2
    <3> QED BY <3>1, <2>1, <1>3 DEF Row
  <2>2. CASE i # 1
    <3>1. PICK h \in 1..(n - 1) : h = i - 1 BY <2>2, <1>2
    <3>2. EndClock(list[h]) = list[h + 1].clock BY <1>1 DEF Row
    <3>3. h + 1 = i /\ i - 1 = h /\ h # 0 BY <3>1, <1>2
    <3> QED BY <3>2, <3>3, <1>3
  <2> QED BY <2>1, <2>2
<1>7. Row(acc, a, b.clock) BY <1>6 DEF CollectedTo
<1>8. PICK out : out = acc \o new OBVIOUS
<1>9. Row(out, a, EndClock(b)) /\ \A k : Held(out, k) <=> Held(acc, k) \/ Held(new, k)
  BY <1>5, <1>7, <1>8, RowConcat
<1>10. ASSUME NEW x \in 1..Len(out) PROVE \E j \in 1..n : Leftover(out[x], list[j], s, referenced)
  <2>1. PICK p \in Nat : p = Len(acc) BY <1>7 DEF Row
  <2>2. PICK q \in Nat : q = Len(new) BY <1>5
  <2>3. acc \in Seq(Blocks) BY <1>7 DEF Row
  <2>4. Len(out) = p + q /\ \A y \in 1..(p + q) : out[y] = IF y <= p THEN acc[y] ELSE new[y - p]
    BY <2>1, <2>2, <2>3, <1>5, <1>8, ConcatProperties
  <2>5. CASE x <= p
    <3>1. x \in 1..p /\ out[x] = acc[x] BY <2>4, <2>5
    <3> QED BY <3>1, <2>1, <1>1 DEF CollectedTo
  <2>6. CASE ~(x <= p)
    <3>1. PICK y \in 1..q : y = x - p BY <2>4, <2>6
    <3>2. out[x] = new[y] BY <3>1, <2>4, <2>6
    <3> QED BY <3>2, <2>2, <1>2, <1>3, <1>5
  <2> QED BY <2>5, <2>6
<1>11. ASSUME NEW j \in 1..i, ~IsSkip(list[j]), NEW k \in Nat, list[j].clock <= k, k < EndClock(list[j])
       PROVE Held(out, k)
  <2>1. CASE j = i
    <3>1. Held(new, k) BY <2>1, <1>3, <1>5, <1>11, CollectedHolds
    <3> QED BY <3>1, <1>9
  <2>2. CASE j # i
    <3>1. j \in 1..(i - 1) BY <2>2, <1>2
    <3>2. Held(acc, k) BY <3>1, <1>11 DEF CollectedTo
    <3> QED BY <3>2, <1>9
  <2> QED BY <2>1, <2>2
<1>12. (IF i = 0 THEN a ELSE EndClock(list[i])) = EndClock(b) BY <1>2, <1>3
<1>13. CollectedTo(list, s, referenced, a, i, out) BY <1>1, <1>9, <1>10, <1>11, <1>12 DEF CollectedTo
<1> QED BY <1>3, <1>4, <1>8, <1>13

\* What remains of the structs of a list.
Remains(out, list, s, referenced) == \A x \in 1..Len(out) : \E j \in 1..Len(list) : Leftover(out[x], list[j], s, referenced)

\* A list after its collection: no clock is lost, and none is new but deleted
\* ones.
LEMMA ListCollected ==
  ASSUME NEW list, Good(list), NEW s, Tidy(s), NEW referenced
  PROVE  LET out == CollectList(list, s, referenced)
         IN /\ Good(out) /\ Remains(out, list, s, referenced)
            /\ \A k \in Nat : Held(list, k) => Held(out, k)
            /\ \A k \in Nat : Held(out, k) => Held(list, k) \/ Covers(s, k)
<1>1. list \in Seq(Blocks) BY DEF Good
<1>2. PICK n \in Nat : n = Len(list) BY <1>1
<1>3. PICK f : f = CollectStructs(list, s, referenced) OBVIOUS
<1>4. /\ f[0] = <<>>
      /\ \A i \in 1..n : f[i] = f[i - 1] \o CollectStruct(list[i], s, referenced)
      /\ \A i \in 0..n : f[i] \in Seq(Blocks)
  BY <1>1, <1>2, <1>3, CollectStructsStep
<1>5. PICK out : out = f[n] OBVIOUS
<1>6. out = CollectList(list, s, referenced) BY <1>2, <1>3, <1>5 DEF CollectList
<1>7. CASE list = <<>>
  <2>1. n = 0 BY <1>2, <1>7
  <2>2. out = <<>> BY <2>1, <1>4, <1>5
  <2>3. Good(out) BY <2>2, <1>1, <1>7 DEF Good
  <2>4. Remains(out, list, s, referenced) BY <2>2 DEF Remains
  <2> QED BY <2>2, <2>3, <2>4, <1>6, <1>7
<1>8. CASE list # <<>>
  <2>1. PICK a, c : Row(list, a, c) BY <1>8 DEF Good
  <2>2. a \in Nat /\ c \in Nat /\ a < c BY <2>1, <1>8, RowTop DEF Row
  <2>3. Solid(list) BY <1>8 DEF Good
  <2>4. n >= 1 /\ 1 \in 1..n /\ n \in 1..n BY <1>1, <1>2, <1>8
  <2>5. list[1].clock = a /\ EndClock(list[n]) = c BY <2>1, <1>2, <1>8 DEF Row
  <2>6. PICK P : P = {i \in 0..n : CollectedTo(list, s, referenced, a, i, f[i])} OBVIOUS
  <2>7. 0 \in P
    <3>1. Row(f[0], a, a) /\ Len(f[0]) = 0 BY <2>2, <1>4, RowOfNone
    <3>2. CollectedTo(list, s, referenced, a, 0, f[0]) BY <3>1 DEF CollectedTo
    <3> QED BY <3>2, <2>6
  <2>8. ASSUME NEW i \in 0..(n - 1), i \in P PROVE i + 1 \in P
    <3>1. i + 1 \in 1..n /\ (i + 1) - 1 = i /\ i + 1 \in 0..n OBVIOUS
    <3>2. f[i + 1] = f[i] \o CollectStruct(list[i + 1], s, referenced) BY <3>1, <1>4
    <3>3. CollectedTo(list, s, referenced, a, (i + 1) - 1, f[i]) BY <3>1, <2>6, <2>8
    <3>4. CollectedTo(list, s, referenced, a, i + 1, f[i + 1]) BY <3>1, <3>2, <3>3, <2>1, <1>2, StructKeepsCollected
    <3> QED BY <3>1, <3>4, <2>6
  <2>9. n \in P
    <3>1. \A i \in 0..n : i \in P BY <2>7, <2>8, UpTo
    <3> QED BY <3>1
  <2>10. CollectedTo(list, s, referenced, a, n, out) BY <2>6, <2>9, <1>5
  <2>11. Row(out, a, c) BY <2>4, <2>5, <2>10 DEF CollectedTo
  <2>12. Remains(out, list, s, referenced) BY <2>10 DEF CollectedTo, Remains
  <2>13. ASSUME NEW k \in Nat, Held(list, k) PROVE Held(out, k)
    <3>1. PICK j \in 1..n : ~IsSkip(list[j]) /\ list[j].clock <= k /\ k < EndClock(list[j]) BY <2>13, <1>2 DEF Held
    <3> QED BY <3>1, <2>10 DEF CollectedTo
  <2>14. ASSUME NEW k \in Nat, Held(out, k) PROVE Held(list, k) \/ Covers(s, k)
    <3>1. PICK x \in 1..Len(out) : ~IsSkip(out[x]) /\ out[x].clock <= k /\ k < EndClock(out[x])
      BY <2>14 DEF Held
    <3>2. PICK j \in 1..Len(list) : Leftover(out[x], list[j], s, referenced) BY <2>12 DEF Remains
    <3>3. CASE Window(out[x], list[j])
      <4>1. list[j] \in Blocks BY <1>1
      <4>2. out[x] \in Blocks /\ out[x].kind = list[j].kind /\ list[j].clock <= out[x].clock
            /\ EndClock(out[x]) <= EndClock(list[j])
        BY <4>1, <3>3, WindowBounds
      <4>3. out[x].clock \in Nat /\ EndClock(out[x]) \in Nat /\ list[j].clock \in Nat /\ EndClock(list[j]) \in Nat
        BY <4>1, <4>2, BlockBounds
      <4>4. list[j].clock <= k /\ k < EndClock(list[j]) BY <4>2, <4>3, <3>1
      <4>5. ~IsSkip(list[j]) BY <4>2, <3>1 DEF IsSkip
      <4> QED BY <4>4, <4>5 DEF Held
    <3>4. CASE \A h \in Nat : out[x].clock <= h /\ h < EndClock(out[x]) => Covers(s, h) BY <3>1, <3>4
    <3> QED BY <3>2, <3>3, <3>4 DEF Leftover
  <2>15. Solid(out)
    <3>1. ~IsSkip(list[1]) /\ ~IsSkip(list[n]) BY <2>3, <1>2 DEF Solid
    <3>2. list[1] \in Blocks /\ list[n] \in Blocks BY <2>4, <1>1, <1>2
    <3>3. list[1].clock \in Nat /\ EndClock(list[1]) \in Nat /\ list[n].clock \in Nat /\ EndClock(list[n]) \in Nat
          /\ list[1].clock < EndClock(list[1]) /\ list[n].clock < EndClock(list[n])
      BY <3>2, BlockBounds
    <3>4. Held(list, a) BY <3>1, <3>3, <2>4, <2>5, <1>2 DEF Held
    <3>5. c - 1 \in Nat /\ list[n].clock <= c - 1 /\ c - 1 < EndClock(list[n]) BY <3>3, <2>2, <2>5
    <3>6. Held(list, c - 1) BY <3>1, <3>5, <2>4, <1>2 DEF Held
    <3>7. Held(out, a) /\ Held(out, c - 1) BY <3>4, <3>5, <3>6, <2>2, <2>13
    <3> QED BY <3>7, <2>2, <2>11, RowEnds
  <2>16. Good(out)
    <3>1. out \in Seq(Blocks) BY <2>11 DEF Row
    <3> QED BY <3>1, <2>11, <2>15 DEF Good
  <2> QED BY <2>12, <2>13, <2>14, <2>16, <1>6
<1> QED BY <1>7, <1>8

-----------------------------------------------------------------------------
(* State vectors and diffs of a client's structs.                          *)

\* The elements of a list.
LEMMA ElementsOf ==
  ASSUME NEW list \in Seq(Blocks), NEW b
  PROVE  b \in ToSet(list) <=> \E i \in 1..Len(list) : b = list[i]
BY DEF ToSet

\* The clocks present in a list are those held.
LEMMA PresentIs ==
  ASSUME NEW list \in Seq(Blocks), NEW k
  PROVE  k \in Present(list) <=> k \in Nat /\ Held(list, k)
<1>1. \A b \in Blocks : k \in Span(b) <=> k \in Nat /\ b.clock <= k /\ k < EndClock(b)
  <2>1. ASSUME NEW b \in Blocks PROVE k \in Span(b) <=> k \in Nat /\ b.clock <= k /\ k < EndClock(b)
    <3>1. b.clock \in Nat /\ EndClock(b) \in Nat BY BlockBounds
    <3> QED BY <3>1 DEF Span
  <2> QED BY <2>1
<1>2. k \in Present(list) <=> \E b \in ToSet(list) : ~IsSkip(b) /\ k \in Span(b) BY DEF Present
<1>3. \A i \in 1..Len(list) : list[i] \in Blocks OBVIOUS
<1>4. k \in Present(list) <=> \E i \in 1..Len(list) : ~IsSkip(list[i]) /\ k \in Span(list[i]) BY <1>2, ElementsOf
<1> QED BY <1>1, <1>3, <1>4 DEF Held

\* Lists a document may hold are well-formed.
LEMMA GoodWellFormed ==
  ASSUME NEW list, Good(list)
  PROVE  WellFormed(list)
<1>1. list \in Seq(Blocks) BY DEF Good
<1>2. PICK n \in Nat : n = Len(list) BY <1>1
<1>3. \A i \in DOMAIN list : list[i].els # <<>> BY <1>1 DEF Blocks
<1>4. CASE list = <<>> BY <1>3, <1>4 DEF WellFormed
<1>5. CASE list # <<>>
  <2>1. PICK a, c : Row(list, a, c) BY <1>5 DEF Good
  <2>2. Solid(list) BY <1>5 DEF Good
  <2>3. Head(list) = list[1] BY <1>1, <1>5, HeadAndTail
  <2>4. Last(list) = list[Len(list)] BY DEF Last
  <2>5. \A i \in 1..(Len(list) - 1) : EndClock(list[i]) = list[i + 1].clock BY <2>1 DEF Row
  <2> QED BY <2>2, <2>3, <2>4, <2>5, <1>3 DEF Solid, WellFormed
<1> QED BY <1>4, <1>5

\* Well-formed lists that end by Top may be held by a document.
LEMMA WellFormedGood ==
  ASSUME NEW list \in Seq(Structs), WellFormed(list), \A i \in DOMAIN list : EndClock(list[i]) <= Top
  PROVE  Good(list)
<1>1. list \in Seq(Blocks)
  <2>1. \A i \in 1..Len(list) : list[i] \in Blocks BY DEF Blocks, WellFormed
  <2> QED BY <2>1, SeqDef
<1>2. ASSUME list # <<>> PROVE Solid(list) /\ \E a, c : Row(list, a, c)
  <2>1. Head(list) = list[1] /\ Last(list) = list[Len(list)] BY <1>1, <1>2, HeadAndTail DEF Last
  <2>2. Solid(list) BY <2>1, <1>2 DEF Solid, WellFormed
  <2>3. Row(list, list[1].clock, EndClock(list[Len(list)])) BY <1>1, <1>2, RowOfNeighbours DEF WellFormed
  <2> QED BY <2>2, <2>3
<1> QED BY <1>1, <1>2 DEF Good

\* The first struct of an answer starts at the vector or after it.
LEMMA DiffHead ==
  ASSUME NEW b \in Blocks, NEW clock \in Nat, EndClock(b) > clock
  PROVE  LET t == SliceStruct(b, Max({clock - b.clock, 0}), 0)
         IN /\ t \in Blocks /\ Window(t, b) /\ t.kind = b.kind /\ EndClock(t) = EndClock(b)
            /\ t.clock = IF clock >= b.clock THEN clock ELSE b.clock
<1>1. b.clock \in Nat /\ EndClock(b) \in Nat /\ b.clock < EndClock(b) BY BlockBounds
<1>2. PICK x \in Int : x = clock - b.clock BY <1>1
<1>3. Max({x, 0}) = IF x >= 0 THEN x ELSE 0 BY MaxMin
<1>4. PICK start \in Nat : start = IF x >= 0 THEN x ELSE 0 BY <1>2
<1>5. start + 0 < EndClock(b) - b.clock BY <1>1, <1>2, <1>4
<1>6. PICK t : t = SliceStruct(b, start, 0) OBVIOUS
<1>7. t \in Blocks /\ t.clock = b.clock + start /\ EndClock(t) = EndClock(b) - 0 /\ t.kind = b.kind /\ Window(t, b)
  BY <1>5, <1>6, SliceBounds
<1>8. EndClock(t) = EndClock(b) /\ t.clock = IF clock >= b.clock THEN clock ELSE b.clock BY <1>1, <1>2, <1>4, <1>7
<1>9. t = SliceStruct(b, Max({clock - b.clock, 0}), 0) BY <1>2, <1>3, <1>4, <1>6
<1> QED BY <1>7, <1>8, <1>9

\* A list that may be held holds its last clock.
LEMMA HoldsLast ==
  ASSUME NEW list, NEW a, NEW c, Row(list, a, c), Solid(list)
  PROVE  c \in Nat /\ c - 1 \in Nat /\ a < c /\ Held(list, c - 1)
<1>1. list # <<>> BY DEF Solid
<1>2. PICK n \in Nat : n = Len(list) BY DEF Row
<1>3. n \in 1..n /\ EndClock(list[n]) = c BY <1>1, <1>2 DEF Row
<1>4. a \in Nat /\ c \in Nat /\ a < c BY <1>1, RowTop DEF Row
<1>5. list[n] \in Blocks BY <1>2, <1>3 DEF Row
<1>6. list[n].clock \in Nat /\ list[n].clock < c BY <1>3, <1>5, BlockBounds
<1>7. c - 1 \in Nat /\ list[n].clock <= c - 1 /\ c - 1 < EndClock(list[n]) BY <1>3, <1>4, <1>6
<1>8. ~IsSkip(list[n]) BY <1>2 DEF Solid
<1> QED BY <1>2, <1>3, <1>4, <1>7, <1>8 DEF Held

\* The answer to a state vector: what is held from the vector on.
LEMMA DiffIs ==
  ASSUME NEW list, Good(list), NEW clock \in Nat
  PROVE  LET out == DiffList(list, clock)
         IN /\ Good(out)
            /\ \A k \in Nat : Held(out, k) <=> Held(list, k) /\ k >= clock
            /\ \A x \in 1..Len(out) : \E j \in 1..Len(list) : Window(out[x], list[j])
<1>1. list \in Seq(Blocks) BY DEF Good
<1>2. PICK n \in Nat : n = Len(list) BY <1>1
<1>3. \A j \in 1..n : list[j] \in Blocks BY <1>1, <1>2
<1>4. \A j \in 1..n : list[j].clock \in Nat /\ EndClock(list[j]) \in Nat /\ list[j].clock < EndClock(list[j])
  BY <1>3, BlockBounds
<1>5. PICK past : past = {i \in DOMAIN list : ~IsSkip(list[i]) /\ EndClock(list[i]) > clock} OBVIOUS
<1>6. past = {i \in 1..n : ~IsSkip(list[i]) /\ EndClock(list[i]) > clock} BY <1>1, <1>2, <1>5
<1>7. \A k \in Nat : Held(list, k) /\ k >= clock =>
        \E j \in past : list[j].clock <= k /\ k < EndClock(list[j])
  BY <1>2, <1>4, <1>6 DEF Held
<1>8. PICK out : out = DiffList(list, clock) OBVIOUS
<1>9. CASE past = {}
  <2>1. out = <<>> BY <1>5, <1>8, <1>9 DEF DiffList
  <2>2. Good(out) BY <2>1 DEF Good
  <2>3. \A k \in Nat : ~Held(out, k) BY <2>1, RowOfNone
  <2> QED BY <2>1, <2>2, <2>3, <1>7, <1>8, <1>9
<1>10. CASE past # {}
  <2>1. PICK i : i = Min(past) OBVIOUS
  <2>2. past \in SUBSET Nat BY <1>6
  <2>3. i \in past /\ \A y \in past : i <= y BY <2>1, <2>2, <1>10, MinIs
  <2>4. i \in 1..n /\ ~IsSkip(list[i]) /\ EndClock(list[i]) > clock BY <2>3, <1>6
  <2>5. list # <<>> BY <2>4, <1>2
  <2>6. PICK a, c : Row(list, a, c) BY <2>5 DEF Good
  <2>7. Solid(list) BY <2>5 DEF Good
  <2>8. PICK b \in Blocks : b = list[i] BY <2>4, <1>3
  <2>9. PICK t : t = SliceStruct(b, Max({clock - b.clock, 0}), 0) OBVIOUS
  <2>10. /\ t \in Blocks /\ Window(t, b) /\ t.kind = b.kind /\ EndClock(t) = EndClock(b)
         /\ t.clock = IF clock >= b.clock THEN clock ELSE b.clock
    BY <2>4, <2>8, <2>9, DiffHead
  <2>11. PICK rest : rest = SubSeq(list, i + 1, Len(list)) OBVIOUS
  <2>12. out = <<t>> \o rest BY <2>1, <2>8, <2>9, <2>11, <1>5, <1>8, <1>10 DEF DiffList
  <2>13. i \in 0..n /\ EndClock(b) = IF i = 0 THEN a ELSE EndClock(list[i]) BY <2>4, <2>8
  <2>14. /\ Row(rest, EndClock(b), c) /\ Len(rest) = n - i
         /\ \A y \in 1..(n - i) : rest[y] = list[i + y]
         /\ \A k : Held(rest, k) => Held(list, k)
    <3>1. i \in 0..Len(list) BY <2>13, <1>2
    <3>2. /\ Row(SubSeq(list, i + 1, Len(list)), EndClock(b), c)
          /\ Len(SubSeq(list, i + 1, Len(list))) = Len(list) - i
          /\ \A y \in 1..(Len(list) - i) : SubSeq(list, i + 1, Len(list))[y] = list[i + y]
          /\ \A k : Held(list, k) <=> Held(SubSeq(list, 1, i), k) \/ Held(SubSeq(list, i + 1, Len(list)), k)
      BY <3>1, <2>6, <2>13, RowSplit
    <3> QED BY <3>2, <2>11, <1>2
  <2>15. <<t>> \in Seq(Blocks) /\ Row(<<t>>, t.clock, EndClock(b))
         /\ \A k : Held(<<t>>, k) <=> ~IsSkip(t) /\ t.clock <= k /\ k < EndClock(t)
    BY <2>10, RowOfOne
  <2>16. Row(out, t.clock, c) /\ \A k : Held(out, k) <=> Held(<<t>>, k) \/ Held(rest, k)
    BY <2>12, <2>14, <2>15, RowConcat
  <2>17. b.clock \in Nat /\ EndClock(b) \in Nat /\ t.clock \in Nat /\ b.clock <= t.clock /\ clock <= t.clock
         /\ EndClock(b) > clock /\ t.clock < EndClock(b)
    BY <2>4, <2>8, <2>10, BlockBounds
  <2>18. ~IsSkip(t) BY <2>4, <2>8, <2>10 DEF IsSkip
  <2>19. ASSUME NEW k \in Nat, Held(out, k) PROVE Held(list, k) /\ k >= clock
    <3>1. CASE Held(<<t>>, k)
      <4>1. t.clock <= k /\ k < EndClock(b) BY <3>1, <2>10, <2>15
      <4>2. b.clock <= k /\ k >= clock BY <4>1, <2>17
      <4> QED BY <4>1, <4>2, <2>4, <2>8, <1>2 DEF Held
    <3>2. CASE Held(rest, k)
      <4>1. EndClock(b) <= k BY <3>2, <2>14, RowHeld
      <4>2. k >= clock BY <4>1, <2>17
      <4> QED BY <4>2, <3>2, <2>14
    <3> QED BY <3>1, <3>2, <2>16, <2>19
  <2>20. ASSUME NEW k \in Nat, Held(list, k), k >= clock PROVE Held(out, k)
    <3>1. PICK j \in past : list[j].clock <= k /\ k < EndClock(list[j]) BY <2>20, <1>7
    <3>2. j \in 1..n /\ i <= j /\ ~IsSkip(list[j]) BY <3>1, <2>3, <1>6
    <3>3. CASE j = i
      <4>1. t.clock <= k /\ k < EndClock(t) BY <3>1, <3>3, <2>8, <2>10, <2>17, <2>20
      <4> QED BY <4>1, <2>15, <2>16, <2>18
    <3>4. CASE j # i
      <4>1. PICK y \in 1..(n - i) : y = j - i BY <3>2, <3>4, <2>4
      <4>2. i + y = j BY <4>1, <3>2, <2>4
      <4>3. rest[y] = list[j] BY <4>1, <4>2, <2>14
      <4>4. Held(rest, k) BY <4>3, <3>1, <3>2, <2>14 DEF Held
      <4> QED BY <4>4, <2>16
    <3> QED BY <3>3, <3>4
  <2>21. Good(out)
    <3>1. c \in Nat /\ c - 1 \in Nat /\ Held(list, c - 1) BY <2>6, <2>7, HoldsLast
    <3>2. EndClock(b) <= c BY <2>4, <2>6, <2>8, <1>2 DEF Row
    <3>3. c - 1 >= clock /\ t.clock < c BY <3>1, <3>2, <2>17
    <3>4. Held(out, c - 1) BY <3>1, <3>3, <2>20
    <3>5. Held(out, t.clock) BY <2>10, <2>15, <2>16, <2>17, <2>18
    <3>6. Solid(out) BY <3>1, <3>3, <3>4, <3>5, <2>16, <2>17, RowEnds
    <3>7. out \in Seq(Blocks) BY <2>16 DEF Row
    <3> QED BY <3>6, <3>7, <2>16 DEF Good
  <2>22. ASSUME NEW x \in 1..Len(out) PROVE \E j \in 1..n : Window(out[x], list[j])
    <3>1. rest \in Seq(Blocks) BY <2>14 DEF Row
    <3>2. PICK m \in Nat : m = n - i BY <2>4
    <3>3. Len(<<t>>) = 1 /\ <<t>>[1] = t OBVIOUS
    <3>4. Len(out) = 1 + m /\ \A y \in 1..(1 + m) : out[y] = IF y <= 1 THEN <<t>>[y] ELSE rest[y - 1]
      BY <3>1, <3>2, <3>3, <2>12, <2>14, <2>15, ConcatProperties
    <3>5. CASE x = 1
      <4>1. out[x] = t BY <3>3, <3>4, <3>5
      <4> QED BY <4>1, <2>4, <2>8, <2>10
    <3>6. CASE x # 1
      <4>1. PICK y \in 1..m : y = x - 1 BY <3>4, <3>6
      <4>2. out[x] = rest[y] BY <4>1, <3>4, <3>6
      <4>3. rest[y] = list[i + y] BY <4>1, <3>2, <2>14
      <4>4. i + y \in 1..n BY <4>1, <3>2, <2>4
      <4>5. Window(list[i + y], list[i + y]) BY <4>4, <1>3, WindowSelf
      <4> QED BY <4>2, <4>3, <4>4, <4>5
    <3> QED BY <3>5, <3>6
  <2> QED BY <2>19, <2>20, <2>21, <2>22, <1>2, <1>8
<1> QED BY <1>9, <1>10

\* The V1 count is the first clock that is not held.
LEMMA CountV1Is ==
  ASSUME NEW list, Good(list)
  PROVE  LET count == CountV1(list, FALSE)
         IN count \in Nat /\ ~Held(list, count) /\ \A k \in Nat : k < count => Held(list, k)
<1>1. list \in Seq(Blocks) BY DEF Good
<1>2. PICK n \in Nat : n = Len(list) BY <1>1
<1>3. \A j \in 1..n : list[j] \in Blocks BY <1>1, <1>2
<1>4. \A j \in 1..n : list[j].clock \in Nat /\ EndClock(list[j]) \in Nat /\ list[j].clock < EndClock(list[j])
  BY <1>3, BlockBounds
<1>5. PICK count : count = CountV1(list, FALSE) OBVIOUS
<1>6. CASE list = <<>>
  <2>1. count = 0 BY <1>5, <1>6 DEF CountV1
  <2>2. ~Held(list, 0) BY <1>6, RowOfNone
  <2>3. \A k \in Nat : k < count => Held(list, k)
    <3>1. SUFFICES ASSUME NEW k \in Nat, k < count PROVE FALSE OBVIOUS
    <3> QED BY <3>1, <2>1
  <2>4. count \in Nat /\ ~Held(list, count) BY <2>1, <2>2
  <2> QED BY <2>3, <2>4, <1>5
<1>7. CASE list # <<>>
  <2>1. PICK a, c : Row(list, a, c) BY <1>7 DEF Good
  <2>2. Solid(list) BY <1>7 DEF Good
  <2>3. Head(list) = list[1] /\ list[1].clock = a /\ EndClock(list[n]) = c /\ a \in Nat /\ c \in Nat
    BY <2>1, <1>1, <1>2, <1>7, HeadAndTail DEF Row
  <2>4. 1 \in 1..n /\ n \in 1..n BY <1>1, <1>2, <1>7
  <2>5. CASE a # 0
    <3>1. count = 0 BY <2>3, <2>5, <1>5 DEF CountV1
    <3>2. ~Held(list, 0) BY <2>1, <2>3, <2>5, RowHeld
    <3>3. \A k \in Nat : k < count => Held(list, k)
      <4>1. SUFFICES ASSUME NEW k \in Nat, k < count PROVE FALSE OBVIOUS
      <4> QED BY <4>1, <3>1
    <3>4. count \in Nat /\ ~Held(list, count) BY <3>1, <3>2
    <3> QED BY <3>3, <3>4, <1>5
  <2>6. CASE a = 0
    <3>1. PICK skips : skips = {i \in DOMAIN list : IsSkip(list[i])} OBVIOUS
    <3>2. skips = {i \in 1..n : IsSkip(list[i])} BY <3>1, <1>1, <1>2
    <3>3. PICK upto : upto = IF skips = {} THEN Len(list) ELSE Min(skips) - 1 OBVIOUS
    <3>4. /\ upto \in 1..n /\ \A i \in 1..upto : ~IsSkip(list[i])
          /\ upto = n \/ (upto + 1 \in 1..n /\ IsSkip(list[upto + 1]))
      <4>1. CASE skips = {}
        <5>1. upto = n BY <4>1, <3>3, <1>2
        <5> QED BY <5>1, <4>1, <3>2, <2>4
      <4>2. CASE skips # {}
        <5>1. skips \in SUBSET Nat BY <3>2
        <5>2. PICK m : m = Min(skips) OBVIOUS
        <5>3. m \in skips /\ \A y \in skips : m <= y BY <5>1, <5>2, <4>2, MinIs
        <5>4. m \in 1..n /\ IsSkip(list[m]) BY <5>3, <3>2
        <5>5. m # 1 BY <5>4, <2>2 DEF Solid
        <5>6. upto = m - 1 /\ upto \in 1..n /\ upto + 1 = m BY <5>2, <5>4, <5>5, <4>2, <3>3
        <5>7. ASSUME NEW i \in 1..upto PROVE ~IsSkip(list[i])
          <6>1. i \in 1..n /\ ~(m <= i) BY <5>4, <5>6
          <6> QED BY <6>1, <5>3, <3>2
        <5> QED BY <5>4, <5>6, <5>7
      <4> QED BY <4>1, <4>2
    <3>5. count = EndClock(list[upto])
      <4>1. upto > 0 BY <3>4
      <4> QED BY <4>1, <3>1, <3>3, <2>3, <2>6, <1>5, <1>7 DEF CountV1
    <3>6. count \in Nat BY <3>4, <3>5, <1>4
    <3>7. ASSUME NEW k \in Nat, k < count PROVE Held(list, k)
      <4>1. upto \in 0..n /\ count = IF upto = 0 THEN a ELSE EndClock(list[upto]) BY <3>4, <3>5
      <4>2. PICK part : part = SubSeq(list, 1, upto) OBVIOUS
      <4>3. Row(part, a, count) /\ Len(part) = upto /\ \A i \in 1..upto : part[i] = list[i]
        BY <4>1, <4>2, <2>1, <1>2, RowSplit
      <4>4. PICK i \in 1..upto : part[i].clock <= k /\ k < EndClock(part[i]) BY <4>3, <3>7, <2>6, RowCovers
      <4>5. i \in 1..n BY <3>4
      <4> QED BY <4>3, <4>4, <4>5, <3>4, <1>2 DEF Held
    <3>8. ~Held(list, count)
      <4>1. CASE upto = n
        <5>1. count = c BY <4>1, <3>5, <2>3
        <5> QED BY <5>1, <2>1, <2>3, RowHeld
      <4>2. CASE upto # n
        <5>1. upto + 1 \in 1..n /\ IsSkip(list[upto + 1]) BY <4>2, <3>4
        <5>2. SUFFICES ASSUME NEW x \in 1..n, ~IsSkip(list[x]), list[x].clock <= count, count < EndClock(list[x])
                       PROVE FALSE
          BY <1>2 DEF Held
        <5>3. \A i, j \in 1..n : i < j => EndClock(list[i]) <= list[j].clock BY <2>1, <1>2 DEF Row
        <5>4. x # upto + 1 BY <5>1, <5>2
        <5>5. CASE x <= upto
          <6>1. CASE x = upto BY <6>1, <5>2, <3>5, <3>6
          <6>2. CASE x # upto
            <7>1. x < upto BY <6>2, <5>5, <3>4
            <7>2. EndClock(list[x]) <= list[upto].clock BY <7>1, <5>3, <3>4
            <7>3. list[upto].clock < count BY <3>4, <3>5, <1>4
            <7> QED BY <7>2, <7>3, <5>2, <3>4, <3>6, <1>4
          <6> QED BY <6>1, <6>2
        <5>6. CASE ~(x <= upto)
          <6>1. upto + 1 < x /\ upto < upto + 1 BY <5>4, <5>6, <3>4
          <6>2. EndClock(list[upto + 1]) <= list[x].clock BY <6>1, <5>1, <5>3
          <6>3. count <= list[upto + 1].clock BY <6>1, <5>1, <5>3, <3>4, <3>5
          <6>4. list[upto + 1].clock < EndClock(list[upto + 1]) BY <5>1, <1>4
          <6>5. list[upto + 1].clock \in Nat /\ EndClock(list[upto + 1]) \in Nat /\ list[x].clock \in Nat BY <5>1, <1>4
          <6> QED BY <6>2, <6>3, <6>4, <6>5, <5>2, <3>6
        <5> QED BY <5>5, <5>6
      <4> QED BY <4>1, <4>2
    <3> QED BY <3>6, <3>7, <3>8, <1>5
  <2> QED BY <2>5, <2>6
<1> QED BY <1>6, <1>7

\* The V2 count is after every clock held.
LEMMA CountV2Is ==
  ASSUME NEW list, Good(list), NEW k \in Nat, Held(list, k)
  PROVE  k < CountV2(list)
<1>1. list \in Seq(Blocks) BY DEF Good
<1>2. PICK n \in Nat : n = Len(list) BY <1>1
<1>3. PICK i \in 1..n : k < EndClock(list[i]) BY <1>2 DEF Held
<1>4. list # <<>> BY <1>2, <1>3
<1>5. PICK S : S = {EndClock(b) : b \in ToSet(list)} OBVIOUS
<1>6. \A b \in ToSet(list) : b \in Blocks BY <1>1, ElementsOf
<1>7. Top \in Nat /\ S \in SUBSET (0..Top)
  <2>1. list[i] \in Blocks BY <1>1, <1>2, <1>3
  <2>2. Top \in Nat BY <2>1, BlockBounds
  <2>3. ASSUME NEW b \in Blocks PROVE EndClock(b) \in 0..Top
    <3>1. EndClock(b) \in Nat /\ EndClock(b) <= Top BY BlockBounds
    <3> QED BY <3>1, <2>2
  <2> QED BY <2>2, <2>3, <1>5, <1>6
<1>8. list[i] \in ToSet(list) BY <1>1, <1>2, <1>3, ElementsOf
<1>9. EndClock(list[i]) \in S BY <1>5, <1>8
<1>10. PICK m : m = Max(S) OBVIOUS
<1>11. m \in S /\ EndClock(list[i]) <= m BY <1>7, <1>9, <1>10, MaxIs
<1>12. CountV2(list) = m BY <1>4, <1>5, <1>10 DEF CountV2
<1>13. m \in Nat /\ EndClock(list[i]) \in Nat
  <2>1. \A y \in S : y \in Nat BY <1>7
  <2> QED BY <2>1, <1>9, <1>11
<1> QED BY <1>3, <1>11, <1>12, <1>13

\* The V2 count is zero, or the last clock counted is held.
LEMMA CountV2Held ==
  ASSUME NEW list, Good(list)
  PROVE  CountV2(list) = 0 \/ (CountV2(list) - 1 \in Nat /\ Held(list, CountV2(list) - 1))
<1>1. CASE list = <<>> BY <1>1 DEF CountV2
<1>2. CASE list # <<>>
  <2>1. list \in Seq(Blocks) /\ Solid(list) BY <1>2 DEF Good
  <2>2. PICK a, b : Row(list, a, b) BY <1>2 DEF Good
  <2>3. PICK n \in Nat : n = Len(list) /\ n # 0 BY <1>2, <2>1
  <2>4. \A j \in 1..n : /\ list[j].clock \in Nat /\ EndClock(list[j]) \in Nat
                         /\ list[j].clock < EndClock(list[j]) /\ EndClock(list[j]) <= Top /\ Top \in Nat
    <3>1. \A j \in 1..n : list[j] \in Blocks BY <2>1, <2>3
    <3> QED BY <3>1, BlockBounds
  <2>5. PICK S : S = {EndClock(x) : x \in ToSet(list)} OBVIOUS
  <2>6. \A y : y \in S <=> \E j \in 1..n : y = EndClock(list[j]) BY <2>1, <2>3, <2>5, ElementsOf
  <2>7. Top \in Nat /\ S \in SUBSET (0..Top) /\ S # {}
    <3>1. 1 \in 1..n BY <2>3
    <3>2. \A y \in S : y \in 0..Top BY <2>4, <2>6
    <3> QED BY <3>1, <3>2, <2>4, <2>6
  <2>8. PICK m : m = Max(S) OBVIOUS
  <2>9. m \in S /\ \A y \in S : y <= m BY <2>7, <2>8, MaxIs
  <2>10. CountV2(list) = m BY <1>2, <2>5, <2>8 DEF CountV2
  <2>11. PICK j \in 1..n : m = EndClock(list[j]) BY <2>6, <2>9
  <2>12. j = n
    <3> SUFFICES ASSUME j # n PROVE FALSE OBVIOUS
    <3>1. j + 1 \in 1..n /\ j \in 1..(n - 1) BY <2>3
    <3>2. EndClock(list[j]) = list[j + 1].clock BY <2>2, <2>3, <3>1 DEF Row
    <3>3. EndClock(list[j + 1]) <= m BY <2>6, <2>9, <3>1
    <3> QED BY <2>4, <2>11, <3>1, <3>2, <3>3
  <2>13. ~IsSkip(list[n]) BY <2>1, <2>3 DEF Solid
  <2>14. m - 1 \in Nat /\ list[j].clock <= m - 1 /\ m - 1 < EndClock(list[j]) BY <2>4, <2>11
  <2> QED BY <2>3, <2>10, <2>12, <2>13, <2>14 DEF Held
<1> QED BY <1>1, <1>2

-----------------------------------------------------------------------------
(* A client's structs through any sequence of merges and collections.      *)

\* A clock is in a struct.
In(b, k) == b.clock <= k /\ k < EndClock(b)

\* A struct is a Skip, a part of a struct received, or collected and deleted.
Accounted(b, from, deleted) ==
  \/ IsSkip(b)
  \/ \E p \in from : Window(b, p)
  \/ b.kind = "gc" /\ \A k \in Nat : In(b, k) => k \in deleted

ClientInv ==
  /\ RangeInv
  /\ Good(structs)
  /\ received \in SUBSET Blocks /\ \A p \in received : ~IsSkip(p)
  /\ \A i \in 1..Len(structs) : Accounted(structs[i], received, ids)
  /\ \A p \in received : \A k \in Nat : In(p, k) => Held(structs, k)
  /\ \A k \in Nat : Held(structs, k) => k \in ids \/ \E p \in received : In(p, k)

\* A part of an accounted struct is accounted for, also when more was received
\* and deleted.
LEMMA AccountedPart ==
  ASSUME NEW b \in Blocks, NEW t, Window(t, b), NEW from \in SUBSET Blocks, NEW deleted, Accounted(b, from, deleted),
         NEW more, from \subseteq more, NEW gone, deleted \subseteq gone
  PROVE  Accounted(t, more, gone)
<1>1. t \in Blocks /\ t.kind = b.kind /\ b.clock <= t.clock /\ EndClock(t) <= EndClock(b) BY WindowBounds
<1>2. CASE IsSkip(b) BY <1>1, <1>2 DEF IsSkip, Accounted
<1>3. CASE \E p \in from : Window(b, p)
  <2>1. PICK p \in from : Window(b, p) BY <1>3
  <2>2. p \in Blocks /\ p \in more OBVIOUS
  <2>3. Window(t, p) BY <2>1, <2>2, WindowOfWindow
  <2> QED BY <2>2, <2>3 DEF Accounted
<1>4. CASE b.kind = "gc" /\ \A k \in Nat : In(b, k) => k \in deleted
  <2>1. b.clock \in Nat /\ EndClock(b) \in Nat /\ t.clock \in Nat /\ EndClock(t) \in Nat BY <1>1, BlockBounds
  <2>2. \A k \in Nat : In(t, k) => In(b, k) BY <2>1, <1>1 DEF In
  <2>3. \A k \in Nat : In(t, k) => k \in gone BY <2>2, <1>4
  <2> QED BY <2>3, <1>1, <1>4 DEF Accounted
<1> QED BY <1>2, <1>3, <1>4 DEF Accounted

\* It holds at first.
LEMMA ClientInitInv == ClientInit => ClientInv
<1> SUFFICES ASSUME ClientInit PROVE ClientInv OBVIOUS
<1>1. structs = <<>> /\ received = {} /\ RangeInit BY DEF ClientInit
<1>2. RangeInv BY <1>1, RangeInitInv
<1>3. Good(structs) BY <1>1 DEF Good
<1>4. \A k \in Nat : ~Held(structs, k) BY <1>1, RowOfNone
<1> QED BY <1>1, <1>2, <1>3, <1>4 DEF ClientInv

\* Merging an update keeps it.
LEMMA ReceiveInv ==
  ASSUME Top < Width, NEW u \in Brought, ClientInv, Receive(u)
  PROVE  ClientInv'
<1>1. /\ u.list \in Seq(Structs) /\ WellFormed(u.list)
      /\ \A i \in DOMAIN u.list : EndClock(u.list[i]) <= Top
      /\ u.ds \in Operands
  BY ClientStructsAssumption
<1>2. PICK new : new = u.list OBVIOUS
<1>3. Good(new) BY <1>1, <1>2, WellFormedGood
<1>4. new \in Seq(Blocks) BY <1>3 DEF Good
<1>5. RangeInv'
  <2>1. RangeInv /\ RangeNext BY <1>1 DEF ClientInv, Receive, RangeNext
  <2> QED BY <2>1, RangeNextInv
<1>6. ids \subseteq ids' BY DEF Receive, Merge
<1>7. PICK more : more = {b \in ToSet(new) : ~IsSkip(b)} OBVIOUS
<1>8. structs' = InsertList(Client, structs, new) /\ received' = received \cup more BY <1>2, <1>7 DEF Receive
<1>9. \A b : b \in more <=> ~IsSkip(b) /\ \E i \in 1..Len(new) : b = new[i] BY <1>4, <1>7, ElementsOf
<1>10. more \in SUBSET Blocks BY <1>4, <1>9
<1>11. Good(structs) /\ structs \in Seq(Blocks) BY DEF ClientInv, Good
<1>12. /\ Good(structs') /\ PartsOfBoth(structs', structs, new)
       /\ \A k \in Nat : Held(structs', k) <=> Held(structs, k) \/ Held(new, k)
  BY <1>3, <1>8, <1>11, Inserted
<1>13. received \in SUBSET Blocks /\ \A p \in received : ~IsSkip(p) BY DEF ClientInv
<1>14. received' \in SUBSET Blocks /\ \A p \in received' : ~IsSkip(p) BY <1>8, <1>9, <1>10, <1>13
<1>15. ASSUME NEW i \in 1..Len(structs') PROVE Accounted(structs'[i], received', ids')
  <2>1. CASE IsSkip(structs'[i]) BY <2>1 DEF Accounted
  <2>2. CASE \E j \in 1..Len(structs) : Window(structs'[i], structs[j])
    <3>1. PICK j \in 1..Len(structs) : Window(structs'[i], structs[j]) BY <2>2
    <3>2. structs[j] \in Blocks BY <1>11
    <3>3. Accounted(structs[j], received, ids) BY DEF ClientInv
    <3>4. received \subseteq received' BY <1>8
    <3> QED BY <3>1, <3>2, <3>3, <3>4, <1>6, <1>13, AccountedPart
  <2>3. CASE ~IsSkip(structs'[i]) /\ \E j \in 1..Len(new) : Window(structs'[i], new[j])
    <3>1. PICK j \in 1..Len(new) : Window(structs'[i], new[j]) BY <2>3
    <3>2. new[j] \in Blocks BY <1>4
    <3>3. structs'[i].kind = new[j].kind BY <3>1, <3>2, WindowBounds
    <3>4. ~IsSkip(new[j]) BY <3>3, <2>3 DEF IsSkip
    <3>5. new[j] \in received' BY <3>4, <1>8, <1>9
    <3> QED BY <3>1, <3>5 DEF Accounted
  <2> QED BY <2>1, <2>2, <2>3, <1>12 DEF PartsOfBoth
<1>16. ASSUME NEW p \in received', NEW k \in Nat, In(p, k) PROVE Held(structs', k)
  <2>1. CASE p \in received
    <3>1. Held(structs, k) BY <2>1, <1>16 DEF ClientInv
    <3> QED BY <3>1, <1>12
  <2>2. CASE p \in more
    <3>1. PICK i \in 1..Len(new) : p = new[i] BY <2>2, <1>9
    <3>2. Held(new, k) BY <3>1, <2>2, <1>9, <1>16 DEF Held, In
    <3> QED BY <3>2, <1>12
  <2> QED BY <2>1, <2>2, <1>8
<1>17. ASSUME NEW k \in Nat, Held(structs', k) PROVE k \in ids' \/ \E p \in received' : In(p, k)
  <2>1. CASE Held(structs, k)
    <3>1. k \in ids \/ \E p \in received : In(p, k) BY <2>1 DEF ClientInv
    <3> QED BY <3>1, <1>6, <1>8
  <2>2. CASE Held(new, k)
    <3>1. PICK i \in 1..Len(new) : ~IsSkip(new[i]) /\ In(new[i], k) BY <2>2 DEF Held, In
    <3>2. new[i] \in received' BY <3>1, <1>8, <1>9
    <3> QED BY <3>1, <3>2
  <2> QED BY <2>1, <2>2, <1>12, <1>17
<1> QED BY <1>5, <1>12, <1>14, <1>15, <1>16, <1>17 DEF ClientInv

\* The collection of deleted content keeps it.
LEMMA CollectGarbageInv ==
  ASSUME NEW foreign, ClientInv, CollectGarbage(foreign)
  PROVE  ClientInv'
<1>1. PICK referenced : referenced = ReferencesOf(structs) \cup foreign OBVIOUS
<1>2. structs' = CollectList(structs, held, referenced) /\ received' = received /\ held' = held /\ ids' = ids
  BY <1>1 DEF CollectGarbage, rangeVars
<1>3. RangeInv /\ Good(structs) BY DEF ClientInv
<1>4. Tidy(held) /\ ids = {k \in Nat : Covers(held, k)} BY <1>3 DEF RangeInv
<1>5. /\ Good(structs') /\ Remains(structs', structs, held, referenced)
      /\ \A k \in Nat : Held(structs, k) => Held(structs', k)
      /\ \A k \in Nat : Held(structs', k) => Held(structs, k) \/ Covers(held, k)
  BY <1>2, <1>3, <1>4, ListCollected
<1>6. RangeInv' BY <1>2, <1>4 DEF RangeInv
<1>7. received \in SUBSET Blocks /\ structs \in Seq(Blocks) BY <1>3 DEF ClientInv, Good
<1>8. ASSUME NEW i \in 1..Len(structs') PROVE Accounted(structs'[i], received', ids')
  <2>1. PICK j \in 1..Len(structs) : Leftover(structs'[i], structs[j], held, referenced) BY <1>5 DEF Remains
  <2>2. CASE Window(structs'[i], structs[j])
    <3>1. structs[j] \in Blocks BY <1>7
    <3>2. Accounted(structs[j], received, ids) BY DEF ClientInv
    <3> QED BY <3>1, <3>2, <2>2, <1>2, <1>7, AccountedPart
  <2>3. CASE structs'[i].kind = "gc" /\ \A k \in Nat : In(structs'[i], k) => Covers(held, k)
    <3>1. \A k \in Nat : In(structs'[i], k) => k \in ids' BY <2>3, <1>2, <1>4
    <3> QED BY <3>1, <2>3 DEF Accounted
  <2> QED BY <2>1, <2>2, <2>3 DEF Leftover, In
<1>9. ASSUME NEW p \in received', NEW k \in Nat, In(p, k) PROVE Held(structs', k)
  <2>1. Held(structs, k) BY <1>2, <1>9 DEF ClientInv
  <2> QED BY <2>1, <1>5
<1>10. ASSUME NEW k \in Nat, Held(structs', k) PROVE k \in ids' \/ \E p \in received' : In(p, k)
  <2>1. CASE Held(structs, k) BY <2>1, <1>2 DEF ClientInv
  <2>2. CASE Covers(held, k) BY <2>2, <1>2, <1>4
  <2> QED BY <2>1, <2>2, <1>5, <1>10
<1>11. received' \in SUBSET Blocks /\ \A p \in received' : ~IsSkip(p) BY <1>2 DEF ClientInv
<1> QED BY <1>5, <1>6, <1>8, <1>9, <1>10, <1>11 DEF ClientInv

\* In a collection a clock that is not deleted, or that is referred to, stays
\* with its struct.
LEMMA CollectionKeeps == ClientInv => CollectionSafe
<1> SUFFICES ASSUME ClientInv, NEW foreign \in SUBSET Foreign, NEW referenced,
                    referenced = ReferencesOf(structs) \cup foreign, NEW out,
                    out = CollectList(structs, held, referenced), NEW b \in ToSet(structs), NEW t \in ToSet(out),
                    NEW k \in Span(b) \cap Span(t), k \notin ids \/ <<Client, k>> \in referenced
             PROVE  Window(t, b)
  BY DEF CollectionSafe
<1>1. RangeInv /\ Good(structs) /\ structs \in Seq(Blocks) BY DEF ClientInv, Good
<1>2. Tidy(held) /\ ids = {h \in Nat : Covers(held, h)} BY <1>1 DEF RangeInv
<1>3. Good(out) /\ Remains(out, structs, held, referenced) BY <1>1, <1>2, ListCollected
<1>4. out \in Seq(Blocks) BY <1>3 DEF Good
<1>5. PICK n \in Nat : n = Len(structs) BY <1>1
<1>6. PICK i \in 1..n : b = structs[i] BY <1>1, <1>5, ElementsOf
<1>7. PICK x \in 1..Len(out) : t = out[x] BY <1>4, ElementsOf
<1>8. PICK j \in 1..n : Leftover(t, structs[j], held, referenced) BY <1>3, <1>5, <1>7 DEF Remains
<1>9. b \in Blocks /\ t \in Blocks /\ structs[j] \in Blocks BY <1>1, <1>4, <1>5, <1>6, <1>7
<1>10. /\ b.clock \in Nat /\ EndClock(b) \in Nat /\ t.clock \in Nat /\ EndClock(t) \in Nat
       /\ structs[j].clock \in Nat /\ EndClock(structs[j]) \in Nat
  BY <1>9, BlockBounds
<1>11. k \in Nat /\ b.clock <= k /\ k < EndClock(b) /\ t.clock <= k /\ k < EndClock(t) BY <1>10 DEF Span
<1>12. structs[j].clock <= t.clock /\ EndClock(t) <= EndClock(structs[j])
  <2>1. CASE Window(t, structs[j]) BY <2>1, <1>9, WindowBounds
  <2> QED BY <2>1, <1>8 DEF Leftover
<1>13. structs[j].clock <= k /\ k < EndClock(structs[j]) BY <1>10, <1>11, <1>12
<1>14. j = i
  <2>1. structs # <<>> BY <1>5, <1>6
  <2>2. PICK a, c : Row(structs, a, c) BY <2>1, <1>1 DEF Good
  <2>3. \A p, q \in 1..n : p < q => EndClock(structs[p]) <= structs[q].clock BY <2>2, <1>5 DEF Row
  <2>4. ~(i < j)
    <3>1. i < j => EndClock(b) <= structs[j].clock BY <2>3, <1>6
    <3> QED BY <3>1, <1>10, <1>11, <1>13
  <2>5. ~(j < i)
    <3>1. j < i => EndClock(structs[j]) <= b.clock BY <2>3, <1>6
    <3> QED BY <3>1, <1>10, <1>11, <1>13
  <2> QED BY <2>4, <2>5
<1>15. ~(Covers(held, k) /\ <<Client, k>> \notin referenced) BY <1>2, <1>11
<1> QED BY <1>6, <1>8, <1>11, <1>14, <1>15 DEF Leftover

\* It gives the answers to state vectors.
LEMMA ClientAnswers == ClientInv => AnswersComplete
<1> SUFFICES ASSUME ClientInv PROVE AnswersComplete OBVIOUS
<1>1. Good(structs) /\ structs \in Seq(Blocks) BY DEF ClientInv, Good
<1>2. ASSUME NEW clock \in 0..Top, NEW answer, answer = DiffList(structs, clock)
      PROVE  /\ WellFormed(answer)
             /\ Present(answer) = {k \in Present(structs) : k >= clock}
             /\ \A t \in ToSet(answer) : \E b \in ToSet(structs) : Window(t, b)
  <2>1. clock \in Nat BY RangeSetAssumption, WidthAssumption
  <2>2. /\ Good(answer) /\ \A k \in Nat : Held(answer, k) <=> Held(structs, k) /\ k >= clock
        /\ \A x \in 1..Len(answer) : \E j \in 1..Len(structs) : Window(answer[x], structs[j])
    BY <2>1, <1>1, <1>2, DiffIs
  <2>3. answer \in Seq(Blocks) BY <2>2 DEF Good
  <2>4. WellFormed(answer) BY <2>2, GoodWellFormed
  <2>5. \A k : k \in Present(answer) <=> k \in Nat /\ Held(answer, k) BY <2>3, PresentIs
  <2>6. \A k : k \in Present(structs) <=> k \in Nat /\ Held(structs, k) BY <1>1, PresentIs
  <2>7. Present(answer) = {k \in Present(structs) : k >= clock} BY <2>2, <2>5, <2>6
  <2>8. \A t \in ToSet(answer) : \E b \in ToSet(structs) : Window(t, b)
    <3>1. ASSUME NEW t \in ToSet(answer) PROVE \E b \in ToSet(structs) : Window(t, b)
      <4>1. PICK x \in 1..Len(answer) : t = answer[x] BY <2>3, ElementsOf
      <4>2. PICK j \in 1..Len(structs) : Window(answer[x], structs[j]) BY <2>2
      <4>3. structs[j] \in ToSet(structs) BY <1>1, ElementsOf
      <4> QED BY <4>1, <4>2, <4>3
    <3> QED BY <3>1
  <2> QED BY <2>4, <2>7, <2>8
<1>3. ASSUME NEW k \in 0..Top
      PROVE  k = CountV1(structs, FALSE) <=> k \notin Present(structs) /\ 0..(k - 1) \subseteq Present(structs)
  <2>1. PICK count : count = CountV1(structs, FALSE) OBVIOUS
  <2>2. count \in Nat /\ ~Held(structs, count) /\ \A j \in Nat : j < count => Held(structs, j)
    BY <2>1, <1>1, CountV1Is
  <2>3. \A j : j \in Present(structs) <=> j \in Nat /\ Held(structs, j) BY <1>1, PresentIs
  <2>4. k \in Nat BY RangeSetAssumption, WidthAssumption
  <2>5. ASSUME k = count PROVE k \notin Present(structs) /\ 0..(k - 1) \subseteq Present(structs)
    <3>1. \A j \in 0..(k - 1) : j \in Nat /\ j < count BY <2>4, <2>5
    <3> QED BY <3>1, <2>2, <2>3, <2>5
  <2>6. ASSUME k \notin Present(structs), 0..(k - 1) \subseteq Present(structs) PROVE k = count
    <3>1. ~(k < count) BY <2>2, <2>3, <2>4, <2>6
    <3>2. ~(count < k)
      <4>1. SUFFICES ASSUME count < k PROVE FALSE OBVIOUS
      <4>2. count \in 0..(k - 1) BY <4>1, <2>2, <2>4
      <4> QED BY <4>2, <2>2, <2>3, <2>6
    <3> QED BY <3>1, <3>2, <2>2, <2>4
  <2> QED BY <2>1, <2>5, <2>6
<1>4. ASSUME NEW k \in Present(structs) PROVE k < CountV2(structs)
  <2>1. k \in Nat /\ Held(structs, k) BY <1>1, PresentIs
  <2> QED BY <2>1, <1>1, CountV2Is
<1>5. CountV2(structs) = 0 \/ CountV2(structs) - 1 \in Present(structs) BY <1>1, CountV2Held, PresentIs
<1> QED BY <1>2, <1>3, <1>4, <1>5 DEF AnswersComplete

\* What a peer counts it holds, and what it does not count it is sent.
LEMMA ClientPeers == ClientInv => PeersCatchUp
<1> SUFFICES ASSUME ClientInv PROVE PeersCatchUp OBVIOUS
<1>1. Good(structs) /\ structs \in Seq(Blocks) BY DEF ClientInv, Good
<1>2. ASSUME NEW u \in Brought, NEW answer, answer = DiffList(structs, CountV1(u.list, FALSE))
      PROVE  Present(InsertList(Client, u.list, answer)) = Present(u.list) \cup Present(structs)
  <2>1. PICK own : own = u.list OBVIOUS
  <2>2. Good(own) BY <2>1, ClientStructsAssumption, WellFormedGood
  <2>3. own \in Seq(Blocks) BY <2>2 DEF Good
  <2>4. PICK count : count = CountV1(own, FALSE) OBVIOUS
  <2>5. count \in Nat /\ \A k \in Nat : k < count => Held(own, k) BY <2>2, <2>4, CountV1Is
  <2>6. answer = DiffList(structs, count) BY <1>2, <2>1, <2>4
  <2>7. Good(answer) /\ \A k \in Nat : Held(answer, k) <=> Held(structs, k) /\ k >= count
    BY <2>5, <2>6, <1>1, DiffIs
  <2>8. PICK out : out = InsertList(Client, own, answer) OBVIOUS
  <2>9. Good(out) /\ \A k \in Nat : Held(out, k) <=> Held(own, k) \/ Held(answer, k)
    BY <2>2, <2>7, <2>8, Inserted
  <2>10. out \in Seq(Blocks) BY <2>9 DEF Good
  <2>11. \A k \in Nat : Held(out, k) <=> Held(own, k) \/ Held(structs, k)
    <3>1. ASSUME NEW k \in Nat PROVE Held(out, k) <=> Held(own, k) \/ Held(structs, k)
      <4>1. k < count \/ k >= count BY <2>5
      <4> QED BY <4>1, <2>5, <2>7, <2>9
    <3> QED BY <3>1
  <2>12. \A k : k \in Present(out) <=> k \in Nat /\ Held(out, k) BY <2>10, PresentIs
  <2>13. \A k : k \in Present(own) <=> k \in Nat /\ Held(own, k) BY <2>3, PresentIs
  <2>14. \A k : k \in Present(structs) <=> k \in Nat /\ Held(structs, k) BY <1>1, PresentIs
  <2>15. Present(out) = Present(own) \cup Present(structs) BY <2>11, <2>12, <2>13, <2>14
  <2> QED BY <2>1, <2>8, <2>15
<1> QED BY <1>2 DEF PeersCatchUp

-----------------------------------------------------------------------------
(* Selections.                                                             *)

\* The states of a selection.
Selecting == [out : Seq(Blocks), next : 0..Top, stop : BOOLEAN]

\* The Skip between two selected parts.
SkipBetween(acc, from) ==
  IF acc.out # <<>> /\ from > acc.next
  THEN <<NewBlank("skip", Client, acc.next, from - acc.next)>> ELSE <<>>

\* A selection starts with nothing.
LEMMA EmptySelecting == [out |-> <<>>, next |-> 0, stop |-> FALSE] \in Selecting
<1>1. 0 \in 0..Top BY RangeSetAssumption, WidthAssumption
<1>2. <<>> \in Seq(Blocks) OBVIOUS
<1> QED BY <1>1, <1>2 DEF Selecting

\* What a range does to a selection.
LEMMA WrittenIs ==
  ASSUME NEW b \in Blocks, NEW acc \in Selecting, NEW r \in Ranges
  PROVE  LET from == IF r.clock >= b.clock THEN r.clock ELSE b.clock
             to   == IF End(r) <= EndClock(b) THEN End(r) ELSE EndClock(b)
         IN Written(b, acc, r) =
              IF from >= to THEN acc
              ELSE [acc EXCEPT !.out = (acc.out \o SkipBetween(acc, from)) \o <<SliceStruct(b, from - b.clock, EndClock(b) - to)>>,
                               !.next = to]
<1>1. b.clock \in Nat /\ EndClock(b) \in Nat BY BlockBounds
<1>2. r.clock \in Nat /\ End(r) \in Nat BY RangeBounds
<1>3. Max({r.clock, b.clock}) = (IF r.clock >= b.clock THEN r.clock ELSE b.clock)
  <2>1. PICK x \in Int : x = r.clock BY <1>2
  <2>2. PICK y \in Int : y = b.clock BY <1>1
  <2>3. Max({x, y}) = (IF x >= y THEN x ELSE y) BY MaxMin
  <2> QED BY <2>1, <2>2, <2>3
<1>4. Min({End(r), EndClock(b)}) = (IF End(r) <= EndClock(b) THEN End(r) ELSE EndClock(b))
  <2>1. PICK x \in Int : x = End(r) BY <1>2
  <2>2. PICK y \in Int : y = EndClock(b) BY <1>1
  <2>3. Min({x, y}) = (IF x <= y THEN x ELSE y) BY MaxMin
  <2> QED BY <2>1, <2>2, <2>3
<1>5. PICK from : from = IF r.clock >= b.clock THEN r.clock ELSE b.clock OBVIOUS
<1>6. PICK to : to = IF End(r) <= EndClock(b) THEN End(r) ELSE EndClock(b) OBVIOUS
<1>7. b.client = Client BY DEF Blocks, Structs
<1>8. PICK o : o = (acc.out \o SkipBetween(acc, from)) \o <<SliceStruct(b, from - b.clock, EndClock(b) - to)>> OBVIOUS
<1>9. Written(b, acc, r) = IF from >= to THEN acc ELSE [acc EXCEPT !.out = o, !.next = to]
  BY <1>3, <1>4, <1>5, <1>6, <1>7, <1>8 DEF Written, SkipBetween
<1> QED BY <1>5, <1>6, <1>8, <1>9

\* The part of a struct that a range selects, and the Skip before it.
LEMMA PartSelected ==
  ASSUME NEW b \in Blocks, NEW acc \in Selecting, NEW from \in Nat, NEW to \in Nat,
         b.clock <= from, from < to, to <= EndClock(b)
  PROVE  /\ \A t : t = SliceStruct(b, from - b.clock, EndClock(b) - to) =>
                t \in Blocks /\ t.clock = from /\ EndClock(t) = to /\ t.kind = b.kind /\ Window(t, b)
         /\ SkipBetween(acc, from) \in Seq(Blocks)
         /\ \A x \in 1..Len(SkipBetween(acc, from)) : IsSkip(SkipBetween(acc, from)[x])
         /\ acc.out # <<>> /\ acc.next <= from => Row(SkipBetween(acc, from), acc.next, from)
         /\ acc.out = <<>> => SkipBetween(acc, from) = <<>>
         /\ to \in 0..Top
<1>1. b.clock \in Nat /\ EndClock(b) \in Nat /\ EndClock(b) <= Top /\ Top \in Nat BY BlockBounds
<1>2. PICK t : t = SliceStruct(b, from - b.clock, EndClock(b) - to) OBVIOUS
<1>3. from - b.clock \in Nat /\ EndClock(b) - to \in Nat BY <1>1
<1>4. (from - b.clock) + (EndClock(b) - to) < EndClock(b) - b.clock BY <1>1
<1>5. t \in Blocks /\ t.clock = b.clock + (from - b.clock) /\ EndClock(t) = EndClock(b) - (EndClock(b) - to)
      /\ t.kind = b.kind /\ Window(t, b)
  BY <1>2, <1>3, <1>4, SliceBounds
<1>6. b.clock + (from - b.clock) = from /\ EndClock(b) - (EndClock(b) - to) = to BY <1>1
<1>7. to \in 0..Top /\ from <= Top BY <1>1
<1>8. acc.next \in Nat BY <1>1 DEF Selecting
<1>9. PICK gap : gap = SkipBetween(acc, from) OBVIOUS
<1>10. CASE acc.out # <<>> /\ from > acc.next
  <2>1. PICK z : z = NewBlank("skip", Client, acc.next, from - acc.next) OBVIOUS
  <2>2. z \in Blocks /\ z.clock = acc.next /\ EndClock(z) = from /\ z.kind = "skip"
    BY <2>1, <1>7, <1>8, <1>10, BlankIs
  <2>3. gap = <<z>> BY <2>1, <1>9, <1>10 DEF SkipBetween
  <2>4. gap \in Seq(Blocks) /\ Row(gap, acc.next, from) BY <2>2, <2>3, RowOfOne
  <2>5. \A x \in 1..Len(<<z>>) : <<z>>[x] = z OBVIOUS
  <2>6. \A x \in 1..Len(gap) : IsSkip(gap[x]) BY <2>2, <2>3, <2>5 DEF IsSkip
  <2> QED BY <2>4, <2>6, <1>2, <1>5, <1>6, <1>7, <1>9, <1>10
<1>11. CASE ~(acc.out # <<>> /\ from > acc.next)
  <2>1. gap = <<>> BY <1>9, <1>11 DEF SkipBetween
  <2>2. acc.out # <<>> /\ acc.next <= from => acc.next = from BY <1>8, <1>11
  <2>3. Row(<<>>, from, from) BY RowOfNone
  <2>4. acc.out # <<>> /\ acc.next <= from => Row(gap, acc.next, from) BY <2>1, <2>2, <2>3
  <2>5. gap \in Seq(Blocks) /\ \A x \in 1..Len(gap) : IsSkip(gap[x]) BY <2>1
  <2> QED BY <2>1, <2>4, <2>5, <1>2, <1>5, <1>6, <1>7, <1>9
<1> QED BY <1>10, <1>11

\* A selection stays in its states.
LEMMA WrittenTyped ==
  ASSUME NEW b \in Blocks, NEW acc \in Selecting, NEW r \in Ranges
  PROVE  Written(b, acc, r) \in Selecting
<1>1. b.clock \in Nat /\ EndClock(b) \in Nat BY BlockBounds
<1>2. r.clock \in Nat /\ End(r) \in Nat BY RangeBounds
<1>3. PICK from \in Nat : from = IF r.clock >= b.clock THEN r.clock ELSE b.clock BY <1>1, <1>2
<1>4. PICK to \in Nat : to = IF End(r) <= EndClock(b) THEN End(r) ELSE EndClock(b) BY <1>1, <1>2
<1>5. PICK t : t = SliceStruct(b, from - b.clock, EndClock(b) - to) OBVIOUS
<1>6. PICK gap : gap = SkipBetween(acc, from) OBVIOUS
<1>7. PICK v : v = Written(b, acc, r) OBVIOUS
<1>8. v = IF from >= to THEN acc ELSE [acc EXCEPT !.out = (acc.out \o gap) \o <<t>>, !.next = to]
  BY <1>3, <1>4, <1>5, <1>6, <1>7, WrittenIs
<1>9. CASE from >= to BY <1>7, <1>8, <1>9
<1>10. CASE ~(from >= to)
  <2>1. b.clock <= from /\ from < to /\ to <= EndClock(b) BY <1>1, <1>2, <1>3, <1>4, <1>10
  <2>2. t \in Blocks /\ gap \in Seq(Blocks) /\ to \in 0..Top BY <2>1, <1>5, <1>6, PartSelected
  <2>3. acc.out \in Seq(Blocks) /\ acc.stop \in BOOLEAN BY DEF Selecting
  <2>4. acc.out \o gap \in Seq(Blocks) BY <2>2, <2>3, ConcatProperties
  <2>5. <<t>> \in Seq(Blocks) BY <2>2, RowOfOne
  <2>6. (acc.out \o gap) \o <<t>> \in Seq(Blocks) BY <2>4, <2>5, ConcatProperties
  <2> QED BY <2>2, <2>3, <2>6, <1>7, <1>8, <1>10 DEF Selecting
<1> QED BY <1>9, <1>10

\* The ranges one by one.
LEMMA WritesStep ==
  ASSUME NEW b \in Blocks, NEW first \in Selecting, NEW s \in Seq(Ranges)
  PROVE  /\ Writes(b, first, s)[0] = first
         /\ \A i \in 1..Len(s) : Writes(b, first, s)[i] = Written(b, Writes(b, first, s)[i - 1], s[i])
         /\ \A i \in 0..Len(s) : Writes(b, first, s)[i] \in Selecting
<1>1. PICK n \in Nat : n = Len(s) OBVIOUS
<1> DEFINE Step(i, v) == Written(b, v, s[i])
           Raw(p) == p = [i \in 0..n |-> IF i = 0 THEN first ELSE Step(i, p[i - 1])]
<1>2. PICK V : V = Selecting OBVIOUS
<1>3. \A i \in 1..n, v \in V : Step(i, v) \in V
  <2>1. ASSUME NEW i \in 1..n, NEW v \in V PROVE Step(i, v) \in V
    <3>1. s[i] \in Ranges /\ v \in Selecting BY <1>1, <1>2
    <3> QED BY <3>1, <1>2, WrittenTyped
  <2> QED BY <2>1
<1>4. first \in V BY <1>2
<1>5. PICK start \in V : start = first BY <1>4
<1>6. Writes(b, first, s) = CHOOSE q : Raw(q) BY <1>1 DEF Writes
<1> DEFINE Is(p) == p = [i \in 0..n |-> IF i = 0 THEN start ELSE Step(i, p[i - 1])]
<1> HIDE DEF Step
<1>7. \A q : Raw(q) <=> Is(q) BY <1>5
<1> HIDE DEF Raw
<1>8. PICK G : G = [i \in 1..n |-> [v \in V |-> Step(i, v)]] OBVIOUS
<1>9. G \in [1..n -> [V -> V]] BY <1>3, <1>8
<1>10. Defined(n, V, start, G) BY <1>9, Recursion
<1>11. \A i \in 1..n, v \in V : G[i][v] = Step(i, v) BY <1>8
<1>12. PICK p \in [0..n -> V] : p[0] = start /\ \A i \in 1..n : p[i] = G[i][p[i - 1]]
  BY <1>10 DEF Defined
<1>13. ASSUME NEW i \in 1..n PROVE p[i] = Step(i, p[i - 1])
  <2>1. i - 1 \in 0..n OBVIOUS
  <2>2. p[i - 1] \in V BY <2>1
  <2> QED BY <2>2, <1>11, <1>12
<1>14. Is(p)
  <2>1. ASSUME NEW i \in 0..n PROVE p[i] = IF i = 0 THEN start ELSE Step(i, p[i - 1])
    BY <1>12, <1>13
  <2> QED BY <2>1
<1>15. PICK f : f = Writes(b, first, s) OBVIOUS
<1>16. Raw(f) BY <1>14, <1>7, <1>6, <1>15
<1>17. Is(f) BY <1>7, <1>16
<1>18. f[0] = start BY <1>17
<1>19. \A i \in 1..n : f[i] = Step(i, f[i - 1]) BY <1>17
<1>20. \A i \in 1..n : f[i - 1] \in V => f[i] \in V BY <1>19, <1>3
<1>21. \A i \in 0..n : f[i] \in V BY <1>18, <1>20, RecursionType
<1> QED BY <1>1, <1>2, <1>5, <1>15, <1>18, <1>19, <1>21 DEF Step

\* A struct of the list leaves a selection in its states.
LEMMA SelectStructTyped ==
  ASSUME NEW b \in Blocks, NEW acc \in Selecting, NEW s \in Seq(Ranges)
  PROVE  SelectStruct(b, acc, s) \in Selecting
<1>1. [acc EXCEPT !.stop = TRUE] \in Selecting BY DEF Selecting
<1>2. Len(s) \in 0..Len(s) OBVIOUS
<1>3. Writes(b, acc, s)[Len(s)] \in Selecting BY <1>2, WritesStep
<1> QED BY <1>1, <1>3 DEF SelectStruct

\* A selection consists of Skips and of windows of the list's structs.
Excerpt(out, list) ==
  \A x \in 1..Len(out) : IsSkip(out[x]) \/ \E j \in 1..Len(list) : Window(out[x], list[j])

\* Excerpts, one after the other.
LEMMA ExcerptConcat ==
  ASSUME NEW s \in Seq(Blocks), NEW t \in Seq(Blocks), NEW list, Excerpt(s, list), Excerpt(t, list)
  PROVE  Excerpt(s \o t, list)
<1>1. PICK m \in Nat, n \in Nat : m = Len(s) /\ n = Len(t) OBVIOUS
<1>2. PICK o : o = s \o t OBVIOUS
<1>3. Len(o) = m + n BY <1>1, <1>2, ConcatProperties
<1>4. ASSUME NEW x \in 1..Len(o) PROVE IsSkip(o[x]) \/ \E j \in 1..Len(list) : Window(o[x], list[j])
  <2>1. CASE x <= m
    <3>1. x \in 1..m BY <2>1, <1>3, <1>4
    <3>2. o[x] = s[x] BY <3>1, <1>1, <1>2, ConcatProperties
    <3> QED BY <3>1, <3>2, <1>1 DEF Excerpt
  <2>2. CASE x > m
    <3>1. x - m \in 1..n BY <2>2, <1>1, <1>3, <1>4
    <3>2. o[x] = t[x - m]
      <4>1. x \in (m + 1)..(m + n) BY <2>2, <1>1, <1>3, <1>4
      <4> QED BY <4>1, <2>2, <1>1, <1>2, ConcatProperties
    <3> QED BY <3>1, <3>2, <1>1 DEF Excerpt
  <2>3. x \in Nat BY <1>1, <1>3
  <2> QED BY <2>1, <2>2, <2>3
<1> QED BY <1>2, <1>4 DEF Excerpt

\* What is out is a row up to `next` without a Skip at its ends.
Closed(acc) == acc.out # <<>> => Solid(acc.out) /\ Row(acc.out, acc.out[1].clock, acc.next)

\* After i ranges, the parts of a struct in them have been added to `first`.
WrittenTo(b, list, s, first, i, acc) ==
  /\ acc \in Selecting /\ acc.stop = first.stop
  /\ Closed(acc) /\ Excerpt(acc.out, list)
  /\ acc.next <= EndClock(b)
  /\ acc.next <= b.clock \/ \E j \in 1..i : acc.next <= End(s[j])
  /\ \A k \in Nat : Held(acc.out, k) <=> Held(first.out, k) \/ (In(b, k) /\ \E j \in 1..i : ContainsClock(s[j], k))

\* A range adds its part.
LEMMA WrittenAdds ==
  ASSUME NEW list \in Seq(Blocks), NEW m \in 1..Len(list), NEW b, b = list[m], ~IsSkip(b), NEW s, Tidy(s),
         NEW first, NEW i \in 1..Len(s), NEW acc, WrittenTo(b, list, s, first, i - 1, acc)
  PROVE  WrittenTo(b, list, s, first, i, Written(b, acc, s[i]))
<1>1. s \in Seq(Ranges) /\ b \in Blocks BY DEF Tidy
<1>2. PICK n \in Nat : n = Len(s) BY <1>1
<1>3. PICK r \in Ranges : r = s[i] BY <1>1
<1>4. b.clock \in Nat /\ EndClock(b) \in Nat /\ b.clock < EndClock(b) BY <1>1, BlockBounds
<1>5. b \in Blocks BY <1>1
<1>6. r.clock \in Nat /\ End(r) \in Nat /\ r.clock < End(r) BY RangeBounds
<1>7. acc \in Selecting /\ Closed(acc) /\ Excerpt(acc.out, list) /\ acc.stop = first.stop /\ acc.next <= EndClock(b)
  BY DEF WrittenTo
<1>8. acc \in Selecting BY <1>7
<1>9. acc.next \in Nat /\ acc.out \in Seq(Blocks) BY <1>7, RangeSetAssumption, WidthAssumption DEF Selecting
<1>10. PICK from \in Nat : from = IF r.clock >= b.clock THEN r.clock ELSE b.clock BY <1>4, <1>6
<1>11. PICK to \in Nat : to = IF End(r) <= EndClock(b) THEN End(r) ELSE EndClock(b) BY <1>4, <1>6
<1>12. PICK t : t = SliceStruct(b, from - b.clock, EndClock(b) - to) OBVIOUS
<1>13. PICK gap : gap = SkipBetween(acc, from) OBVIOUS
<1>14. PICK v : v = Written(b, acc, r) OBVIOUS
<1>15. v = IF from >= to THEN acc ELSE [acc EXCEPT !.out = (acc.out \o gap) \o <<t>>, !.next = to]
  BY <1>5, <1>8, <1>10, <1>11, <1>12, <1>13, <1>14, WrittenIs
<1>16. v \in Selecting BY <1>1, <1>7, <1>14, WrittenTyped
<1>17. i \in 1..n /\ i \in 1..i /\ \A j : j \in 1..i <=> j \in 1..(i - 1) \/ j = i BY <1>2
<1>18. \A k \in Nat : from <= k /\ k < to <=> In(b, k) /\ ContainsClock(s[i], k)
  BY <1>3, <1>4, <1>6, <1>10, <1>11 DEF In, ContainsClock
<1>19. \A k \in Nat : (\E j \in 1..i : ContainsClock(s[j], k)) <=> (\E j \in 1..(i - 1) : ContainsClock(s[j], k)) \/ ContainsClock(s[i], k)
  BY <1>17
<1>20. \A k \in Nat : Held(acc.out, k) <=> Held(first.out, k) \/ (In(b, k) /\ \E j \in 1..(i - 1) : ContainsClock(s[j], k))
  BY DEF WrittenTo
<1>21. CASE from >= to
  <2>1. v = acc BY <1>15, <1>21
  <2>2. \A k \in Nat : ~(from <= k /\ k < to) BY <1>21
  <2>3. \A k \in Nat : Held(acc.out, k) <=> Held(first.out, k) \/ (In(b, k) /\ \E j \in 1..i : ContainsClock(s[j], k))
    BY <2>2, <1>18, <1>19, <1>20
  <2>4. acc.next <= b.clock \/ \E j \in 1..i : acc.next <= End(s[j]) BY <1>17 DEF WrittenTo
  <2> QED BY <2>1, <2>3, <2>4, <1>3, <1>7, <1>14 DEF WrittenTo
<1>22. CASE ~(from >= to)
  <2>1. b.clock <= from /\ from < to /\ to <= EndClock(b) /\ to <= End(r) BY <1>4, <1>6, <1>10, <1>11, <1>22
  <2>2. acc.next <= from
    <3>1. CASE acc.next <= b.clock BY <3>1, <2>1, <1>4, <1>9
    <3>2. CASE \E j \in 1..(i - 1) : acc.next <= End(s[j])
      <4>1. PICK j \in 1..(i - 1) : acc.next <= End(s[j]) BY <3>2
      <4>2. j \in 1..n /\ j < i BY <1>2
      <4>3. End(s[j]) < r.clock BY <4>2, <1>2, <1>3 DEF Tidy
      <4>4. s[j] \in Ranges BY <4>2, <1>1, <1>2
      <4>5. End(s[j]) \in Nat BY <4>4, RangeBounds
      <4>6. r.clock <= from BY <1>4, <1>6, <1>10
      <4> QED BY <4>1, <4>3, <4>5, <4>6, <1>6, <1>9
    <3> QED BY <3>1, <3>2 DEF WrittenTo
  <2>3. t \in Blocks /\ t.clock = from /\ EndClock(t) = to /\ t.kind = b.kind /\ Window(t, b)
    <3>1. \A u : u = SliceStruct(b, from - b.clock, EndClock(b) - to) =>
            u \in Blocks /\ u.clock = from /\ EndClock(u) = to /\ u.kind = b.kind /\ Window(u, b)
      BY <2>1, <1>5, <1>8, PartSelected
    <3> QED BY <3>1, <1>12
  <2>4. gap \in Seq(Blocks) /\ \A x \in 1..Len(gap) : IsSkip(gap[x]) BY <2>1, <1>5, <1>8, <1>13, PartSelected
  <2>5. (acc.out # <<>> => Row(gap, acc.next, from)) /\ (acc.out = <<>> => gap = <<>>)
    BY <2>1, <2>2, <1>5, <1>8, <1>13, PartSelected
  <2>6. ~IsSkip(t) BY <2>3 DEF IsSkip
  <2>7. <<t>> \in Seq(Blocks) /\ Row(<<t>>, from, to) /\ \A k : Held(<<t>>, k) <=> from <= k /\ k < to
    BY <2>3, <2>6, RowOfOne
  <2>8. PICK p : p = acc.out \o gap OBVIOUS
  <2>9. PICK o : o = p \o <<t>> OBVIOUS
  <2>10. v = [acc EXCEPT !.out = o, !.next = to] BY <2>8, <2>9, <1>15, <1>22
  <2>11. v.out = o /\ v.next = to /\ v.stop = first.stop BY <2>10, <1>7 DEF Selecting
  <2>12. p \in Seq(Blocks) BY <2>4, <2>8, <1>9, ConcatProperties
  <2>13. o \in Seq(Blocks) BY <2>7, <2>9, <2>12, ConcatProperties
  <2>14. Excerpt(o, list)
    <3>1. Excerpt(gap, list) BY <2>4 DEF Excerpt
    <3>2. \A x \in 1..Len(<<t>>) : <<t>>[x] = t OBVIOUS
    <3>3. Excerpt(<<t>>, list) BY <3>2, <2>3 DEF Excerpt
    <3>4. Excerpt(p, list) BY <3>1, <2>4, <2>8, <1>7, <1>9, ExcerptConcat
    <3> QED BY <3>3, <3>4, <2>7, <2>9, <2>12, ExcerptConcat
  <2>15. /\ Solid(o) /\ Row(o, o[1].clock, to)
         /\ \A k \in Nat : Held(o, k) <=> Held(acc.out, k) \/ (from <= k /\ k < to)
    <3>1. \A x \in 1..Len(<<t>>) : ~IsSkip(<<t>>[x]) BY <2>6
    <3>2. CASE acc.out = <<>>
      <4>1. p = <<>> BY <3>2, <2>5, <2>8
      <4>2. o = <<t>> BY <4>1, <2>7, <2>9
      <4>3. o # <<>> /\ o[1] = t /\ Len(o) = 1 BY <4>2
      <4>4. Solid(o) BY <4>3, <2>6 DEF Solid
      <4>5. \A k : ~Held(acc.out, k) BY <3>2, RowOfNone
      <4> QED BY <4>2, <4>3, <4>4, <4>5, <2>3, <2>7
    <3>3. CASE acc.out # <<>>
      <4>1. PICK a : a = acc.out[1].clock OBVIOUS
      <4>2. Solid(acc.out) /\ Row(acc.out, a, acc.next) BY <4>1, <3>3, <1>7 DEF Closed
      <4>3. Row(p, a, from) /\ \A k : Held(p, k) <=> Held(acc.out, k) \/ Held(gap, k)
        BY <4>2, <3>3, <2>5, <2>8, RowConcat
      <4>4. Row(o, a, to) /\ \A k : Held(o, k) <=> Held(p, k) \/ Held(<<t>>, k) BY <4>3, <2>7, <2>9, RowConcat
      <4>5. \A k : ~Held(gap, k) BY <2>4 DEF Held
      <4>6. Len(acc.out) \in Nat /\ 1 \in 1..Len(acc.out) BY <3>3, <1>9
      <4>7. Len(p) = Len(acc.out) + Len(gap) /\ p[1] = acc.out[1] BY <4>6, <2>4, <2>8, <1>9, ConcatProperties
      <4>8. 1 \in 1..Len(p) BY <4>6, <4>7, <2>4
      <4>9. o[1] = p[1] BY <4>8, <2>7, <2>9, <2>12, ConcatProperties
      <4>10. ~IsSkip(p[1]) BY <4>2, <4>7 DEF Solid
      <4>11. <<t>> # <<>> OBVIOUS
      <4>12. Solid(o) BY <4>10, <4>11, <3>1, <2>7, <2>9, <2>12, SolidConcat
      <4> QED BY <4>1, <4>3, <4>4, <4>5, <4>7, <4>9, <4>12, <2>7
    <3> QED BY <3>2, <3>3
  <2>16. Closed(v) BY <2>11, <2>15 DEF Closed
  <2>17. \A k \in Nat : Held(v.out, k) <=> Held(first.out, k) \/ (In(b, k) /\ \E j \in 1..i : ContainsClock(s[j], k))
    <3>1. ASSUME NEW k \in Nat
          PROVE  Held(v.out, k) <=> Held(first.out, k) \/ (In(b, k) /\ \E j \in 1..i : ContainsClock(s[j], k))
      <4>1. Held(v.out, k) <=> Held(acc.out, k) \/ (In(b, k) /\ ContainsClock(s[i], k)) BY <2>11, <2>15, <1>18
      <4> QED BY <4>1, <1>19, <1>20
    <3> QED BY <3>1
  <2>18. \E j \in 1..i : v.next <= End(s[j]) BY <2>1, <2>11, <1>3, <1>17
  <2> QED BY <2>1, <2>11, <2>14, <2>16, <2>17, <2>18, <1>3, <1>14, <1>16 DEF WrittenTo
<1> QED BY <1>21, <1>22

\* All the ranges together add what they select of the struct.
LEMMA WritesAdd ==
  ASSUME NEW list \in Seq(Blocks), NEW m \in 1..Len(list), NEW b, b = list[m], ~IsSkip(b), NEW s, Tidy(s),
         NEW first \in Selecting, Closed(first), Excerpt(first.out, list), first.next <= b.clock
  PROVE  WrittenTo(b, list, s, first, Len(s), Writes(b, first, s)[Len(s)])
<1>1. s \in Seq(Ranges) /\ b \in Blocks BY DEF Tidy
<1>2. PICK n \in Nat : n = Len(s) BY <1>1
<1>3. PICK f : f = Writes(b, first, s) OBVIOUS
<1>4. f[0] = first /\ \A i \in 1..n : f[i] = Written(b, f[i - 1], s[i]) BY <1>1, <1>2, <1>3, WritesStep
<1>5. PICK P : P = {i \in 0..n : WrittenTo(b, list, s, first, i, f[i])} OBVIOUS
<1>6. 0 \in P
  <2>1. b.clock \in Nat /\ EndClock(b) \in Nat /\ b.clock < EndClock(b) BY <1>1, BlockBounds
  <2>2. first.next \in Nat BY RangeSetAssumption, WidthAssumption DEF Selecting
  <2>3. first.next <= EndClock(b) BY <2>1, <2>2
  <2>4. ~\E j \in 1..0 : TRUE OBVIOUS
  <2>5. WrittenTo(b, list, s, first, 0, first) BY <2>3, <2>4 DEF WrittenTo
  <2> QED BY <2>5, <1>4, <1>5
<1>7. ASSUME NEW i \in 0..(n - 1), i \in P PROVE i + 1 \in P
  <2>1. i + 1 \in 1..n /\ (i + 1) - 1 = i /\ i + 1 \in 0..n OBVIOUS
  <2>2. f[i + 1] = Written(b, f[i], s[i + 1]) BY <2>1, <1>4
  <2>3. WrittenTo(b, list, s, first, (i + 1) - 1, f[i]) BY <2>1, <1>5, <1>7
  <2>4. i + 1 \in 1..Len(s) BY <2>1, <1>2
  <2>5. WrittenTo(b, list, s, first, i + 1, f[i + 1]) BY <2>2, <2>3, <2>4, WrittenAdds
  <2> QED BY <2>1, <2>5, <1>5
<1>8. \A i \in 0..n : i \in P BY <1>6, <1>7, UpTo
<1>9. n \in P BY <1>8
<1> QED BY <1>2, <1>3, <1>5, <1>9

\* The structs one by one.
LEMMA SelectionsStep ==
  ASSUME NEW list \in Seq(Blocks), NEW s \in Seq(Ranges)
  PROVE  /\ Selections(list, s)[0] = [out |-> <<>>, next |-> 0, stop |-> FALSE]
         /\ \A i \in 1..Len(list) : Selections(list, s)[i] = SelectStruct(list[i], Selections(list, s)[i - 1], s)
         /\ \A i \in 0..Len(list) : Selections(list, s)[i] \in Selecting
<1>1. PICK n \in Nat : n = Len(list) OBVIOUS
<1> DEFINE Step(i, v) == SelectStruct(list[i], v, s)
           Raw(p) == p = [i \in 0..n |-> IF i = 0 THEN [out |-> <<>>, next |-> 0, stop |-> FALSE] ELSE Step(i, p[i - 1])]
<1>2. PICK V : V = Selecting OBVIOUS
<1>3. \A i \in 1..n, v \in V : Step(i, v) \in V
  <2>1. ASSUME NEW i \in 1..n, NEW v \in V PROVE Step(i, v) \in V
    <3>1. list[i] \in Blocks /\ v \in Selecting BY <1>1, <1>2
    <3> QED BY <3>1, <1>2, SelectStructTyped
  <2> QED BY <2>1
<1>4. [out |-> <<>>, next |-> 0, stop |-> FALSE] \in V BY <1>2, EmptySelecting
<1>5. PICK b \in V : b = [out |-> <<>>, next |-> 0, stop |-> FALSE] BY <1>4
<1>6. Selections(list, s) = CHOOSE q : Raw(q) BY <1>1 DEF Selections
<1> DEFINE Is(p) == p = [i \in 0..n |-> IF i = 0 THEN b ELSE Step(i, p[i - 1])]
<1> HIDE DEF Step
<1>7. \A q : Raw(q) <=> Is(q) BY <1>5
<1> HIDE DEF Raw
<1>8. PICK G : G = [i \in 1..n |-> [v \in V |-> Step(i, v)]] OBVIOUS
<1>9. G \in [1..n -> [V -> V]] BY <1>3, <1>8
<1>10. Defined(n, V, b, G) BY <1>9, Recursion
<1>11. \A i \in 1..n, v \in V : G[i][v] = Step(i, v) BY <1>8
<1>12. PICK p \in [0..n -> V] : p[0] = b /\ \A i \in 1..n : p[i] = G[i][p[i - 1]]
  BY <1>10 DEF Defined
<1>13. ASSUME NEW i \in 1..n PROVE p[i] = Step(i, p[i - 1])
  <2>1. i - 1 \in 0..n OBVIOUS
  <2>2. p[i - 1] \in V BY <2>1
  <2> QED BY <2>2, <1>11, <1>12
<1>14. Is(p)
  <2>1. ASSUME NEW i \in 0..n PROVE p[i] = IF i = 0 THEN b ELSE Step(i, p[i - 1])
    BY <1>12, <1>13
  <2> QED BY <2>1
<1>15. PICK f : f = Selections(list, s) OBVIOUS
<1>16. Raw(f) BY <1>14, <1>7, <1>6, <1>15
<1>17. Is(f) BY <1>7, <1>16
<1>18. f[0] = b BY <1>17
<1>19. \A i \in 1..n : f[i] = Step(i, f[i - 1]) BY <1>17
<1>20. \A i \in 1..n : f[i - 1] \in V => f[i] \in V BY <1>19, <1>3
<1>21. \A i \in 0..n : f[i] \in V BY <1>18, <1>20, RecursionType
<1> QED BY <1>1, <1>2, <1>5, <1>15, <1>18, <1>19, <1>21 DEF Step

\* Some range starts just where a struct ends.
Abuts(list, s) == \E j \in 1..Len(list), x \in 1..Len(s) : EndClock(list[j]) = s[x].clock

\* After i structs, what is out is what the ranges select of them, or nothing
\* because the client was dropped.
SelectedTo(list, s, i, acc) ==
  /\ acc \in Selecting
  /\ Closed(acc) /\ Excerpt(acc.out, list)
  /\ acc.stop => acc.out = <<>> /\ Abuts(list, s)
  /\ acc.next = 0 \/ \E j \in 1..i : acc.next <= EndClock(list[j])
  /\ ~acc.stop => \A k \in Nat :
       Held(acc.out, k) <=> Covers(s, k) /\ \E j \in 1..i : ~IsSkip(list[j]) /\ In(list[j], k)

\* A struct adds its part.
LEMMA StructSelected ==
  ASSUME NEW list \in Seq(Blocks), NEW a, NEW c, Row(list, a, c), NEW s, Tidy(s),
         NEW i \in 1..Len(list), NEW acc, SelectedTo(list, s, i - 1, acc)
  PROVE  SelectedTo(list, s, i, SelectStruct(list[i], acc, s))
<1>1. s \in Seq(Ranges) BY DEF Tidy
<1>2. PICK n \in Nat : n = Len(list) OBVIOUS
<1>3. PICK b \in Blocks : b = list[i] OBVIOUS
<1>4. b.clock \in Nat /\ EndClock(b) \in Nat /\ b.clock < EndClock(b) BY BlockBounds
<1>5. acc \in Selecting /\ Closed(acc) /\ Excerpt(acc.out, list) BY DEF SelectedTo
<1>6. acc.next \in Nat /\ acc.out \in Seq(Blocks) BY <1>5, RangeSetAssumption, WidthAssumption DEF Selecting
<1>7. i \in 1..n /\ i \in 1..i /\ \A j : j \in 1..i <=> j \in 1..(i - 1) \/ j = i BY <1>2
<1>8. acc.next <= b.clock
  <2>1. CASE acc.next = 0 BY <2>1, <1>4
  <2>2. CASE \E j \in 1..(i - 1) : acc.next <= EndClock(list[j])
    <3>1. PICK j \in 1..(i - 1) : acc.next <= EndClock(list[j]) BY <2>2
    <3>2. j \in 1..n /\ j < i BY <1>2
    <3>3. EndClock(list[j]) <= b.clock BY <3>2, <1>2, <1>3 DEF Row
    <3>4. list[j] \in Blocks BY <3>2, <1>2
    <3>5. EndClock(list[j]) \in Nat BY <3>4, BlockBounds
    <3> QED BY <3>1, <3>3, <3>5, <1>4, <1>6
  <2> QED BY <2>1, <2>2 DEF SelectedTo
<1>9. PICK v : v = SelectStruct(b, acc, s) OBVIOUS
<1>10. acc.next = 0 \/ \E j \in 1..i : acc.next <= EndClock(list[j]) BY <1>7 DEF SelectedTo
<1>11. \A k : (\E j \in 1..i : ~IsSkip(list[j]) /\ In(list[j], k))
              <=> (\E j \in 1..(i - 1) : ~IsSkip(list[j]) /\ In(list[j], k)) \/ (~IsSkip(b) /\ In(b, k))
  BY <1>3, <1>7
<1>12. CASE acc.stop \/ IsSkip(b)
  <2>1. v = acc BY <1>9, <1>12 DEF SelectStruct
  <2>2. ~acc.stop => \A k \in Nat :
          Held(acc.out, k) <=> Covers(s, k) /\ \E j \in 1..i : ~IsSkip(list[j]) /\ In(list[j], k)
    BY <1>11, <1>12 DEF SelectedTo
  <2>3. acc.stop => acc.out = <<>> /\ Abuts(list, s) BY DEF SelectedTo
  <2> QED BY <2>1, <2>2, <2>3, <1>3, <1>5, <1>9, <1>10 DEF SelectedTo
<1>13. CASE ~(acc.stop \/ IsSkip(b)) /\ Dropped(b, acc, s)
  <2>1. v = [acc EXCEPT !.stop = TRUE] BY <1>9, <1>13 DEF SelectStruct
  <2>2. v.out = acc.out /\ v.next = acc.next /\ v.stop = TRUE /\ v \in Selecting BY <2>1, <1>5 DEF Selecting
  <2>3. acc.out = <<>> BY <1>13 DEF Dropped
  <2>4. PICK r \in ToSet(s) : r.clock = EndClock(b) BY <1>13 DEF Dropped
  <2>5. PICK x \in 1..Len(s) : r = s[x] BY <2>4, <1>1 DEF ToSet
  <2>6. Abuts(list, s) BY <2>4, <2>5, <1>3 DEF Abuts
  <2>7. Closed(v) BY <2>2, <2>3 DEF Closed
  <2> QED BY <2>2, <2>3, <2>6, <2>7, <1>3, <1>5, <1>9, <1>10 DEF SelectedTo
<1>14. CASE ~(acc.stop \/ IsSkip(b)) /\ ~Dropped(b, acc, s)
  <2>1. v = Writes(b, acc, s)[Len(s)] BY <1>9, <1>14 DEF SelectStruct
  <2>2. WrittenTo(b, list, s, acc, Len(s), v) BY <2>1, <1>3, <1>5, <1>8, <1>14, WritesAdd
  <2>3. v \in Selecting /\ v.stop = acc.stop /\ Closed(v) /\ Excerpt(v.out, list) /\ v.next <= EndClock(b)
    BY <2>2 DEF WrittenTo
  <2>4. \A k \in Nat : Held(v.out, k) <=> Held(acc.out, k) \/ (In(b, k) /\ Covers(s, k)) BY <2>2 DEF WrittenTo, Covers
  <2>5. \A k \in Nat : Held(acc.out, k) <=> Covers(s, k) /\ \E j \in 1..(i - 1) : ~IsSkip(list[j]) /\ In(list[j], k)
    BY <1>14 DEF SelectedTo
  <2>6. \A k \in Nat : Held(v.out, k) <=> Covers(s, k) /\ \E j \in 1..i : ~IsSkip(list[j]) /\ In(list[j], k)
    BY <2>4, <2>5, <1>11, <1>14
  <2>7. \E j \in 1..i : v.next <= EndClock(list[j]) BY <2>3, <1>3, <1>7
  <2> QED BY <2>3, <2>6, <2>7, <1>3, <1>9, <1>14 DEF SelectedTo
<1> QED BY <1>12, <1>13, <1>14

\* What a selection by ranges makes of a list.
LEMMA ListSelected ==
  ASSUME NEW list, Good(list), NEW s, Tidy(s)
  PROVE  LET out == Selected(list, s)
         IN /\ Good(out) /\ Excerpt(out, list)
            /\ \/ \A k \in Nat : Held(out, k) <=> Held(list, k) /\ Covers(s, k)
               \/ out = <<>> /\ Abuts(list, s)
<1>1. list \in Seq(Blocks) /\ s \in Seq(Ranges) BY DEF Good, Tidy
<1>2. PICK n \in Nat : n = Len(list) BY <1>1
<1>3. PICK a, c : Row(list, a, c)
  <2>1. CASE list = <<>>
    <3>1. Row(list, 0, 0) BY <2>1, RowOfNone
    <3> QED BY <3>1
  <2>2. CASE list # <<>> BY <2>2 DEF Good
  <2> QED BY <2>1, <2>2
<1>4. PICK f : f = Selections(list, s) OBVIOUS
<1>5. f[0] = [out |-> <<>>, next |-> 0, stop |-> FALSE] /\ \A i \in 1..n : f[i] = SelectStruct(list[i], f[i - 1], s)
  BY <1>1, <1>2, <1>4, SelectionsStep
<1>6. PICK P : P = {i \in 0..n : SelectedTo(list, s, i, f[i])} OBVIOUS
<1>7. 0 \in P
  <2>1. f[0].out = <<>> /\ f[0].next = 0 /\ f[0].stop = FALSE /\ f[0] \in Selecting BY <1>5, EmptySelecting
  <2>2. \A k : ~Held(<<>>, k) BY RowOfNone
  <2>3. Closed(f[0]) /\ Excerpt(f[0].out, list) BY <2>1 DEF Closed, Excerpt
  <2>4. ~\E j \in 1..0 : TRUE OBVIOUS
  <2>5. SelectedTo(list, s, 0, f[0]) BY <2>1, <2>2, <2>3, <2>4 DEF SelectedTo
  <2> QED BY <2>5, <1>6
<1>8. ASSUME NEW i \in 0..(n - 1), i \in P PROVE i + 1 \in P
  <2>1. i + 1 \in 1..n /\ (i + 1) - 1 = i /\ i + 1 \in 0..n OBVIOUS
  <2>2. f[i + 1] = SelectStruct(list[i + 1], f[i], s) BY <2>1, <1>5
  <2>3. SelectedTo(list, s, (i + 1) - 1, f[i]) BY <2>1, <1>6, <1>8
  <2>4. i + 1 \in 1..Len(list) BY <2>1, <1>2
  <2>5. SelectedTo(list, s, i + 1, f[i + 1]) BY <2>2, <2>3, <2>4, <1>1, <1>3, StructSelected
  <2> QED BY <2>1, <2>5, <1>6
<1>9. \A i \in 0..n : i \in P BY <1>7, <1>8, UpTo
<1>10. PICK acc : acc = f[n] OBVIOUS
<1>11. SelectedTo(list, s, n, acc) BY <1>6, <1>9, <1>10
<1>12. PICK out : out = Selected(list, s) OBVIOUS
<1>13. out = acc.out BY <1>2, <1>4, <1>10, <1>12 DEF Selected
<1>14. Good(out)
  <2>1. out \in Seq(Blocks) BY <1>11, <1>13 DEF SelectedTo, Selecting
  <2>2. out # <<>> => Solid(out) /\ \E x, y : Row(out, x, y) BY <1>11, <1>13 DEF SelectedTo, Closed
  <2> QED BY <2>1, <2>2 DEF Good
<1>15. Excerpt(out, list) /\ (acc.stop => out = <<>> /\ Abuts(list, s)) BY <1>11, <1>13 DEF SelectedTo
<1>16. ~acc.stop => \A k \in Nat : Held(out, k) <=> Held(list, k) /\ Covers(s, k)
  BY <1>2, <1>11, <1>13 DEF SelectedTo, Held, In
<1> QED BY <1>12, <1>14, <1>15, <1>16

\* Selections from the document are exact.
LEMMA ClientSelections == ClientInv => SelectionsExact
<1> SUFFICES ASSUME ClientInv PROVE SelectionsExact OBVIOUS
<1>1. Good(structs) /\ structs \in Seq(Blocks) BY DEF ClientInv, Good
<1>2. ASSUME NEW ranges \in Operands, NEW got, got = Selected(structs, ranges)
      PROVE  /\ WellFormed(got)
             /\ \A t \in ToSet(got) : IsSkip(t) \/ \E b \in ToSet(structs) : Window(t, b)
             /\ \/ Present(got) = Present(structs) \cap Clocks(ranges)
                \/ got = <<>> /\ \E b \in ToSet(structs), r \in ToSet(ranges) : EndClock(b) = r.clock
  <2>1. Tidy(ranges) /\ Clocks(ranges) = {k \in Nat : Covers(ranges, k)} BY OperandTidy
  <2>2. /\ Good(got) /\ Excerpt(got, structs)
        /\ \/ \A k \in Nat : Held(got, k) <=> Held(structs, k) /\ Covers(ranges, k)
           \/ got = <<>> /\ Abuts(structs, ranges)
    BY <2>1, <1>1, <1>2, ListSelected
  <2>3. got \in Seq(Blocks) BY <2>2 DEF Good
  <2>4. WellFormed(got) BY <2>2, GoodWellFormed
  <2>5. ASSUME NEW t \in ToSet(got) PROVE IsSkip(t) \/ \E b \in ToSet(structs) : Window(t, b)
    <3>1. PICK x \in 1..Len(got) : t = got[x] BY <2>3, ElementsOf
    <3>2. CASE IsSkip(t) BY <3>2
    <3>3. CASE \E j \in 1..Len(structs) : Window(t, structs[j])
      <4>1. PICK j \in 1..Len(structs) : Window(t, structs[j]) BY <3>3
      <4>2. structs[j] \in ToSet(structs) BY <1>1, ElementsOf
      <4> QED BY <4>1, <4>2
    <3> QED BY <3>1, <3>2, <3>3, <2>2 DEF Excerpt
  <2>6. \A k : k \in Present(got) <=> k \in Nat /\ Held(got, k) BY <2>3, PresentIs
  <2>7. \A k : k \in Present(structs) <=> k \in Nat /\ Held(structs, k) BY <1>1, PresentIs
  <2>8. ASSUME \A k \in Nat : Held(got, k) <=> Held(structs, k) /\ Covers(ranges, k)
        PROVE  Present(got) = Present(structs) \cap Clocks(ranges)
    BY <2>1, <2>6, <2>7, <2>8
  <2>9. ASSUME Abuts(structs, ranges) PROVE \E b \in ToSet(structs), r \in ToSet(ranges) : EndClock(b) = r.clock
    <3>1. PICK j \in 1..Len(structs), x \in 1..Len(ranges) : EndClock(structs[j]) = ranges[x].clock BY <2>9 DEF Abuts
    <3>2. structs[j] \in ToSet(structs) BY <1>1, ElementsOf
    <3>3. ranges \in Seq(Ranges) BY <2>1 DEF Tidy
    <3>4. ranges[x] \in ToSet(ranges) BY <3>3 DEF ToSet
    <3> QED BY <3>1, <3>2, <3>4
  <2> QED BY <2>2, <2>4, <2>5, <2>8, <2>9
<1> QED BY <1>2 DEF SelectionsExact

-----------------------------------------------------------------------------
(* The structs of a client stay exact.                                     *)

\* Below the width, whatever updates are merged into a client's structs and
\* whenever they are collected, the structs are well-formed, no clock received is
\* lost and none invented, every struct is a part of one received or collected
\* and deleted, answers to state vectors are complete, and a peer that merges one
\* has everything both had, and a selection is what it selects or nothing
\* (MergeUpdates, garbageCollectStructs, DiffUpdate,
\* IntersectUpdateWithContentIDs).
THEOREM StructsStayExact ==
  ASSUME Top < Width
  PROVE  ClientSpec => []StructsExact
<1>1. ClientInv /\ [ClientNext]_clientVars => ClientInv'
  <2> SUFFICES ASSUME ClientInv, [ClientNext]_clientVars PROVE ClientInv' OBVIOUS
  <2>1. ASSUME NEW u \in Brought, Receive(u) PROVE ClientInv' BY <2>1, ReceiveInv
  <2>2. ASSUME NEW foreign \in SUBSET Foreign, CollectGarbage(foreign) PROVE ClientInv'
    BY <2>2, CollectGarbageInv
  <2>3. CASE UNCHANGED clientVars
    <3>1. held' = held /\ ids' = ids /\ structs' = structs /\ received' = received BY <2>3 DEF clientVars, rangeVars
    <3>2. RangeInv' BY <3>1 DEF ClientInv, RangeInv
    <3> QED BY <3>1, <3>2 DEF ClientInv
  <2> QED BY <2>1, <2>2, <2>3 DEF ClientNext
<1>2. ClientInv => StructsExact
  <2> SUFFICES ASSUME ClientInv PROVE StructsExact OBVIOUS
  <2>1. Good(structs) /\ structs \in Seq(Blocks) BY DEF ClientInv, Good
  <2>2. WellFormed(structs) BY <2>1, GoodWellFormed
  <2>3. ASSUME NEW b \in Blocks, NEW k PROVE k \in Span(b) <=> k \in Nat /\ In(b, k)
    <3>1. b.clock \in Nat /\ EndClock(b) \in Nat BY BlockBounds
    <3> QED BY <3>1 DEF Span, In
  <2>4. ASSUME NEW b \in ToSet(structs)
        PROVE  IsSkip(b) \/ (\E p \in received : Window(b, p)) \/ (b.kind = "gc" /\ Span(b) \subseteq ids)
    <3>1. PICK i \in 1..Len(structs) : b = structs[i] BY <2>1, ElementsOf
    <3>2. b \in Blocks /\ Accounted(b, received, ids) BY <3>1, <2>1 DEF ClientInv
    <3> QED BY <3>2, <2>3 DEF Accounted
  <2>5. received \in SUBSET Blocks BY DEF ClientInv
  <2>6. \A k : k \in UNION {Span(p) : p \in received} <=> k \in Nat /\ \E p \in received : In(p, k) BY <2>3, <2>5
  <2>7. \A k : k \in Present(structs) <=> k \in Nat /\ Held(structs, k) BY <2>1, PresentIs
  <2>8. UNION {Span(p) : p \in received} \subseteq Present(structs)
    <3>1. \A p \in received : \A k \in Nat : In(p, k) => Held(structs, k) BY DEF ClientInv
    <3> QED BY <3>1, <2>6, <2>7
  <2>9. Present(structs) \subseteq (UNION {Span(p) : p \in received}) \cup ids
    <3>1. PICK S : S = UNION {Span(p) : p \in received} OBVIOUS
    <3>2. ASSUME NEW k \in Present(structs) PROVE k \in S \cup ids
      <4>1. k \in Nat /\ Held(structs, k) BY <2>7
      <4>2. k \in ids \/ \E p \in received : In(p, k) BY <4>1 DEF ClientInv
      <4>3. (\E p \in received : In(p, k)) => k \in S BY <4>1, <3>1, <2>6
      <4> QED BY <4>2, <4>3
    <3> QED BY <3>1, <3>2
  <2> QED BY <2>2, <2>4, <2>8, <2>9, ClientAnswers, ClientPeers, ClientSelections, CollectionKeeps DEF StructsExact
<1> QED BY <1>1, <1>2, ClientInitInv, PTL DEF ClientSpec
=============================================================================
