---------------------------- MODULE Aggregation ----------------------------
(***************************************************************************)
(* The activity AggregateScores: the statistic over all valid scores, and  *)
(* the election of the answer whose own scores have the best statistic.    *)
(*                                                                         *)
(* A score is a record                                                     *)
(*   [answer, value, valid, error, reason, dims, cost]                     *)
(* with value in units that keep it an integer, error and reason telling   *)
(* whether Error is set and whether exactly one of inline reasoning and    *)
(* reference is there, and dims a function from dimensions to values.      *)
(* Averages are fractions <<numerator, denominator>>: the difference of    *)
(* two of them that are not equal is far beyond the epsilon 1e-9 of the    *)
(* code, for as few scores as a run takes.                                 *)
(***************************************************************************)
EXTENDS EventSink, Ordering, SequencesExt

CONSTANTS
    ScoreLists,     \* the sequences of scores to aggregate
    Policies,       \* [method, trim], trim in tenths
    MinValids,      \* values of MinValidScores
    Candidates,     \* input.Answers, by number: the order of their ids
    Malformed       \* sets of candidates that fail Answer.Validate

\* A slice of scores.
IsScoreList(list) ==
    /\ Len(list) \in Nat /\ DOMAIN list = 1..Len(list)
    /\ \A i \in DOMAIN list :
          /\ list[i].answer \in Nat /\ list[i].value \in Int /\ list[i].cost \in Int
          /\ {list[i].valid, list[i].error, list[i].reason} \subseteq BOOLEAN
          /\ \A d \in DOMAIN list[i].dims : list[i].dims[d] \in Int

ASSUME AggregationAssumption ==
    /\ \A list \in ScoreLists : IsScoreList(list)
    /\ Policies \subseteq [method: {"mean", "median", "trimmed_mean"}, trim: 0..5]
    /\ MinValids \subseteq Nat \ {0}
    /\ Candidates \subseteq Nat \ {0} /\ Candidates # {}
    /\ Malformed \subseteq SUBSET Candidates

VARIABLES
    ballot,         \* the input: scores, policy, minValid, malformed
    aggregating,    \* "idle", "given", "emit", "done" or "refused"
    verdict         \* the output, or <<>>

aggregationVars == <<ballot, aggregating, verdict>>

NoOne == 0      \* the empty WinnerAnswerID

(* ------------------------------- fractions ------------------------------ *)

Whole(n) == <<n, 1>>
Less(p, q) == p[1] * q[2] < q[1] * p[2]
Same(p, q) == p[1] * q[2] = q[1] * p[2]

Ascending(values) == Elements(values, Sorted(DOMAIN values, values))

(* --------------------------- statistics of values ----------------------- *)

\* calculateMeanValues
MeanValue(values) == IF values = <<>> THEN Whole(0) ELSE <<SumFunction(values), Len(values)>>

\* MUTANT of MedianValue: the values are not sorted.
MiddleValue(values) ==
    LET n == Len(values)
    IN  IF n = 0 THEN Whole(0)
        ELSE IF n % 2 = 1 THEN Whole(values[n \div 2 + 1])
        ELSE <<values[n \div 2] + values[n \div 2 + 1], 2>>

\* calculateMedianValues
MedianValue(values) ==
    LET sorted == Ascending(values)
        n == Len(values)
    IN  IF n = 0 THEN Whole(0)
        ELSE IF n % 2 = 1 THEN Whole(sorted[n \div 2 + 1])
        ELSE <<sorted[n \div 2] + sorted[n \div 2 + 1], 2>>

\* calculateTrimmedMeanValues
TrimmedMeanValue(values, trim) ==
    LET n == Len(values)
        cut == (n * trim) \div 10
    IN  IF 2 * cut >= n THEN MeanValue(values)
        ELSE MeanValue(SubSeq(Ascending(values), cut + 1, n - cut))

(* -------------------------- statistics of scores ------------------------ *)

\* Score.IsValid
IsValid(score) == score.valid /\ ~score.error

\* The scores of a list at some places of it, in their order.
ScoresAt(list, places) == Elements(list, InOrder(places))

\* filterValidScores
ValidAt(list) == {i \in DOMAIN list : IsValid(list[i])}
ValidScores(list) == ScoresAt(list, ValidAt(list))

Values(list) == [i \in DOMAIN list |-> list[i].value]

\* calculateMean, domain.AggregateScores
CalculateMean(list) == MeanValue(Values(ValidScores(list)))

\* calculateMedian
CalculateMedian(list) == MedianValue(Values(list))

\* calculateTrimmedMean
CalculateTrimmedMean(list, trim) ==
    LET n == Len(list)
        cut == (n * trim) \div 10
    IN  IF 2 * cut >= n THEN CalculateMean(list)
        ELSE MeanValue(SubSeq(Ascending(Values(list)), cut + 1, n - cut))

\* applyAggregationPolicy
AggregateScore(list, policy) ==
    CASE policy.method = "mean" -> CalculateMean(list)
      [] policy.method = "median" -> CalculateMedian(list)
      [] policy.method = "trimmed_mean" -> CalculateTrimmedMean(list, policy.trim)

\* AggregateDimensionalScores: the mean of each dimension over the valid scores
\* that have it.
DimensionMeans(list) ==
    LET names == UNION {DOMAIN list[i].dims : i \in ValidAt(list)}
        rated(d) == InOrder({i \in ValidAt(list) : d \in DOMAIN list[i].dims})
    IN  [d \in names |-> MeanValue([k \in DOMAIN rated(d) |-> list[rated(d)[k]].dims[d]])]

\* validateScoreReasoning
ReasoningFits(list) == \A i \in DOMAIN list : list[i].valid => list[i].reason

\* aggregateCosts
TotalCost(list) == SumFunction([i \in DOMAIN list |-> list[i].cost])

(* ------------------------------- the election --------------------------- *)

\* The policy applied to the scores of one answer.
AggregatedFor(a, list, policy) ==
    LET values == Values(ScoresAt(list, {i \in DOMAIN list : list[i].answer = a}))
    IN  CASE policy.method = "median" -> MedianValue(values)
          [] policy.method = "trimmed_mean" -> TrimmedMeanValue(values, policy.trim)
          [] OTHER -> MeanValue(values)

Standing(list) == {list[i].answer : i \in DOMAIN list} \cap Candidates

\* MUTANT of TopAnswers: the best single score decides, not the aggregate.
TopByScore(list, policy) ==
    LET best == Max({0} \cup {list[i].value : i \in DOMAIN list})
    IN  {list[i].answer : i \in {j \in DOMAIN list : list[j].value = best}} \cap Candidates

TopAnswers(list, policy) ==
    {a \in Standing(list) : \A b \in Standing(list) :
        ~Less(AggregatedFor(a, list, policy), AggregatedFor(b, list, policy))}

\* determineWinnerWithPolicyAggregation: the first of the best in the order of
\* the ids, and the others it is tied with.
Winner(list, policy) ==
    LET top == TopAnswers(list, policy)
        first == IF top = {} THEN NoOne ELSE Min(top)
    IN  [winner |-> first, tied |-> top \ {first}]

\* Score sc takes the lead from the best so far.
TakesLead(sc, best) ==
    \/ sc.value > best.value
    \/ sc.value = best.value /\ best.answer # NoOne /\ sc.answer < best.answer

\* The lead after the first n scores of a list; nobody has it with a score of 0.
Leading(list) ==
    LET best[n \in 0..Len(list)] ==
            IF n = 0 THEN [value |-> 0, answer |-> NoOne]
            ELSE IF TakesLead(list[n], best[n - 1])
            THEN [value |-> list[n].value, answer |-> list[n].answer]
            ELSE best[n - 1]
    IN  best

\* domain.DetermineWinner: by single scores, in their order.
DetermineWinner(list) ==
    LET counts == ScoresAt(list, {i \in ValidAt(list) : list[i].answer \in Candidates})
    IN  Leading(counts)[Len(counts)].answer

(* ------------------------------- the activity --------------------------- *)

\* Inputs that AggregateScoresInput.Validate accepts.
Ballots ==
    [scores: ScoreLists, policy: Policies, minValid: MinValids, malformed: Malformed]

AggregationInit(ballots) ==
    /\ ballot \in ballots
    /\ aggregating = "idle"
    /\ verdict = <<>>

Submit ==
    /\ aggregating = "idle"
    /\ aggregating' = "given"
    /\ UNCHANGED <<ballot, verdict>>

Output(in) ==
    LET counted == ValidScores(in.scores)
        elected == Winner(counted, in.policy)
    IN  [winner |-> elected.winner, tied |-> elected.tied,
         score |-> AggregateScore(counted, in.policy),
         valid |-> Len(counted), total |-> Len(in.scores),
         cost |-> TotalCost(in.scores), dims |-> DimensionMeans(counted)]

\* NewVerdictReachedEvent
VerdictReached(out) == Event(<<"verdict", 1>>, out)

\* EmitVerdictReached: an event without a winner does not validate.
VerdictEvents(out) == IF out.winner = NoOne THEN <<>> ELSE <<VerdictReached(out)>>

\* What can be told before anything is computed.
Acceptable(in) ==
    /\ ReasoningFits(in.scores)
    /\ Len(ValidScores(in.scores)) >= in.minValid

\* output.Validate looks into WinnerAnswer.
Presentable(in, out) == out.winner \notin in.malformed

Aggregate ==
    /\ aggregating = "given"
    /\ Acceptable(ballot)
    /\ \E out \in {Output(ballot)} :
          /\ Presentable(ballot, out)
          /\ verdict' = out
          /\ outbox' = [outbox EXCEPT ![1] = VerdictEvents(out)]
    /\ aggregating' = "emit"
    /\ UNCHANGED <<ballot, sink, tries, cancelled>>

\* One of the non-retryable errors.
RefuseToAggregate ==
    /\ aggregating = "given"
    /\ Acceptable(ballot) => ~Presentable(ballot, Output(ballot))
    /\ aggregating' = "refused"
    /\ UNCHANGED <<ballot, verdict>>

ReturnVerdict ==
    /\ aggregating = "emit" /\ outbox[1] = <<>>
    /\ aggregating' = "done"
    /\ UNCHANGED <<ballot, verdict>>

AggregationWork ==
    \/ Aggregate
    \/ (RefuseToAggregate \/ ReturnVerdict) /\ UNCHANGED sinkVars
    \/ Emit(1) /\ UNCHANGED aggregationVars

AggregationNext ==
    \/ Submit /\ UNCHANGED sinkVars
    \/ AggregationWork
    \/ aggregating = "emit" /\ Cancel(1) /\ UNCHANGED aggregationVars

AggregationSpec ==
    SinkInit /\ AggregationInit(Ballots) /\ [][AggregationNext]_<<sinkVars, aggregationVars>>

(* ------------------------------ properties ------------------------------ *)

\* The places in the ballot of the valid scores of some answers.
Counting(answers) ==
    {i \in DOMAIN ballot.scores : IsValid(ballot.scores[i]) /\ ballot.scores[i].answer \in answers}

SumAt(places) == SumFunctionOnSet(Values(ballot.scores), places)

\* What each policy means, without sorting: as many of the greatest and of the
\* least of n values are left out of the mean, none for the mean, all but one or
\* two for the median.
LeftOut(n) ==
    LET share == (n * ballot.policy.trim) \div 10
    IN  CASE ballot.policy.method = "mean" -> 0
          [] ballot.policy.method = "median" -> (n - 1) \div 2
          [] OTHER -> IF 2 * share < n THEN share ELSE 0

Statistic(places) ==
    LET n == Cardinality(places)
        k == LeftOut(n)
        parts == {SumAt(part) : part \in kSubset(k, places)}
    IN  <<SumAt(places) - Max(parts) - Min(parts), n - 2 * k>>

\* The aggregate is the statistic of the policy over the valid scores, whatever
\* their order, and lies within them; every dimension's mean is that of the values
\* given for it; invalid scores count in the costs and nowhere else.
AggregateRight ==
    verdict # <<>> =>
        LET all == Counting({ballot.scores[i].answer : i \in DOMAIN ballot.scores})
            list == ballot.scores
        IN  /\ Same(verdict.score, Statistic(all))
            /\ \E low, high \in all :
                  ~Less(verdict.score, Whole(list[low].value))
                  /\ ~Less(Whole(list[high].value), verdict.score)
            /\ \A d \in DOMAIN verdict.dims :
                  LET given == {i \in all : d \in DOMAIN list[i].dims}
                  IN  Same(verdict.dims[d],
                           <<SumFunction([i \in given |-> list[i].dims[d]]), Cardinality(given)>>)
            /\ verdict.valid = Cardinality(all) /\ verdict.valid >= ballot.minValid
            /\ verdict.cost = SumFunction([i \in DOMAIN list |-> list[i].cost])

\* The winner is a candidate no other candidate has a better statistic than; the
\* ones tied with it are exactly those that have the same, all with a later id,
\* and nobody wins only if no valid score is for a candidate.  The older election
\* by single scores, domain.DetermineWinner, agrees where each candidate has one
\* score at most and not all of them are 0.
VerdictIsBest ==
    verdict # <<>> =>
        LET running == {a \in Candidates : Counting({a}) # {}}
            best == {a \in running : \A b \in running :
                        ~Less(Statistic(Counting({a})), Statistic(Counting({b})))}
        IN  /\ verdict.winner = NoOne <=> running = {}
            /\ running # {} =>
                  /\ {verdict.winner} \cup verdict.tied = best
                  /\ \A a \in verdict.tied : verdict.winner < a
            /\ /\ \A a \in running : Cardinality(Counting({a})) = 1
               /\ \E a \in running : SumAt(Counting({a})) > 0
               => verdict.winner = DetermineWinner(ballot.scores)

\* The verdict that is announced is the one the caller gets, and has a winner.
VerdictEventTrue ==
    \A key \in DOMAIN sink : key[1] = "verdict" => sink[key] = verdict /\ verdict.winner # NoOne
=============================================================================
