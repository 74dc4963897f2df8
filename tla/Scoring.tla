------------------------------ MODULE Scoring ------------------------------
(***************************************************************************)
(* The activity ScoreAnswers: one goroutine per answer, a bounded number   *)
(* of them at work at a time, asks the judge for a score, checks what it   *)
(* says, and stores a long rationale as an artifact; when all are done the *)
(* activity adds up what they used and emits events.                       *)
(*                                                                         *)
(* One attempt is modelled, the first: attempts share nothing but the keys *)
(* of the rationales, which hold the random id of the score.               *)
(*                                                                         *)
(* A reply of the judge is abstracted to what the checks tell apart:       *)
(*   json        "valid", "repairable" (by the validator), "broken", or    *)
(*               "mistyped": fit for the schema, not for the score;        *)
(*   inRange     "score" and "confidence", as far as present, are in 0..1; *)
(*   value       the field "value", in units of 1 / Top, 0 if absent;      *)
(*   reasoning   its size: "short" (less than 10 characters), "text" or    *)
(*               "long" (beyond the blob threshold);                       *)
(*   zero        one of its dimensions has the value 0.                    *)
(***************************************************************************)
EXTENDS EventSink, Ordering, SequencesExt

CONSTANTS
    Batches,            \* the numbers of answers to be scored
    Tenants,            \* values of WorkflowContext.TenantID
    Replies,            \* what the judge may say
    ScoreConcurrency,   \* maxConcurrency of processBatchScoring
    Top                 \* the value 1.0

ASSUME ScoringAssumption ==
    /\ Batches \subseteq Nat \ {0} /\ Tenants \subseteq {"default", "uuid"}
    /\ Replies \subseteq
          [json: {"valid", "repairable", "broken", "mistyped"}, inRange: BOOLEAN,
           value: Int, reasoning: {"short", "text", "long"}, zero: BOOLEAN]
    /\ ScoreConcurrency \in Nat \ {0} /\ Top \in Nat \ {0}

VARIABLES
    batch,      \* how many answers there are to score
    tenant,
    scoring,    \* "idle", "launch", "wait", "emit", "done" or "retry"
    worker,     \* per answer, its goroutine: "none", "queued", "asking", "storing"
                \* or "done"
    reply,      \* per answer: what the judge said
    scores,     \* orderedScores
    rationales, \* the answers whose rationale is in the artifact store
    report      \* the output, or <<>>

scoringVars == <<batch, tenant, scoring, worker, reply, scores, rationales, report>>

NoReply == [json |-> "none"]

(* ------------------------------- the scores ----------------------------- *)

\* What make leaves in orderedScores.
ZeroScore == [answer |-> 0, valid |-> FALSE, value |-> 0, reason |-> "none", tokens |-> 0]

\* transport.CreateInvalidScore: the error's text is its reasoning, and it has
\* used nothing.
InvalidScore(i) == [ZeroScore EXCEPT !.answer = i, !.reason = "text"]

\* The score made by the goroutine itself when scoreAnswer fails.
FallbackScore(i) == [ZeroScore EXCEPT !.answer = i]

\* validateSchema.
MeetsSchema(r) == r.inRange /\ r.reasoning # "short"

\* MUTANT of Validates: what was repaired is not looked at again.
ValidatesUnrepaired(r) ==
    \/ r.json \in {"valid", "mistyped"} /\ MeetsSchema(r)
    \/ r.json = "repairable"

\* scoringValidator.Validate: as it stands, or after one repair.
Validates(r) == r.json # "broken" /\ MeetsSchema(r)

Clamped(v) == IF v < 0 THEN 0 ELSE IF v > Top THEN Top ELSE v

\* MakeScore and Score.Validate: the value of a dimension is required.
MakesScore(r) == ~r.zero

\* createScoreWithDomainValidator, with SetScoreValues.
JudgedScore(i, r) ==
    IF Validates(r) /\ r.json # "mistyped" /\ MakesScore(r)
    THEN [answer |-> i, valid |-> TRUE, value |-> Clamped(r.value),
          reason |-> r.reasoning, tokens |-> 1]
    ELSE InvalidScore(i)

\* ShouldBlobRationale.
IsLarge(score) == score.reason = "long"

(* ----------------------------- the goroutines --------------------------- *)

ScoringInit ==
    /\ batch = 0 /\ tenant = "default"
    /\ scoring = "idle"
    /\ worker = <<>> /\ reply = <<>> /\ scores = <<>>
    /\ rationales = {}
    /\ report = <<>>

BeginScoring(n, t) ==
    /\ scoring = "idle"
    /\ scoring' = "launch"
    /\ batch' = n /\ tenant' = t
    /\ worker' = [i \in 1..n |-> "none"]
    /\ reply' = [i \in 1..n |-> NoReply]
    /\ scores' = [i \in 1..n |-> ZeroScore]
    /\ UNCHANGED <<rationales, report>>

\* One turn of the loop over the answers; if the context has ended the activity
\* returns, and what is launched goes on.
LaunchWorker ==
    /\ scoring = "launch"
    /\ \E i \in 1..batch :
          /\ worker[i] = "none" /\ \A j \in 1..i-1 : worker[j] # "none"
          /\ IF cancelled[1]
             THEN scoring' = "retry" /\ UNCHANGED worker
             ELSE /\ worker' = [worker EXCEPT ![i] = "queued"]
                  /\ scoring' = IF i = batch THEN "wait" ELSE "launch"
    /\ UNCHANGED <<batch, tenant, reply, scores, rationales, report>>

Working == {i \in DOMAIN worker : worker[i] \in {"asking", "storing"}}

\* A slot is free: the goroutine asks the judge, unless the context has ended.
StartWorker(i) ==
    /\ worker[i] = "queued"
    /\ Cardinality(Working) < ScoreConcurrency
    /\ worker' = [worker EXCEPT ![i] = IF cancelled[1] THEN "done" ELSE "asking"]
    /\ UNCHANGED <<batch, tenant, scoring, reply, scores, rationales, report>>

WorkerDone(i, score) ==
    /\ worker' = [worker EXCEPT ![i] = "done"]
    /\ scores' = [scores EXCEPT ![i] = score]

\* client.Score comes back with what the judge said.
JudgeReplies(i) ==
    /\ worker[i] = "asking"
    /\ \E r \in Replies :
          /\ reply' = [reply EXCEPT ![i] = r]
          /\ IF IsLarge(JudgedScore(i, r))
             THEN worker' = [worker EXCEPT ![i] = "storing"] /\ UNCHANGED scores
             ELSE WorkerDone(i, JudgedScore(i, r))
    /\ UNCHANGED <<batch, tenant, scoring, rationales, report>>

\* client.Score comes back without a reply.
JudgeFails(i) ==
    /\ worker[i] = "asking"
    /\ WorkerDone(i, InvalidScore(i))
    /\ UNCHANGED <<batch, tenant, scoring, reply, rationales, report>>

\* applyBlobIfLargePolicy: the rationale is stored and its text dropped.
StoreRationale(i) ==
    /\ worker[i] = "storing"
    /\ rationales' = rationales \cup {i}
    /\ WorkerDone(i, [JudgedScore(i, reply[i]) EXCEPT !.reason = "ref"])
    /\ UNCHANGED <<batch, tenant, scoring, reply, report>>

\* Put returns an error, whether or not the store has the rationale.
StoreRationaleFails(i) ==
    /\ worker[i] = "storing"
    /\ rationales' \in {rationales, rationales \cup {i}}
    /\ WorkerDone(i, FallbackScore(i))
    /\ UNCHANGED <<batch, tenant, scoring, reply, report>>

Worker(i) ==
    StartWorker(i) \/ JudgeReplies(i) \/ JudgeFails(i) \/ StoreRationale(i) \/ StoreRationaleFails(i)

(* ------------------------------ the results ----------------------------- *)

TokensUsed(all) == SumFunction([i \in DOMAIN all |-> IF all[i].valid THEN all[i].tokens ELSE 0])

\* NewAnswerScoredEvent fails for a score without the ids of answer and score.
Payloads(all) == InOrder({i \in DOMAIN all : all[i].answer # 0})

\* EmitAnswerScored, EmitScoringUsage
AnswerScored(all, i) == Event(<<"score", i>>, all[i])
ScoringUsage(all) == Event(<<"scoring", 1>>, TokensUsed(all))

\* parseUUID of the tenant's id.
TenantKnown == tenant # "default"

\* emitScoringEvents: none for a tenant whose id is not a uuid.
ScoringEvents(all) ==
    IF ~TenantKnown THEN <<>>
    ELSE LET indexes == Payloads(all) IN
         [k \in DOMAIN indexes |-> AnswerScored(all, indexes[k])] \o <<ScoringUsage(all)>>

\* MUTANT of Gather: wg.Wait is missing.
GatherEarly ==
    /\ scoring = "wait"
    /\ report' = [scores |-> scores, tokens |-> TokensUsed(scores)]
    /\ outbox' = [outbox EXCEPT ![1] = ScoringEvents(scores)]
    /\ scoring' = "emit"
    /\ UNCHANGED <<sink, tries, cancelled>>
    /\ UNCHANGED <<batch, tenant, worker, reply, scores, rationales>>

\* After wg.Wait.
Gather ==
    /\ scoring = "wait"
    /\ \A i \in 1..batch : worker[i] = "done"
    /\ report' = [scores |-> scores, tokens |-> TokensUsed(scores)]
    /\ outbox' = [outbox EXCEPT ![1] = ScoringEvents(scores)]
    /\ scoring' = "emit"
    /\ UNCHANGED <<sink, tries, cancelled>>
    /\ UNCHANGED <<batch, tenant, worker, reply, scores, rationales>>

ReturnScores ==
    /\ scoring = "emit" /\ outbox[1] = <<>>
    /\ scoring' = "done"
    /\ UNCHANGED <<batch, tenant, worker, reply, scores, rationales, report>>

(* ------------------------------------------------------------------------ *)

\* What the goroutines of the activity do.
ScoringWork ==
    \/ LaunchWorker /\ UNCHANGED sinkVars
    \/ Gather
    \/ ReturnScores /\ UNCHANGED sinkVars
    \/ Emit(1) /\ UNCHANGED scoringVars

ScoringNext ==
    \/ (\E n \in Batches, t \in Tenants : BeginScoring(n, t)) /\ UNCHANGED sinkVars
    \/ ScoringWork
    \/ (\E i \in DOMAIN worker : Worker(i)) /\ UNCHANGED sinkVars
    \/ scoring \notin {"idle", "done"} /\ Cancel(1) /\ UNCHANGED scoringVars

ScoringSpec == SinkInit /\ ScoringInit /\ [][ScoringNext]_<<sinkVars, scoringVars>>

(* ------------------------------ properties ------------------------------ *)

\* What a score must say about the reply it was made from.
Faithful(i, score) ==
    /\ score.answer = i
    /\ score.valid =>
          /\ reply[i].json \notin {"none", "broken", "mistyped"}
          /\ reply[i].inRange /\ reply[i].reasoning # "short" /\ ~reply[i].zero
          /\ score.value \in 0..Top
          /\ score.reason = IF reply[i].reasoning = "long" THEN "ref" ELSE "text"
          /\ score.reason = "ref" => i \in rationales

\* The batch has one score per answer, in order, whatever becomes of the calls:
\* only a cancelled activity leaves one out.  A valid score comes from a reply
\* that meets the schema, repaired or not, and its rationale is either in the
\* score or, if it is long, in the store; what the valid scores have used is
\* what the activity reports.
ScoresTrue ==
    report # <<>> =>
        /\ Len(report.scores) = batch
        /\ \A i \in 1..batch :
              \/ Faithful(i, report.scores[i])
              \/ report.scores[i] = ZeroScore /\ cancelled[1]
        /\ report.tokens = Cardinality({i \in 1..batch : report.scores[i].valid})

\* The scores a caller has got are written by no goroutine that still runs.
OutputFrozen == [][report # <<>> => report.scores = scores']_<<report, scores>>

\* An event tells the score the caller gets; there is none for a score the
\* cancellation left out, and none at all for the tenant "default".
ScoreEventsTrue ==
    /\ \A key \in DOMAIN sink : key[1] = "score" =>
          key[2] \in 1..batch /\ sink[key] = report.scores[key[2]] /\ sink[key].answer = key[2]
    /\ scoring # "idle" /\ tenant = "default" => sink = <<>>
=============================================================================
