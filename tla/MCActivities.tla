---------------------------- MODULE MCActivities ----------------------------
(***************************************************************************)
(* The three activities a worker registers, and the LLM call below the     *)
(* first two, on small inputs.  They share no state but the event sink,    *)
(* where their keys differ, so a behaviour runs one of them, its task: the *)
(* states of the four add up instead of multiplying.                       *)
(***************************************************************************)
EXTENDS Generation, Scoring, Aggregation, LLMCall

VARIABLE task

Tasks == {"generate", "score", "aggregate", "call"}

activityVars ==
    <<task, sinkVars, generationVars, scoringVars, aggregationVars, callVars>>

SomeBallot == CHOOSE b \in Ballots : TRUE

Init ==
    /\ task \in Tasks
    /\ SinkInit /\ GenerationInit /\ ScoringInit
    /\ AggregationInit(IF task = "aggregate" THEN Ballots ELSE {SomeBallot})
    /\ CallInit(IF task = "call" THEN {"valid", "missing"} ELSE {"missing"})

\* The task's own step, the others standing still.
Only(t, step) == task = t /\ step /\ UNCHANGED task
NoGeneration == UNCHANGED generationVars
NoScoring == UNCHANGED scoringVars
NoAggregation == UNCHANGED aggregationVars
NoCall == UNCHANGED callVars

Next ==
    \/ Only("generate", GenerationNext) /\ NoScoring /\ NoAggregation /\ NoCall
    \/ Only("score", ScoringNext) /\ NoGeneration /\ NoAggregation /\ NoCall
    \/ Only("aggregate", AggregationNext) /\ NoGeneration /\ NoScoring /\ NoCall
    \/ Only("call", CallNext) /\ NoGeneration /\ NoScoring /\ NoAggregation /\ UNCHANGED sinkVars

\* What goroutines do.  (Aggregation is one goroutine that waits for nothing; it
\* is left out.)
Work ==
    \/ /\ Only("generate", \E a \in Attempts : GenerationWork(a))
       /\ NoScoring /\ NoAggregation /\ NoCall
    \/ /\ Only("score", \/ ScoringWork
                        \/ (\E i \in DOMAIN worker : Worker(i)) /\ UNCHANGED sinkVars)
       /\ NoGeneration /\ NoAggregation /\ NoCall
    \/ /\ Only("call", \E c \in Callers : CallStep(c))
       /\ NoGeneration /\ NoScoring /\ NoAggregation /\ UNCHANGED sinkVars

\* As long as a goroutine can run, some goroutine does; and what they call
\* returns, for every request has a timeout.
Spec == Init /\ [][Next]_activityVars /\ WF_activityVars(Work)

(* ------------------------------- instances ------------------------------ *)

Reply(json, inRange, value, reasoning, zero) ==
    [json |-> json, inRange |-> inRange, value |-> value, reasoning |-> reasoning, zero |-> zero]

\* One for each way a judgement is accepted, repaired or refused; a broken one
\* ends like a call that fails.
MCReplies == {
    Reply("valid", TRUE, 3, "long", FALSE), Reply("repairable", TRUE, -1, "text", FALSE),
    Reply("repairable", TRUE, 1, "short", FALSE), Reply("valid", FALSE, 3, "text", FALSE),
    Reply("valid", TRUE, 0, "text", TRUE), Reply("mistyped", TRUE, 0, "text", FALSE)}

ScoreOf(a, v) ==
    [answer |-> a, value |-> v, valid |-> TRUE, error |-> FALSE, reason |-> TRUE,
     dims |-> IF a = 1 THEN "clarity" :> v ELSE <<>>, cost |-> 1]

\* Scores of two candidates and of a stranger, one with an error, one invalid,
\* one without its reasoning.
MCScores ==
    {ScoreOf(a, v) : a \in 1..2, v \in 0..2} \cup
    {ScoreOf(3, 2), [ScoreOf(1, 2) EXCEPT !.error = TRUE],
     [ScoreOf(1, 2) EXCEPT !.valid = FALSE, !.reason = FALSE],
     [ScoreOf(2, 2) EXCEPT !.reason = FALSE]}

\* All lists of up to two of them, and lists of three in which order matters.
MCScoreLists ==
    UNION {[1..n -> MCScores] : n \in 1..2}
        \cup [1..3 -> {ScoreOf(1, 0), ScoreOf(1, 2), ScoreOf(2, 1), ScoreOf(3, 2)}]

Policy(method, trim) == [method |-> method, trim |-> trim]
MCPolicies ==
    {Policy("mean", 0), Policy("median", 0), Policy("trimmed_mean", 4), Policy("trimmed_mean", 5)}
MCMalformed == {{}, {2}}

\* One a retry may help with, by its status, and one it may not, by its code.
Refusal(status, code) == [status |-> status, code |-> code]
MCStatuses == {Refusal(503, ""), Refusal(429, "quota")}

\* Less than a cent, and more.
MCUsages == {[prompt |-> 999, output |-> 1], [prompt |-> 3000, output |-> 2000]}

(* ------------------------------ properties ------------------------------ *)

\* An event in the sink tells the truth about an output, of the activity that
\* emitted it: no event of a failed attempt, of a score the cancellation left
\* out or of a verdict without a winner, none under another answer's key.
EventsTrue == CandidatesTrue /\ ScoreEventsTrue /\ VerdictEventTrue

\* Nothing is under way: no attempt, no goroutine of one, no call.
AtRest ==
    /\ \A a \in Attempts : ~Running(a)
    /\ scoring \in {"idle", "done", "retry"}
    /\ \A i \in DOMAIN worker : worker[i] \in {"none", "done"}
    /\ task = "call" => died \/ \A c \in Callers : at[c] = "done"

\* Generation, scoring and every call come to an end, with all their goroutines,
\* even if they are cancelled, time out, or cannot deliver their events.
TasksEnd == []<>AtRest
=============================================================================
