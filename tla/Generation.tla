----------------------------- MODULE Generation ----------------------------
(***************************************************************************)
(* The activity GenerateAnswers: client.Generate asks the provider for the *)
(* answers with bounded concurrency, the activity stores the content of    *)
(* each answer, takes the stored ones back if one cannot be stored, and    *)
(* emits events.                                                           *)
(*                                                                         *)
(* The workflow starts the next attempt when the current one times out or  *)
(* its worker dies; an attempt that timed out may go on for a while.  All  *)
(* attempts use the same keys, "cand-01", ..., in the artifact store.      *)
(*                                                                         *)
(* An answer is a pair <<attempt, call>>, as fresh as its uuid.  Its       *)
(* content is the text StoreAnswerContent falls back to, which names it:   *)
(* no answer of the client carries its content, and the reference it       *)
(* carries instead is of an object nobody stores.                          *)
(***************************************************************************)
EXTENDS EventSink, Ordering, SequencesExt

CONSTANTS
    Sizes,              \* the numbers of answers asked for
    MaxConcurrency,     \* configuration.MaxConcurrency
    StoreConcurrency,   \* maxConcurrency of storeAnswerArtifacts
    Repeated            \* bound: the sizes for which an attempt may be repeated

ASSUME GenerationAssumption ==
    /\ Sizes \subseteq Nat \ {0} /\ Repeated \subseteq Sizes
    /\ MaxConcurrency \in Nat \ {0} /\ StoreConcurrency \in Nat \ {0}

VARIABLES
    size,       \* input.NumAnswers
    current,    \* the attempt the workflow waits for; MaxAttempts + 1: none
    stage,      \* per attempt: "idle", "generate", "store", "cleanup", "emit" or "done"
    calls,      \* per attempt and call: "no", "running", "ok" or "failed"
    answers,    \* per attempt: output.Answers
    puts,       \* per attempt and answer, its goroutine in storeAnswerArtifacts:
                \* "waiting", "holding" a slot, "ok" or "failed"
    cleaning,   \* per attempt: the answer cleanupArtifacts is at
    outcome,    \* per attempt: "none", "ok", "failed" or "crashed"
    store,      \* the artifact store: number in the key -> answer or Nothing
    touched,    \* history: the attempt that last put or deleted the key; 0: none
    mishap      \* history: attempts for which the store failed to undo something

generationVars ==
    <<size, current, stage, calls, answers, puts, cleaning, outcome, store, touched, mishap>>

Nothing == <<0, 0>>
Keys == 1..size

GenerationInit ==
    /\ size = 0
    /\ current = 1
    /\ stage = [a \in Attempts |-> "idle"]
    /\ calls = [a \in Attempts |-> <<>>]
    /\ answers = [a \in Attempts |-> <<>>]
    /\ puts = [a \in Attempts |-> <<>>]
    /\ cleaning = [a \in Attempts |-> 0]
    /\ outcome = [a \in Attempts |-> "none"]
    /\ store = <<>>
    /\ touched = <<>>
    /\ mishap = {}

\* How many goroutines of an attempt are in a state.
Count(states, s) == Cardinality({i \in DOMAIN states : states[i] = s})

(* ---------------------------- client.Generate --------------------------- *)

\* The activity is scheduled for the first time.
Request(n) ==
    /\ size = 0
    /\ size' = n
    /\ store' = [k \in 1..n |-> Nothing]
    /\ touched' = [k \in 1..n |-> 0]
    /\ UNCHANGED <<current, stage, calls, answers, puts, cleaning, outcome, mishap>>

\* The input has been validated: Generate allocates results.
Begin(a) ==
    /\ size > 0 /\ a = current
    /\ stage[a] = "idle"
    /\ stage' = [stage EXCEPT ![a] = "generate"]
    /\ calls' = [calls EXCEPT ![a] = [i \in Keys |-> "no"]]
    /\ UNCHANGED <<size, current, answers, puts, cleaning, outcome, store, touched, mishap>>

\* sem <- struct{}{}: the loop waits for a slot before it starts the next call.
Launch(a) ==
    /\ stage[a] = "generate"
    /\ Count(calls[a], "running") < MaxConcurrency
    /\ \E i \in Keys :
          /\ calls[a][i] = "no" /\ \A j \in 1..i-1 : calls[a][j] # "no"
          /\ calls' = [calls EXCEPT ![a][i] = "running"]
    /\ UNCHANGED <<size, current, stage, answers, puts, cleaning, outcome, store, touched, mishap>>

\* handler.Handle returns.
Answered(a) ==
    /\ \E i \in DOMAIN calls[a], r \in {"ok", "failed"} :
          /\ calls[a][i] = "running"
          /\ calls' = [calls EXCEPT ![a][i] = r]
    /\ UNCHANGED <<size, current, stage, answers, puts, cleaning, outcome, store, touched, mishap>>

\* MUTANT of Collected: calls that failed leave an answer, too.
CollectedAll(a) == [i \in Keys |-> i]

\* After wg.Wait: the calls that succeeded, in their order, without gaps.
Collected(a) == InOrder({i \in Keys : calls[a][i] = "ok"})

Generated(a) ==
    /\ stage[a] = "generate"
    /\ \A i \in Keys : calls[a][i] \in {"ok", "failed"}
    /\ answers' = [answers EXCEPT ![a] = Collected(a)]
    /\ puts' = [puts EXCEPT ![a] = [k \in DOMAIN Collected(a) |-> "waiting"]]
    /\ stage' = [stage EXCEPT ![a] = "store"]
    /\ UNCHANGED <<size, current, calls, cleaning, outcome, store, touched, mishap>>

(* -------------------------- storeAnswerArtifacts ------------------------ *)

\* MUTANT of TakeSlot: a goroutine that gives up sends no result.
TakeSlotSilently(a) ==
    /\ Count(puts[a], "holding") < StoreConcurrency
    /\ \E k \in DOMAIN puts[a] :
          /\ puts[a][k] = "waiting"
          /\ puts' = [puts EXCEPT ![a][k] = IF cancelled[a] THEN "gone" ELSE "holding"]
    /\ UNCHANGED <<size, current, stage, calls, answers, cleaning, outcome, store, touched, mishap>>

\* A goroutine gets a slot; it gives up if the context has ended.
TakeSlot(a) ==
    /\ Count(puts[a], "holding") < StoreConcurrency
    /\ \E k \in DOMAIN puts[a] :
          /\ puts[a][k] = "waiting"
          /\ puts' = [puts EXCEPT ![a][k] = IF cancelled[a] THEN "failed" ELSE "holding"]
    /\ UNCHANGED <<size, current, stage, calls, answers, cleaning, outcome, store, touched, mishap>>

\* StoreAnswerContent: the content goes under the key of the answer's place in
\* the output.
Put(a, k) ==
    /\ store' = [store EXCEPT ![k] = <<a, answers[a][k]>>]
    /\ touched' = [touched EXCEPT ![k] = a]

StoreContent(a) ==
    /\ \E k \in DOMAIN puts[a] :
          /\ puts[a][k] = "holding"
          /\ puts' = [puts EXCEPT ![a][k] = "ok"]
          /\ Put(a, k)
    /\ UNCHANGED <<size, current, stage, calls, answers, cleaning, outcome, mishap>>

\* Exists or Put returns an error; the content may be there all the same.
StoreFails(a) ==
    /\ \E k \in DOMAIN puts[a] :
          /\ puts[a][k] = "holding"
          /\ puts' = [puts EXCEPT ![a][k] = "failed"]
          /\ \/ UNCHANGED <<store, touched, mishap>>
             \/ Put(a, k) /\ mishap' = mishap \cup {a}
    /\ UNCHANGED <<size, current, stage, calls, answers, cleaning, outcome>>

Stored(a) ==
    /\ stage[a] = "store"
    /\ \A k \in DOMAIN puts[a] : puts[a][k] \in {"ok", "failed"}

\* MUTANT of CandidateProduced: the event names the call, not the answer.
CandidateByCall(a, k) == Event(<<"cand", k>>, <<a, k>>)

\* EmitCandidateProduced: the key has the place of the answer in the output.
CandidateProduced(a, k) == Event(<<"cand", k>>, <<a, answers[a][k]>>)

\* EmitLLMUsage: one event for all answers.
LLMUsage(a) == Event(<<"generate", 1>>, <<a, Len(answers[a])>>)

\* emitGenerationEvents
Produced(a) ==
    [k \in DOMAIN answers[a] |-> CandidateProduced(a, k)] \o <<LLMUsage(a)>>

\* All results are in: one error and the attempt is undone.
FinishStore(a) ==
    /\ Stored(a)
    /\ IF \A k \in DOMAIN puts[a] : puts[a][k] = "ok"
       THEN /\ stage' = [stage EXCEPT ![a] = "emit"]
            /\ outbox' = [outbox EXCEPT ![a] = Produced(a)]
            /\ UNCHANGED cleaning
       ELSE /\ stage' = [stage EXCEPT ![a] = "cleanup"]
            /\ cleaning' = [cleaning EXCEPT ![a] = 1]
            /\ UNCHANGED outbox
    /\ UNCHANGED <<sink, tries, cancelled>>
    /\ UNCHANGED <<size, current, calls, answers, puts, outcome, store, touched, mishap>>

\* MUTANT of Cleanup: the first answer is skipped.
CleanupButFirst(a) ==
    /\ stage[a] = "cleanup"
    /\ LET k == cleaning[a] IN
          /\ k \in DOMAIN puts[a]
          /\ IF puts[a][k] = "ok" /\ k > 1
             THEN /\ store' = [store EXCEPT ![k] = Nothing]
                  /\ touched' = [touched EXCEPT ![k] = a]
             ELSE UNCHANGED <<store, touched>>
    /\ cleaning' = [cleaning EXCEPT ![a] = @ + 1]
    /\ UNCHANGED <<size, current, stage, calls, answers, puts, outcome, mishap>>

\* cleanupArtifacts: Exists and Delete of one answer that was stored; when one of
\* them fails that is only logged.
Cleanup(a) ==
    /\ stage[a] = "cleanup"
    /\ LET k == cleaning[a] IN
          /\ k \in DOMAIN puts[a]
          /\ IF puts[a][k] = "ok"
             THEN \/ /\ store' = [store EXCEPT ![k] = Nothing]
                     /\ touched' = [touched EXCEPT ![k] = a]
                     /\ UNCHANGED mishap
                  \/ mishap' = mishap \cup {a} /\ UNCHANGED <<store, touched>>
             ELSE UNCHANGED <<store, touched, mishap>>
    /\ cleaning' = [cleaning EXCEPT ![a] = @ + 1]
    /\ UNCHANGED <<size, current, stage, calls, answers, puts, outcome>>

Return(a, o) ==
    /\ stage' = [stage EXCEPT ![a] = "done"]
    /\ outcome' = [outcome EXCEPT ![a] = o]
    /\ UNCHANGED <<size, current, calls, answers, puts, cleaning, store, touched, mishap>>

\* "failed to store artifacts": not to be retried, whatever the cause.
ReturnError(a) ==
    /\ stage[a] = "cleanup" /\ \A k \in DOMAIN puts[a] : k < cleaning[a]
    /\ Return(a, "failed")

ReturnAnswers(a) == stage[a] = "emit" /\ outbox[a] = <<>> /\ Return(a, "ok")

(* ------------------------------- Temporal ------------------------------- *)

Running(a) == stage[a] \notin {"idle", "done"}

\* StartToClose or heartbeat timeout of the current attempt, which does not stop
\* it: its goroutines notice the end of their context when they look.  (That of
\* the last attempt changes nothing for it, and nobody comes after.)
TimeOut ==
    /\ current < MaxAttempts /\ Running(current)
    /\ size \in Repeated
    /\ current' = current + 1
    /\ UNCHANGED <<size, stage, calls, answers, puts, cleaning, outcome, store, touched, mishap>>

\* The worker dies with all its goroutines, and with an artifact store that
\* lives in its memory.
Crash ==
    /\ current \in Attempts /\ Running(current)
    /\ size \in Repeated
    /\ current' = current + 1
    /\ stage' = [a \in Attempts |-> IF Running(a) THEN "done" ELSE stage[a]]
    /\ outcome' = [a \in Attempts |-> IF Running(a) THEN "crashed" ELSE outcome[a]]
    /\ puts' = [a \in Attempts |-> IF Running(a) THEN <<>> ELSE puts[a]]
    /\ calls' = [a \in Attempts |-> IF Running(a) THEN <<>> ELSE calls[a]]
    /\ outbox' = [a \in Attempts |-> IF Running(a) THEN <<>> ELSE outbox[a]]
    /\ tries' = [a \in Attempts |-> IF Running(a) THEN 0 ELSE tries[a]]
    /\ \/ UNCHANGED <<store, touched>>
       \/ /\ store' = [k \in Keys |-> Nothing]
          /\ touched' = [k \in Keys |-> 0]
    /\ UNCHANGED <<sink, cancelled, size, answers, cleaning, mishap>>

(* ------------------------------------------------------------------------ *)

\* What the goroutines of an attempt do.
GenerationWork(a) ==
    \/ /\ \/ Begin(a) \/ Launch(a) \/ Answered(a) \/ Generated(a)
          \/ TakeSlot(a) \/ StoreContent(a) \/ StoreFails(a)
          \/ Cleanup(a) \/ ReturnError(a) \/ ReturnAnswers(a)
       /\ UNCHANGED sinkVars
    \/ FinishStore(a)
    \/ Emit(a) /\ UNCHANGED generationVars

GenerationNext ==
    \/ (\E n \in Sizes : Request(n)) /\ UNCHANGED sinkVars
    \/ \E a \in Attempts : GenerationWork(a)
    \/ \E a \in Attempts : Running(a) /\ Cancel(a) /\ UNCHANGED generationVars
    \/ TimeOut /\ UNCHANGED sinkVars
    \/ Crash

GenerationSpec ==
    SinkInit /\ GenerationInit /\ [][GenerationNext]_<<sinkVars, generationVars>>

(* ------------------------------ properties ------------------------------ *)

\* The answers a caller gets are those of the calls that succeeded, in the order
\* of the calls, and every reference leads to the content of its answer, unless
\* an attempt given up earlier has touched the key since or the store is lost.
ResultsStored ==
    \A a \in Attempts : outcome[a] = "ok" =>
        /\ \A j, k \in DOMAIN answers[a] : j < k => answers[a][j] < answers[a][k]
        /\ Range(answers[a]) = {i \in Keys : calls[a][i] = "ok"}
        /\ \A k \in DOMAIN answers[a] :
              \/ store[k] = <<a, answers[a][k]>>
              \/ touched[k] # a

\* An attempt that returns an error leaves nothing of its own in the store,
\* however its goroutines were interleaved, unless the store itself failed.
UndoneOnFailure ==
    \A a \in Attempts :
        outcome[a] = "failed" /\ a \notin mishap => \A k \in Keys : store[k][1] # a

\* An event is about an answer of an attempt that has stored all its answers,
\* at the place it has in that attempt's output: no event of a failed attempt.
CandidatesTrue ==
    \A key \in DOMAIN sink : key[1] = "cand" =>
        \E a \in Attempts :
            /\ outcome[a] # "failed"
            /\ key[2] \in DOMAIN answers[a]
            /\ sink[key] = <<a, answers[a][key[2]]>>
=============================================================================
