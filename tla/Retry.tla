------------------------------- MODULE Retry -------------------------------
(***************************************************************************)
(* The retry middleware of internal/llm/retry: one request, its attempts,  *)
(* the waits between them, and the limits on attempts, time and spending.  *)
(*                                                                         *)
(* Time is counted in milliseconds, the grain of the jitter.  Nothing      *)
(* takes time but an attempt, a wait and the lag of the scheduler behind a *)
(* timer or a new goroutine.                                               *)
(***************************************************************************)
EXTENDS Integers

CONSTANTS
    Configs,        \* the RetryConfigs to look at
    Responses,      \* what an attempt may cost: [milli, tokens]
    RetryAfters,    \* what an error may ask to wait for; 0: it does not ask
    MaxCall,        \* bound: next.Handle returns by then (its HTTP timeout)
    Lag             \* bound: a goroutine runs at most this late

\* What NewRetryMiddlewareWithConfig accepts.  deadline is MaxElapsedTime, 0 for
\* none; maxCost is MaxCostCents, 0 for none, and maxTokens likewise.
ASSUME ConfigsAssumption ==
    Configs \subseteq [maxAttempts: Nat \ {0}, deadline: Nat,
                       initial: Nat \ {0}, max: Nat \ {0}, multiplier: Nat \ {0},
                       jitter: BOOLEAN, budget: BOOLEAN, maxCost: Nat, maxTokens: Nat]
ASSUME IntervalsAssumption == \A c \in Configs : c.initial <= c.max
ASSUME InputsAssumption ==
    /\ Responses \subseteq [milli: Nat, tokens: Nat]
    /\ RetryAfters \subseteq Nat
    /\ MaxCall \in Nat /\ Lag \in Nat

VARIABLES
    config,
    pc,
    attempt,
    elapsed,    \* time.Since(startTime)
    latest,     \* the time by which what is under way has ended
    costCents, tokens,  \* requestBudget
    failed,     \* lastErr # nil
    outcome,    \* what the request was answered with
    spent       \* history: all the milli-cents the attempts have cost

MilliPerCent == 1000    \* MilliCentsToCentsConversion

vars == <<config, pc, attempt, elapsed, latest, costCents, tokens, failed, outcome, spent>>

PC == {"start", "loop", "call", "wait", "done"}
Outcomes == {"none", "ok", "budget", "fatal", "exhausted", "cancelled", "unexpected"}

Init ==
    /\ config \in Configs
    /\ pc = "start"
    /\ attempt = 1
    /\ elapsed = 0 /\ latest = Lag
    /\ costCents = 0 /\ tokens = 0 /\ spent = 0
    /\ failed = FALSE
    /\ outcome = "none"

Answer(o) == pc' = "done" /\ outcome' = o

\* All retries exhausted, or the loop was left before the first attempt.
GiveUp(someError) == Answer(IF someError THEN "exhausted" ELSE "unexpected")

\* Fail fast if the context is already cancelled.
Start ==
    /\ pc = "start"
    /\ \/ pc' = "loop" /\ UNCHANGED outcome
       \/ Answer("cancelled")
    /\ UNCHANGED <<config, attempt, elapsed, latest, costCents, tokens, failed, spent>>

Late == config.deadline > 0 /\ elapsed > config.deadline

ExceedsBudget ==
    /\ config.budget
    /\ \/ config.maxCost > 0 /\ costCents > config.maxCost
       \/ config.maxTokens > 0 /\ tokens > config.maxTokens

\* The head of the loop: the deadline, the budget, and then the next attempt.
Loop ==
    /\ pc = "loop"
    /\ IF Late THEN GiveUp(failed) /\ UNCHANGED latest
       ELSE IF ExceedsBudget THEN Answer("budget") /\ UNCHANGED latest
       ELSE pc' = "call" /\ latest' = elapsed + MaxCall /\ UNCHANGED outcome
    /\ UNCHANGED <<config, attempt, elapsed, costCents, tokens, failed, spent>>

\* updateBudgetFromResponse: cents are rounded down attempt by attempt.
Charge(r) ==
    /\ spent' = spent + r.milli
    /\ IF config.budget
       THEN costCents' = costCents + r.milli \div MilliPerCent /\ tokens' = tokens + r.tokens
       ELSE UNCHANGED <<costCents, tokens>>

\* MUTANT of Returned: only a successful attempt is charged.
ReturnedFree(err) ==
    IF err THEN UNCHANGED <<costCents, tokens>> /\ \E r \in Responses : spent' = spent + r.milli
           ELSE \E r \in Responses : Charge(r)

\* The attempt comes back with a response, or with none, whatever its error.
Returned(err) == (\E r \in Responses : Charge(r)) \/ UNCHANGED <<costCents, tokens, spent>>

Succeed ==
    /\ pc = "call"
    /\ Returned(FALSE)
    /\ Answer("ok")
    /\ UNCHANGED <<config, attempt, elapsed, latest, failed>>

\* isRetryable says no.
FailFatally ==
    /\ pc = "call"
    /\ Returned(TRUE)
    /\ Answer("fatal")
    /\ UNCHANGED <<config, attempt, elapsed, latest, failed>>

\* The last attempt there is.
FailLast ==
    /\ pc = "call"
    /\ attempt = config.maxAttempts
    /\ Returned(TRUE)
    /\ failed' = TRUE
    /\ GiveUp(TRUE)
    /\ UNCHANGED <<config, attempt, elapsed, latest>>

(* ------------------------------- backoff -------------------------------- *)

\* calculatePureExponentialBackoff before jitter.
BaseBackoff(c) ==
    LET base[n \in 1..c.maxAttempts] ==
            IF n = 1 THEN c.initial
            ELSE IF base[n - 1] * c.multiplier > c.max THEN c.max
            ELSE base[n - 1] * c.multiplier
    IN  base

\* With full jitter, anything up to the base.
Exponential ==
    LET base == BaseBackoff(config)[attempt]
    IN  {b \in 0..config.max : IF config.jitter THEN b <= base ELSE b = base}

\* Retry-After takes precedence, however long.
Backoffs(after) == IF after > 0 THEN {after} ELSE Exponential

Fits(backoff) == config.deadline = 0 \/ elapsed + backoff <= config.deadline

Wait(backoff) ==
    /\ pc' = "wait"
    /\ latest' = elapsed + backoff + Lag
    /\ UNCHANGED outcome

\* MUTANT of BackOff: the deadline is not looked at before the wait.
BackOffBlindly(after) == \E backoff \in Backoffs(after) : Wait(backoff)

\* MUTANT of BackOff: a Retry-After beyond the deadline ends the request.
BackOffNoFallback(after) ==
    \E backoff \in Backoffs(after) :
        \/ Fits(backoff) /\ Wait(backoff)
        \/ ~Fits(backoff) /\ GiveUp(TRUE) /\ UNCHANGED latest

\* validateBackoffWithTimeout: a Retry-After beyond the deadline is replaced by
\* an exponential backoff if that fits, and otherwise the request gives up.
BackOff(after) ==
    \E backoff \in Backoffs(after), fallback \in Exponential :
        \/ Fits(backoff) /\ Wait(backoff)
        \/ ~Fits(backoff) /\ after > 0 /\ Fits(fallback) /\ Wait(fallback)
        \/ /\ ~Fits(backoff) /\ (after > 0 => ~Fits(fallback))
           /\ GiveUp(TRUE) /\ UNCHANGED latest

\* MUTANT of FailForNow: < for <=, one attempt too many.
FailOnceMore ==
    /\ pc = "call"
    /\ attempt <= config.maxAttempts
    /\ Returned(TRUE)
    /\ failed' = TRUE
    /\ \E after \in RetryAfters : BackOff(after)
    /\ UNCHANGED <<config, attempt, elapsed>>

FailForNow ==
    /\ pc = "call"
    /\ attempt < config.maxAttempts
    /\ Returned(TRUE)
    /\ failed' = TRUE
    /\ \E after \in RetryAfters : BackOff(after)
    /\ UNCHANGED <<config, attempt, elapsed>>

\* MUTANT of Wake: the timer is never armed.
WakeNever ==
    /\ pc = "wait"
    /\ elapsed > latest
    /\ pc' = "loop"
    /\ attempt' = attempt + 1
    /\ UNCHANGED <<config, elapsed, latest, costCents, tokens, failed, outcome, spent>>

Wake ==
    /\ pc = "wait"
    /\ elapsed >= latest - Lag
    /\ pc' = "loop"
    /\ attempt' = attempt + 1
    /\ UNCHANGED <<config, elapsed, latest, costCents, tokens, failed, outcome, spent>>

\* ctx.Done while waiting.
Cancel ==
    /\ pc = "wait"
    /\ Answer("cancelled")
    /\ UNCHANGED <<config, attempt, elapsed, latest, costCents, tokens, failed, spent>>

Tick ==
    /\ pc # "done"
    /\ elapsed < latest
    /\ elapsed' = elapsed + 1
    /\ UNCHANGED <<config, pc, attempt, latest, costCents, tokens, failed, outcome, spent>>

Step == Start \/ Loop \/ Succeed \/ FailFatally \/ FailLast \/ FailForNow \/ Wake

Next == Step \/ Cancel \/ Tick

Spec == Init /\ [][Next]_vars

\* The goroutine runs, attempts return and timers fire.
FairSpec == Spec /\ WF_vars(Step) /\ WF_vars(Tick)

(* ------------------------------ properties ------------------------------ *)

\* Every variable keeps its type; there are at most MaxAttempts attempts.
TypeOK ==
    /\ config \in Configs
    /\ pc \in PC
    /\ attempt \in 1..config.maxAttempts
    /\ elapsed \in Nat /\ latest \in Nat /\ elapsed <= latest
    /\ costCents \in Nat /\ tokens \in Nat /\ spent \in Nat
    /\ failed \in BOOLEAN
    /\ outcome \in Outcomes

\* The overrun of a budget is one attempt: a request with a budget spends no
\* more than the budget, less than a cent per earlier attempt for the rounding,
\* and the price of its last attempt; and likewise, without rounding, in tokens.
SpendingBounded ==
    /\ config.budget /\ config.maxCost > 0 =>
          \E last \in {r.milli : r \in Responses} \cup {0} :
             spent <= MilliPerCent * config.maxCost
                        + (MilliPerCent - 1) * (attempt - 1) + last
    /\ config.budget /\ config.maxTokens > 0 =>
          \E last \in {r.tokens : r \in Responses} \cup {0} :
             tokens <= config.maxTokens + last

\* The overrun of the deadline is one attempt: no wait, whatever a provider asks
\* for, takes a request beyond MaxElapsedTime, and no attempt begins after it.
DeadlineKept ==
    config.deadline > 0 =>
        \/ elapsed <= config.deadline + MaxCall
        \/ elapsed <= config.deadline + Lag

\* A request gives up with attempts left only if its own backoff might not end
\* in time; a Retry-After that is too long is no reason.  It leaves the loop
\* without any error only if no attempt was made at all.
GivesUpForAReason ==
    /\ outcome = "exhausted" /\ attempt < config.maxAttempts =>
          /\ config.deadline > 0
          /\ elapsed + BaseBackoff(config)[attempt] > config.deadline
    /\ outcome = "unexpected" => attempt = 1 /\ spent = 0 /\ Late

\* Every request is answered.
RequestAnswered == <>(pc = "done")
=============================================================================
