------------------------------ MODULE LLMCall ------------------------------
(***************************************************************************)
(* A call through the handler that NewClient builds: observability around  *)
(* the circuit breaker around the retry loop around the rate limiter       *)
(* around pricing around the HTTP handler, with the response cache off.    *)
(* Several calls at once share the prices and the statistics.              *)
(*                                                                         *)
(* The breaker, the limiter and the retry loop's clock are modelled in     *)
(* modules of their own; here each of them refuses, or gives up, when it   *)
(* likes.  What this module adds is which error ends up where: every error *)
(* is a record [kind, type], the kind being what isRetryable looks at and  *)
(* the type what ClassifyLLMError makes of it.                             *)
(***************************************************************************)
EXTENDS Integers, Sequences, FiniteSetsExt

CONSTANTS
    Callers,        \* goroutines, one call each
    MaxTries,       \* RetryConfig.MaxAttempts
    Statuses,       \* [status, code]: what a provider may refuse a request with
    Usages,         \* [prompt, output]: tokens a response may have used
    PromptRate, OutputRate  \* milli-cents per 1000 tokens

ASSUME CallAssumption ==
    /\ IsFiniteSet(Callers)
    /\ MaxTries \in Nat \ {0}
    /\ Statuses \subseteq
          [status: 300..599, code: {"", "rate", "timeout", "auth", "permission", "quota"}]
    /\ Usages \subseteq [prompt: Nat, output: Nat]
    /\ PromptRate \in Nat /\ OutputRate \in Nat

VARIABLES
    at,         \* per caller: "idle", "loop", "sent", "answered", "wait", "observe"
                \* or "done"
    attempts,   \* per caller: the attempt the loop is at; 0 outside of it
    result,     \* per caller: what the call ended with so far
    whole,      \* history: successful responses a caller has read to their end
    pricing,    \* the model's entry in the registry: "valid", "expired" or "missing"
    updates,    \* per caller: updates of the statistics still to be made
    loaded,     \* per caller: the counter as loaded for the first of them
    stats,      \* ObservabilityStats: counters that are not 0
    overlapped, \* history: two callers have updated the statistics at once
    died        \* "fatal error: concurrent map writes"

callVars == <<at, attempts, result, whole, pricing, updates, loaded, stats, overlapped, died>>

NoResult == [ok |-> FALSE, kind |-> "none"]
NotLoaded == -1

(* -------------------------------- errors -------------------------------- *)

Error(kind, type) == [kind |-> kind, type |-> type]

\* classifyErrorType: the error code of the provider first, then the status.
ProviderErrorType(r) ==
    CASE r.code = "rate" -> "rate_limit"
      [] r.code = "timeout" -> "timeout"
      [] r.code = "auth" -> "authentication"
      [] r.code = "permission" -> "permission_denied"
      [] r.code = "quota" -> "quota_exceeded"
      [] r.status = 429 -> "rate_limit"
      [] r.status = 401 -> "authentication"
      [] r.status = 403 -> "permission_denied"
      [] r.status \in {408, 504} -> "timeout"
      [] r.status = 400 -> "validation_failed"
      [] r.status >= 500 -> "provider_unavailable"
      [] OTHER -> "unknown"

ProviderErrors == {Error("provider", ProviderErrorType(r)) : r \in Statuses}

\* Sending a request and reading the body fail in the same ways: by the network,
\* whose texts ClassifyLLMError knows in part only, by the timeout of the
\* request, or because the caller's context has been cancelled.
NetworkErrors ==
    {Error("network", type) : type \in {"network", "timeout", "unknown"}}
        \cup {Error("deadline", "timeout"), Error("other", "unknown")}

\* A body that is not JSON or has no content; one with blank content only, in a
\* generation.
UselessResponse == {Error("other", "unknown"), Error("validation", "validation_failed")}

\* MUTANT of IsRetryable: what is not known is tried again.
IsRetryableByDefault(e) ==
    \/ e.kind \in {"limited", "network", "deadline", "other"}
    \/ e.kind = "provider"
        /\ e.type \in {"timeout", "rate_limit", "network", "provider_unavailable"}

\* retryMiddleware.isRetryable, with ProviderError.IsRetryable.
IsRetryable(e) ==
    \/ e.kind \in {"limited", "network", "deadline"}
    \/ e.kind = "provider"
        /\ e.type \in {"timeout", "rate_limit", "network", "provider_unavailable"}

\* The Retryable of ClassifyLLMError, which is what a workflow would go by.
ClassifiedRetryable(e) ==
    e.type \in {"timeout", "rate_limit", "network", "provider_unavailable", "circuit_breaker"}

(* -------------------------------- the call ------------------------------ *)

CallInit(prices) ==
    /\ at = [c \in Callers |-> "idle"]
    /\ attempts = [c \in Callers |-> 0]
    /\ result = [c \in Callers |-> NoResult]
    /\ whole = [c \in Callers |-> 0]
    /\ pricing \in prices
    /\ updates = [c \in Callers |-> <<>>]
    /\ loaded = [c \in Callers |-> NotLoaded]
    /\ stats = <<>>
    /\ overlapped = FALSE
    /\ died = FALSE

NoKey == "-"    \* of a counter that is not in a map
Counter(name, key) == <<name, key>>
Update(name, key, amount) == [counter |-> Counter(name, key), amount |-> amount]

\* MUTANT of Updates: the else is missing, an error counts as a success, too.
UpdatesBoth(r) ==
    <<Update("total", NoKey, 1)>> \o
    (IF r.ok THEN <<>> ELSE <<Update("error", NoKey, 1), Update("ErrorsByType", r.type, 1)>>)
    \o <<Update("success", NoKey, 1)>>

\* What the observability middleware adds up for a call; cents are rounded down
\* call by call.  (Left out: TotalTokens, which is added up like the cents but
\* without rounding, and the average latency.)
Updates(r) ==
    <<Update("total", NoKey, 1)>> \o
    IF r.ok
    THEN <<Update("success", NoKey, 1), Update("cents", NoKey, r.cost \div 1000),
           Update("RequestsByStatus", "stop", 1)>>
    ELSE <<Update("error", NoKey, 1), Update("ErrorsByType", r.type, 1)>>

Observing == {c \in Callers : at[c] = "observe"}

\* The call is back in the outermost middleware.
EndCall(c, r) ==
    /\ at' = [at EXCEPT ![c] = "observe"]
    /\ attempts' = [attempts EXCEPT ![c] = 0]
    /\ result' = [result EXCEPT ![c] = r]
    /\ updates' = [updates EXCEPT ![c] = Updates(r)]
    /\ overlapped' = (overlapped \/ Observing # {})

Failed(e) == [ok |-> FALSE, kind |-> e.kind, type |-> e.type]

\* The breaker refuses; or the context has ended before the first attempt, or
\* MaxElapsedTime has.
Refused(c) ==
    /\ at[c] = "idle"
    /\ \E e \in {Error("breaker", "circuit_breaker"), Error("other", "timeout"),
                 Error("other", "unknown")} :
          EndCall(c, Failed(e))
    /\ UNCHANGED whole

Admitted(c) ==
    /\ at[c] = "idle"
    /\ at' = [at EXCEPT ![c] = "loop"]
    /\ attempts' = [attempts EXCEPT ![c] = 1]
    /\ UNCHANGED <<result, whole, updates, overlapped>>

\* An attempt comes back with an error: the retry loop ends the call, which it
\* does after the last attempt, and before if no wait fits in MaxElapsedTime, or
\* waits.  There is no response with an error, so the budget is not charged.
FailAttempt(c, e) ==
    \/ EndCall(c, Failed(e))
    \/ /\ IsRetryable(e) /\ attempts[c] < MaxTries
       /\ at' = [at EXCEPT ![c] = "wait"]
       /\ UNCHANGED <<attempts, result, updates, overlapped>>

\* The rate limiter refuses, the provider is not configured, or the request is
\* sent.
Attempt(c) ==
    /\ at[c] = "loop"
    /\ \/ \E e \in {Error("limited", "rate_limit"), Error("other", "unknown")} :
             FailAttempt(c, e)
       \/ at' = [at EXCEPT ![c] = "sent"] /\ UNCHANGED <<attempts, result, updates, overlapped>>
    /\ UNCHANGED whole

\* No usable answer: none at all, a refusal, or a success whose body breaks off.
NoResponse(c) ==
    /\ at[c] = "sent"
    /\ \E e \in NetworkErrors \cup ProviderErrors : FailAttempt(c, e)
    /\ UNCHANGED whole

\* Parse, ValidateProviderResponse and ValidateGenerationResponse.
WholeResponse(c) ==
    /\ at[c] = "sent"
    /\ whole' = [whole EXCEPT ![c] = @ + 1]
    /\ \/ \E e \in UselessResponse : FailAttempt(c, e)
       \/ /\ at' = [at EXCEPT ![c] = "answered"]
          /\ UNCHANGED <<attempts, result, updates, overlapped>>

\* PricingEntry.Calculate: each kind of token is rounded down.
Calculate(u) == (u.prompt * PromptRate) \div 1000 + (u.output * OutputRate) \div 1000

\* GetCost, which fails closed: without a price that is still valid the response
\* is thrown away.
GetCost(c) ==
    /\ at[c] = "answered"
    /\ IF pricing = "valid"
       THEN \E u \in Usages : EndCall(c, [ok |-> TRUE, usage |-> u, cost |-> Calculate(u)])
       ELSE FailAttempt(c, Error("pricing", "pricing_unavailable"))
    /\ UNCHANGED whole

Wake(c) ==
    /\ at[c] = "wait"
    /\ at' = [at EXCEPT ![c] = "loop"]
    /\ attempts' = [attempts EXCEPT ![c] = @ + 1]
    /\ UNCHANGED <<result, whole, updates, overlapped>>

\* The context ends during the wait, by cancellation or by its deadline.
CancelWait(c) ==
    /\ at[c] = "wait"
    /\ \E type \in {"timeout", "unknown"} : EndCall(c, Failed(Error("other", type)))
    /\ UNCHANGED whole

\* PricingValidFor has passed since NewClient: nobody calls Refresh.  (It no
\* longer matters once all calls have been priced.)
PricesExpire ==
    /\ pricing = "valid" /\ ~died
    /\ \E c \in Callers : at[c] \notin {"observe", "done"}
    /\ pricing' = "expired"
    /\ UNCHANGED <<at, attempts, result, whole, updates, loaded, stats, overlapped, died>>

(* ------------------------------ statistics ------------------------------ *)

Reading(counter) == IF counter \in DOMAIN stats THEN stats[counter] ELSE 0

\* The counters are plain integers, and maps of them: an update loads and stores.
Load(c) ==
    /\ at[c] = "observe" /\ loaded[c] = NotLoaded
    /\ loaded' = [loaded EXCEPT ![c] = Reading(Head(updates[c]).counter)]
    /\ UNCHANGED <<at, updates, stats>>

Store(c) ==
    /\ at[c] = "observe" /\ loaded[c] # NotLoaded
    /\ LET u == Head(updates[c])
       IN  stats' = [k \in DOMAIN stats \cup {u.counter} |->
                        IF k = u.counter THEN loaded[c] + u.amount ELSE stats[k]]
    /\ updates' = [updates EXCEPT ![c] = Tail(@)]
    /\ loaded' = [loaded EXCEPT ![c] = NotLoaded]
    /\ at' = [at EXCEPT ![c] = IF Len(updates[c]) = 1 THEN "done" ELSE "observe"]

WritingMap(c, map) ==
    at[c] = "observe" /\ loaded[c] # NotLoaded /\ Head(updates[c]).counter[1] = map

\* The runtime notices two writers of one map and ends the process; it need not.
ConcurrentMapWrites ==
    /\ ~died
    /\ \E c, d \in Callers, map \in {"ErrorsByType", "RequestsByStatus"} :
          c # d /\ WritingMap(c, map) /\ WritingMap(d, map)
    /\ died' = TRUE
    /\ UNCHANGED <<at, attempts, result, whole, pricing, updates, loaded, stats, overlapped>>

(* ------------------------------------------------------------------------ *)

CallStep(c) ==
    /\ ~died
    /\ \/ /\ \/ Refused(c) \/ Admitted(c) \/ Attempt(c) \/ NoResponse(c)
             \/ WholeResponse(c) \/ GetCost(c) \/ Wake(c)
          /\ UNCHANGED <<loaded, stats>>
       \/ (Load(c) \/ Store(c)) /\ UNCHANGED <<attempts, result, whole, overlapped>>
    /\ UNCHANGED <<pricing, died>>

CallNext ==
    \/ \E c \in Callers : CallStep(c)
    \/ \E c \in Callers : ~died /\ CancelWait(c) /\ UNCHANGED <<pricing, loaded, stats, died>>
    \/ PricesExpire
    \/ ConcurrentMapWrites

CallSpec == CallInit({"valid", "missing"}) /\ [][CallNext]_callVars

(* ------------------------------ properties ------------------------------ *)

Ended == {c \in Callers : at[c] \in {"observe", "done"}}
Succeeded == {c \in Ended : result[c].ok}

\* No call pays for a second whole response: neither the retry loop nor, judging
\* by the classified error, its caller tries again after one.  A response is
\* handed on only with a price, at most two roundings below the exact one.
PaidOnce ==
    \A c \in Callers :
        /\ whole[c] <= 1
        /\ c \in Ended \ Succeeded /\ whole[c] = 1 =>
              ~IsRetryable(result[c]) /\ ~ClassifiedRetryable(result[c])
        /\ c \in Succeeded =>
              /\ whole[c] = 1 /\ pricing # "missing"
              /\ LET u == result[c].usage
                     exact == u.prompt * PromptRate + u.output * OutputRate
                 IN  exact - 2000 < 1000 * result[c].cost /\ 1000 * result[c].cost <= exact

Costs == SumFunction([c \in Succeeded |-> result[c].cost])

\* How often what a counter counts has happened.
Happened(k) ==
    CASE k[1] = "total" -> Cardinality(Ended)
      [] k[1] = "success" -> Cardinality(Succeeded)
      [] k[1] = "error" -> Cardinality(Ended \ Succeeded)
      [] k[1] = "ErrorsByType" -> Cardinality({c \in Ended \ Succeeded : result[c].type = k[2]})

\* The counters that do not add up money, or responses by status.
Countable ==
    {Counter("total", NoKey), Counter("success", NoKey), Counter("error", NoKey)}
        \cup {Counter("ErrorsByType", result[c].type) : c \in Ended \ Succeeded}

\* The statistics never tell of more than has happened, whatever updates are
\* lost; if no two calls ended at once they are exact, but for the cents.
StatsTrue ==
    LET cents == Reading(Counter("cents", NoKey))
    IN  /\ \A k \in DOMAIN stats : k \in Countable => stats[k] <= Happened(k)
        /\ \A k \in DOMAIN stats \ Countable : k[1] \in {"cents", "RequestsByStatus"}
        /\ 1000 * cents <= Costs
        /\ ~overlapped /\ Observing = {} =>
              /\ \A k \in Countable : Reading(k) = Happened(k)
              /\ 1000 * cents > Costs - 1000 * Cardinality(Succeeded) \/ Succeeded = {}
=============================================================================
