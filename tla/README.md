# A TLA+ model of go-judgy

go-judgy evaluates the answers of language models: Temporal activities generate
answers, score them and aggregate the scores, and every call to a provider goes
through a chain of middleware (cache, circuit breaker, retry, rate limiting,
pricing) that several goroutines and several instances of the service share.
The modules here model that shared machinery and the activities above it step by
step, TLC checks them on small instances and TLAPS proves the results that matter
most for every instance.

Paths below are relative to `src/internal/` unless they start with `src/`.

## 1. Inventory

The pipeline of a call (`llm/client.go`), outermost first: observability, cache,
circuit breaker, retry, rate limit, pricing, HTTP handler. Each is a
`transport.Middleware` that gets the next `Handler`; they talk to each other only
through the returned error and response, and through values in the context.

| part | state it keeps | operations | what is hard |
|---|---|---|---|
| circuit breaker `llm/circuitbreaker/circuit_breaker.go`, `middleware.go` | `state`, `failures`, `successes`, `halfOpenProbes`, `lastFailureTime`, all atomics, no lock | `allow`, `recordSuccess`, `recordFailure`, `transitionTo`, the probe's `Cleanup`, `Reset` | every pair of atomic operations of one call can be separated by any number of operations of others; the state is published before the counters are cleared |
| breaker store `sharded.go` | a map and an RWMutex per shard, one atomic `total` | `getOrCreate`, `get` | the limit spans shards that share no lock |
| adaptive thresholds `adaptive.go` | two atomic counters, `windowStart`, `currentThreshold`, a mutex for the reset only | `recordRequest`, `adjust`, `getThreshold` | counting does not take the mutex of the reset |
| probe guard `middleware.go` | a Redis key with a time to live | `acquireProbeGuard`, `releaseProbeGuard` | instances crash, Redis fails, probes outlast the key; the key names no owner |
| response cache `llm/cache` | entries and lease keys in Redis | check-and-lease script, wait and retry, store, deferred cleanup | the same, and the client's reading of the script's reply |
| rate limiter `llm/ratelimit` | token buckets per key in a sharded map, usage timestamps, degraded mode, a fallback limiter | `Handle`, `getOrCreateLimiter`, `CleanupStale`, `Start`, `Stop` | idle limiters are replaced while others use them; degraded mode and its fallback |
| retry `llm/retry` | per call: attempt, elapsed time, cost | the attempt loop, backoff, budget | budgets at their boundary; Retry-After against the deadline; probes |
| LLM client `llm/client_generate.go`, `client_score.go` | a semaphore, a slice of results | `Generate`, `Score` | fan-out bounded by the semaphore, cancellation, partial failure |
| HTTP handler `llm/transport`, error tables `llm/errors` | none | one request, classification of errors | the response is nil on error; two tables decide what is retried, one in the retry loop and one for the workflow |
| pricing and usage `llm/business` | a registry under an RWMutex | cost of a call | rounding to milli-cents; prices expire while calls are under way, and a response that was paid for is then refused |
| observability `llm/resilience` | statistics: integers and two maps, no lock | one update per counter at the end of a call | calls of several goroutines end at once |
| generation activities `generation` | artifacts in a store, under keys that all attempts of the activity share | store the contents of answers in parallel, undo on failure | failure halfway, attempts that outlive their timeout, a worker that dies |
| scoring activities `scoring` | one slot per answer, filled by goroutines | batch scoring, one-shot repair, reasoning blobs | cancellation between launches, goroutines that outlive the loop |
| aggregation `aggregation`, `domain/aggregation.go` | none | scores to a winner and an aggregate | ties, zero scores, invalid scores, trimming |
| domain `domain` | records with validation | verdicts, budget, state transitions | boundaries |
| events `src/pkg/events`, `src/pkg/activity` | the sink: one event per idempotency key | best-effort emission, one repetition | an event that arrived and is repeated, events of attempts that failed |
| workflow, worker | none yet (the workflow is a stub) | registration | nothing |

What makes each correct:

- circuit breaker: no probe slot leaks, a count that reached its threshold is
  acted on, the breaker recovers, and one caller at a time sees the textbook
  machine of the `Config` comments;
- breaker store: the limit is exact, a key has one breaker, calls return;
- adaptive thresholds: one reset per window, the threshold is the grade of the
  counters and does not compound;
- probe guard: mutual exclusion while nothing goes wrong, and release in every case;
- cache lease: no second taker before its time is over, whatever goes wrong, and
  an end in every case;
- rate limiter: never more than the burst plus the rate, never fail open, no
  bucket replaced under a request, no lock left or released twice;
- retry: attempts, time and cost stay within their limits; what is not retryable
  is tried once;
- a call: at most one whole response is paid for, its price is exact but for two
  roundings, and the statistics never tell of more than has happened;
- generation: the answers are those of the calls that succeeded, in order, their
  contents are in the store, and an attempt that fails takes back all of its own;
- scoring: one score per answer, in order, each made from a reply that meets the
  schema, and no goroutine writes to a batch that has been reported;
- aggregation: the winner is a candidate whose own scores have the best statistic,
  the aggregate is that statistic over all valid scores;
- events: what the sink has is true of an output that was returned or will be.

## 2. Modules

| module | stands for | state and actions |
|---|---|---|
| `CircuitBreaker` | one breaker and the goroutines in its middleware | one action per Load, Store, Add, Swap and CompareAndSwap, named after the function: `Probe*` and `SwapHalfOpen` are `allow`, `Ok*` `recordSuccess`, `Err*` `recordFailure`, `Rel*` the Cleanup, `Reset*` the stores that follow a transition, in the order of the code |
| `BreakerContract` | the abstract breaker of the `Config` comments: a mode, a streak, an age, one call | `Ask`, `Refuse`, `HalfOpen`, `Run`, `Succeeded`, `Failed` |
| `SequentialBreaker` | the refinement mapping from `CircuitBreaker` with one goroutine to `BreakerContract` | `modeOf`, `streakOf`, `ageOf`, `callOf` |
| `MCCircuitBreaker` | `CircuitBreaker` for TLC | |
| `CircuitBreakerProofs` | theorems about `CircuitBreaker` and `SequentialBreaker` | |
| `ShardedBreakers` (`MC…`, `…Proofs`) | `getOrCreate` over all shards | one action per lock operation, atomic and map access |
| `AdaptiveThresholds` (`MC…`, `…Proofs`) | `recordRequest`, `adjust` | one action per atomic and lock operation |
| `ProbeGuard` (`…Proofs`) | the Redis guard of half-open probes | `Acquire`, `Finish`, `Release`, `Crash`, `Tick` |
| `RateLimiter` (`MC…`, `…Proofs`) | the rate limiter for one key: the local bucket or the fallback bucket in the sharded map, degraded mode, the cleanup, the goroutines in `Handle` | `Arrive`, `Phase2`, `Phase3` are the three checks of a request; `Lookup`, `Lock`, `Fill`, `Unlock` the limiter it needs; `Mark`, `Reserve`, `Cancel`, `Allow` the bucket operations; `Forget`/`CleanupStale` the cleanup; `Script` the answer of Redis |
| `Retry` (`MC…`, `…Proofs`) | one request in the retry middleware | `Loop` is the head of the loop, `Succeed`, `FailFatally`, `FailLast`, `FailForNow` what an attempt can come to, `BackOff` the choice of the wait, `Wake` and `Cancel` its end |
| `CacheLease` (`…Proofs`) | the cache for one key | the script and what the client makes of its reply (`Hit`, `HitUnreadable`, `Miss`, `CheckError`), the wait (`RetryHit`, `RetryMiss`, `FindUnreadable`, `DropUnreadable`, `Cancel`), `Execute`, `Store`, `Release`, `Crash`, `Age`, `Tick` |
| `LLMCall` | a call on its way through the whole chain, and the statistics all calls share | `Refused`/`Admitted` by what is outside of the retry loop, `Attempt`, `NoResponse`, `WholeResponse`, `GetCost` one attempt by what it comes to, `Wake`, `CancelWait` the wait; `PricesExpire`; `Load`, `Store` one counter of the statistics, `ConcurrentMapWrites`. Errors are records [kind, type]: what the retry loop asks for and what the classification makes of it |
| `EventSink` | `EmitEventSafe` and the sink | `Appended`, `AppendFails` (which may have delivered), `EmissionCancelled`, `Cancel` |
| `Generation` | all attempts of one `GenerateAnswers`, and the artifact store | `Request`; `Begin`, `Launch`, `Answered`, `Generated` the fan-out of the client; `TakeSlot`, `StoreContent`, `StoreFails`, `FinishStore` the parallel stores; `Cleanup` the undo; `ReturnError`, `ReturnAnswers`; `TimeOut`, `Crash` start the next attempt, a timed out one goes on |
| `Scoring` | one attempt of `ScoreAnswers`: attempts share nothing but the sink | `BeginScoring`, `LaunchWorker` the loop; `StartWorker`, `JudgeReplies`, `JudgeFails`, `StoreRationale(Fails)` a goroutine; `Gather`, `ReturnScores` |
| `Aggregation` | `AggregateScores` and the statistics of the domain | the statistics, `Winner` and `DetermineWinner` are operators over exact fractions; `Submit`, `Aggregate`, `RefuseToAggregate`, `ReturnVerdict` |
| `MCActivities` | the last five modules for TLC | `task`: which of the four a behaviour runs |
| `Ordering` | what a loop keeps of a slice, and how `sort` arranges one | `Sorted`, `InOrder`, `Elements`, by the place each element gets (`UpTo`) |
| `ActivityProofs` | theorems about `Generation`, `Scoring`, `Aggregation`, `LLMCall` and their composition | |

How they compose. `CircuitBreaker` takes from its neighbours what they promise:
`Thresholds` stands for `adaptive.getThreshold` (the set `Grades` of
`AdaptiveThresholds`, whose `TypeOK` says that nothing else is ever read), and
`ProbeGuard(w)` for the answer of the Redis guard, whose `GuardIsReleased`
justifies the strong fairness of a granted guard. `ShardedBreakers` promises one
breaker per key, so that a single breaker can be modelled. `Retry` takes its
neighbour inside, the rate limiter and what follows, as an attempt that returns
within `MaxCall` (`RequestsReturn` of `RateLimiter`, then the HTTP timeout), and
is itself the `Execute` of `CacheLease` and the run of a call in
`CircuitBreaker`, whose fairness `RequestAnswered` justifies.

`LLMCall` has the same chain from the side of what is passed along it: the answers
of breaker and limiter and the clock of the retry loop are free choices, so that it
covers whatever the detailed modules do, and the errors, which those choose freely,
are the ones the handler, the validation and the pricing make. A call of
`Generation` or `Scoring` is then `"ok"` or `"failed"`, after any time: `PaidOnce`
says what the one and the other have cost. The activities extend `EventSink`. They
share only the sink, where their keys differ, and the worker's artifact store, where
generation writes under `cand-…` keys and scoring under fresh ids of scores.

Time. Timestamps are kept as ages that saturate where no comparison can tell them
apart any more (`AgeCap`), or as a countdown (`ttl`, `lease`); `Tick` is the clock.

Redis. A Redis command is one atomic step. `trouble` in `ProbeGuard` and
`CacheLease` is a history variable, read by no action: it collects what went wrong
(`"redis"`, `"crash"`, in `ProbeGuard` also `"slow"`), so that a property can say what
holds while nothing has gone wrong. `takers` of `CacheLease` is one too: the requests
whose script has taken the lease, whether or not they have learned of it. With the
replies of Redis they never do (§5), so that `acquired` stays FALSE; `Release` has the
DEL of a request that believes it holds the lease all the same, as the code does.

## 3. Runs

| run | module, configuration | shows |
|---|---|---|
| `breaker` | `MCCircuitBreaker`, `CircuitBreaker.cfg` | two goroutines, thresholds {1,2}, two successes, one probe, the guard on: `TypeOK`, `SlotsAreOwned`, `ProbesWithinLimit`, `NoLostTrip`, `NoLostClose`, and `Recovers` |
| `breaker_contract` | `SequentialBreaker`, `CircuitBreaker_sequential.cfg` | one goroutine implements `BreakerContract`, with its liveness |
| `stale_swap` | `MCCircuitBreaker`, `CircuitBreaker_stale_swap.cfg` | violated: `NoClosedToHalfOpen` |
| `breaker_store` | `MCShardedBreakers`, `ShardedBreakers.cfg` | three goroutines, three keys in two shards, room for two breakers |
| `adaptive` | `MCAdaptiveThresholds`, `AdaptiveThresholds.cfg` | two goroutines, base threshold 5 (so that the three grades 5, 3, 2 differ), windows of length 1, four clock values |
| `probe_guard` | `ProbeGuard`, `ProbeGuard.cfg` | three instances, a guard of 3 and probes of up to 4 |
| `cache` | `CacheLease`, `CacheLease.cfg` | two requests, a lease of 2 and executions of up to 3: `OneTaker` (among the requests younger than a lease), `RequestsReturn`, `LeaseGoesAway` |
| `cache_leftover` | `CacheLease`, `CacheLease_leftover.cfg` | violated: `LeaseCleanedUp` |
| `rate_limit` | `MCRateLimiter`, `RateLimiter.cfg` | two requests with local and global limits on and off, a Redis that may fail, and the cleanup: `HeldIsCurrent` (the cleanup never takes away the bucket a request is about to use), `NeverFailOpen`, `Conforms` (admissions conform to one bucket), `RequestsReturn` |
| `double_unlock` | `RateLimiter`, `RateLimiter_crash.cfg` | violated: `NeverDies` |
| `activities` | `MCActivities`, `Activities.cfg` | one of four tasks, with failures, cancellation, attempts that time out or crash and an unreliable sink: `ResultsStored`, `UndoneOnFailure` (generation and its store), `ScoresTrue`, `OutputFrozen` (scoring), `AggregateRight`, `VerdictIsBest` (aggregation), `EventsTrue` (the sink), `PaidOnce`, `StatsTrue` (calls), and `TasksEnd` |
| `retry` | `MCRetry`, `Retry.cfg` | one request, 96 configurations around the limits: `SpendingBounded`, `DeadlineKept`, `GivesUpForAReason`, `RequestAnswered` |

Bounds and why they are enough. Two goroutines already give each race of the
breaker a winner and a loser, and the threshold set {1,2} both an immediate trip
and a streak; what a third goroutine could add to the safety properties is
covered by the proofs, which hold for any number. In `ShardedBreakers` two keys
share a shard (the recheck under the lock) and one has its own (the race for the
counter). Windows of length 1 and clock values 0..4 let a goroutine sleep through
two windows. A TTL smaller than the longest probe or execution lets keys expire
under their owners. Two requests are what the races of the rate limiter need: one
that creates the bucket and one that finds it missing; a look at the bucket of up to
two units lets a reservation fall due before it is cancelled, and a debt of two is
what two refused requests can reserve. Three attempts let the
backoff grow and reach its cap; responses of 700 and 1500 milli-cents round down
to nothing and to less than they cost; deadlines of 1 and 6 against a lag of 2,
calls of 2 and Retry-Afters of 2 and 9 give each comparison both outcomes.

For the activities: two slots for three answers make the launch loop wait, in the
fan-out, the stores and the scoring batch alike; two answers are enough for an
attempt that has stored one and fails at the other while another attempt, still
running or timed out, uses the same keys. Two attempts give every overlap of an old
attempt with a new one; more only repeat it, and `FailureUndone` is proved for any
number. The six replies are one for each way a judgement is accepted, clamped,
repaired or refused, with values beyond both ends of the range 0..2. The 174 lists
of scores are all lists of up to two of ten scores (of two candidates and of a
stranger, with ties, zeros, an error, an invalid one, one without its reasoning) and
the lists of three in which order, trimming and the median's middle matter, under
four policies, one and two required scores, and with a candidate that is malformed.
Two callers give each lost update of the statistics its reader and writer; usages
below and above a cent are rounded to nothing and to less than they cost.

Fairness. `WF` of a goroutine's step is the Go scheduler; calls have deadlines
(`next.Handle` returns). A mutex is taken under `SF`: `sync.RWMutex` does not
starve a waiter. `WF(Tick)`: time passes. `WF(Arrive)` in `Recovers` is the
premise of that property, that requests keep arriving; without it a breaker stays
open, since only a request looks at the clock. Nobody has to call `Reset`, crash
or lose a command. In `activities` there is one weak fairness, on the steps of all
goroutines of the task together: it asks only that the process does not stand still,
since every request has a timeout; nobody has to cancel, time out or crash.

## 4. Proofs

- `CircuitBreakerProofs`. `TypeCorrect`. `ProbeAccounting`: the counter of probe
  slots is bounded by the goroutines that own one, and, `ProbesAreLimited`, by the
  limit. The invariant is not inductive alone: between the load of a slot's counter
  and its CompareAndSwap the loaded value has to be known to lie below the limit
  (above 0 for a release), and a goroutine between its CompareAndSwap and its Cleanup
  has to be known to own a slot; with that, resets only lower the counter.
  `NoTripIsLost`, `NoClosingIsLost`: a breaker whose count has reached its threshold
  has a goroutine about to act on it, or about to clear the count.
  `LoneImplements`: with one goroutine and no guard each step is one of
  `BreakerContract` or none, the safety part of `ImplementsContract` for all
  thresholds and timeouts. Its invariant says that where the goroutine is tells the
  state, and that what it has loaded still holds; that it is not refused as a second
  probe follows from `ProbeAccounting`.
- `ShardedBreakersProofs`. `SingleBreaker` from the ownership of the shard
  locks: whoever is between lock and unlock holds the lock of its key's shard.
  `CounterExact`, `LimitIsKept` and `RefusedWithCause` count: `total` is the number of
  breakers, of creations under way and of rollbacks to come, and there is a rollback
  only while the places are full. `TypeCorrect`, which needs the count to keep the
  counter from falling below 0.
- `AdaptiveThresholdsProofs`. `OneReset`: a goroutine that resets holds the mutex
  and still finds the window expired. `ThresholdIsAGrade`: whatever mixture of
  counters `adjust` has read, what it stores is derived from the base.
  `SequentialGrade`: as long as nobody has overlapped, the one goroutine inside still
  finds the counters as it has loaded them.
- `ProbeGuardProofs`. `GuardExcludes`: without trouble an active instance owns
  the key, because the time it has taken and the time the key has left add up to
  the TTL.
- `CacheLeaseProofs`. `TakersExclude`, by the same sum for a taker, with no exception
  for trouble: while a taker is younger than the lease, its time and what the lease has
  left add up to the timeout, so the key is there and nobody takes it. It needs that
  nobody deletes the key before, which holds because no reply is ever read as
  `leaseAcquired`: the DEL names no owner, and with the length of the reply not checked
  (the mutant of the run) a taker that outlasts its lease deletes that of the next.
- `RateLimiterProofs`. `FailsClosed`: with the local check on, whoever is past phase 1
  has passed the bucket. A request that has passed no limit is past the global one only
  in degraded mode, which nothing ends, or where there is no global limit; and without
  one no request ever fails at Redis, so nobody switches to degraded mode later.
  `BucketStays`: a bucket somebody has got hold of has been idle at
  most for that request and one before it, whose time of use is the one it read
  before it took the locks; `BoundsAssumption` has the TTL longer than that.
  `AdmissionsConform`: the bucket in the map never has more than the ideal one. A new
  one is as full as the ideal one, which fills up after an admission before a bucket
  has been idle for long enough to be replaced; and what a reservation can give back,
  the ideal bucket, which lends nothing, has by then.
- `RetryProofs`. `TypeCorrect` (at most `MaxAttempts` attempts), which needs that
  who waits has attempts left. `DeadlineHolds`: the end of what is under way is
  fixed when it begins, an attempt only before the deadline and a wait only if it
  fits. `SpendingHolds`: before an attempt the account is within the budget, and
  what it does not show is less than a cent per attempt charged.
  `GivingUpJustified`: a request is given up for one of the reasons the code has, the
  wait that did not fit being one the backoff can produce.
- `ActivityProofs`, the activities and the calls.
  `FailureUndone`: every object in the store has an attempt that accounts for it, one
  that has recorded its put, has not failed and whose cleanup has not come that far;
  so when the cleanup is through there is none. It needs that nobody puts after the
  stores were waited for.
  `ResultsAreStored`: from the end of the fan-out on the answers are the calls that
  succeeded in the order of their indices, and a put that ended well has its content
  in place as long as nobody else has touched the object.
  `ReportIsFrozen`: there is a report only after the last goroutine is done.
  `ScoresAreTrue`: what a goroutine has written so far follows from where it is and
  from the reply it got; the tokens of the report are a sum of ones.
  `EventsAreTrue`: what is in the sink or in an outbox was made by an attempt that had
  stored all its answers, by goroutines that were all done, or by an election, so
  that what it says is final; an emission takes the first event of the outbox or none.
  `CallsPayOnce`: a whole response leads to its price or to the end of the call, and
  none of the errors that can follow one is retryable in either table; two floors
  lose less than a cent each.
  `StatsAreTrue`: every caller owes the updates its result calls for, has made some
  and has the rest in a queue. A counter, and what a caller has loaded of it, is at
  most the sum of what has been made; while no two callers have overlapped it is that
  sum. So updates are lost, never made up.
  `AggregateIsRight`, `VerdictIsRight`: see below.
  `TasksKeepPromises`, `ReportStaysFrozen`: the composition of the four, the
  specification of the run `activities`. A task's own invariant holds while the state
  of the others is as it was at first.

The aggregation's theorems are about data, a slice of any length, so the steps of the
specification are the smaller part. A sorted slice is a ranking of its numbers
(`SortedIsOrder`). A set of k numbers that none outside is below has the least sum
of all sets of k, one that none outside is above the greatest (`ExtremeSum`), so what
sorting and slicing leave in the middle has the sum of all less these two
(`SumBetween`): the mean, the median and the trimmed mean are three cases of it.
Exact fractions with positive denominators are totally preordered, so that of
finitely many candidates some have the best statistic; among them the least id is
the one `Winner` meets first. The older election `DetermineWinner` follows by the
invariant of who is ahead in its loop.

Sums and positions are recursive in the community modules, and the library states
induction over sets and numbers with an operator as a parameter. What is needed of it
is derived here from first-order facts: a set of natural numbers has a least element
(`LeastNatural`), a family of subsets of a finite set has a minimal one
(`MinimalSubset`), so a family that contains the empty set and grows by any one
element contains the whole (`Grows`); and the recursive equation of a sum makes a
table over the subsets, whose values can then be compared (`SumByTable`). The
families are sets, not operators, and that is enough. Slices put in an order are
functions of rank (`Ordering`) instead of recursive operators.

The assumptions are those the modules state about their constants: finitely many
goroutines and callers, positive limits and timeouts, `ShardOf` a function, replies,
refusals and usages that are records of their type, and lists of scores that are
slices of records whose values and costs are integers (`AggregationAssumption`). All
the invariants and action properties of the passing runs are theorems. Only
model-checked are the liveness properties, since fairness and ENABLED are out of the
prover's reach: `Recovers`, `EveryCallReturns`, `GuardIsReleased`, `LeaseGoesAway`,
`RequestsReturn`, `RequestAnswered`, `TasksEnd` and the liveness of the refinement
`ImplementsContract`.

## 5. Where code and comments part

Three runs show it, expecting the violation:

- `stale_swap`: `transitionTo` swaps the state without comparing
  (`circuit_breaker.go:326`). A goroutine that loaded `Open` before the breaker
  closed moves it from closed to half-open; the property test of the repository
  says that this cannot happen.
- `cache_leftover`: the script answers `{2, nil}` and Redis ends a reply at its
  first nil, so the one element that arrives is an "unexpected script result
  format": the request has taken a lease it does not know of, and nobody deletes it
  before it expires.
- `double_unlock`: `checkFallbackLimit` releases the mutex when it finds the bucket
  that another goroutine has created in between, and again after the bucket has
  admitted the request (`fallback_limiter.go:60` and `:78`): a fatal error that no
  `recover` catches.

Others were met while modelling; the models contain the behaviour and no property
states the contrary:

- the late stores of a transition erase a probe slot taken since the swap, so more
  probes than `HalfOpenProbes` can be in flight; and the stale swap can end an
  open period early;
- a goroutine can read failures of the old window and requests of the new one
  while a third resets (`adaptive.go:67`), an error rate above 1;
- a probe that outlasts the guard's TTL, or runs without a guard after a Redis
  error, deletes the guard of another instance; the lease of the cache would be lost
  the same way if the reply of its script could be read;
- a request that is refused a lease, and in fact every request that misses, the taker
  of the lease included, waits once and then executes; the GET after the wait serves
  entries older than `maxAge`;
- the GET after the wait and the DEL of an entry it cannot read are two commands, so
  the DEL can remove the fresh entry another request has stored in between;
- with `RequestsPerSecond` 0, which the validation accepts, the global check admits
  everything (`global_limiter.go:93`): if local limiting is off as well and Redis
  answered at the start, a request passes without any limit, by configuration;
- the cleanup replaces an idle bucket that was ever exhausted by one that admits
  nothing and is never removed: its key is refused from then on (`Conforms` bounds
  admissions from above only);
- one Redis error, a cancelled request included, switches to degraded mode, which
  nothing ends;
- two refused requests that reserve and cancel in the same order leave the bucket in
  debt, so it admits later than its rate allows;
- the retry middleware looks for the mark of a probe under a key that the breaker
  never sets, so probes are retried; the budget rounds every attempt down to whole
  cents, so attempts below one cent are free; and a response that comes with an
  error is nil in the real pipeline, so that failed attempts are not charged.

In the activities and the call below them, likewise modelled and not contradicted:

- an answer of the client refers to an object that nobody stores and has no content
  (`llm/transport/conversion.go:61`), and the activities have an artifact store of
  their own (`worker/register.go`): what `StoreAnswerContent` stores is its
  placeholder "ERROR: Content not found" (`generation/activities.go:301`);
- an attempt that was timed out and fails later deletes the artifacts that the next
  attempt has stored under the same keys (`generation/activities.go:272`); the model's
  `ResultsStored` therefore speaks of objects nobody else has touched. With some calls
  failed, the index in a key is not the same for the same call in the next attempt;
- the client reads the field "value" of a judgement (`llm/client_score.go:118`), the
  validator asks for "score" (`scoring/validator.go:26`): a judgement that meets the
  schema without the extra field is worth 0. And `DimensionScore.Value` is
  `required` (`domain/score.go:96`), which refuses a dimension of 0;
- the activities give scoring events the tenant "default" (`src/pkg/activity/base.go:63`),
  which their builder refuses to parse (`scoring/events.go:126`): none is emitted;
- a cancelled scoring batch succeeds with zero scores in it (`scoring/activities.go:181`);
- the tokens and the cost of a judgement that was paid for and refused are not in the
  output (`domain/score.go:482`);
- `DetermineWinner` finds no winner among scores of 0 (`domain/aggregation.go:207`),
  though no activity uses it; the activity's election has no such start value;
- a candidate that fails `Answer.Validate` is accepted as input and, if it wins, makes
  the output invalid, so that the aggregation fails;
- the prices are loaded once, valid for a day, and nobody refreshes them
  (`llm/client.go:105`): from then on every call is paid for and thrown away;
- the statistics are plain integers and maps that concurrent calls update without a
  lock (`llm/resilience/observability.go:340`), while the comment at `GetStats` calls
  them safe: updates get lost, and two map writes may end the process;
- the retry loop and `ClassifyLLMError` disagree on network errors and on an open
  breaker; `Generate` never returns an error, so that the classification in
  `generation/activities.go:127` is not reached.

## 6. Plan

The parts were taken in the order of what they decide: first what goroutines and
instances share (breaker with its contract, store, thresholds, guard, lease, rate
limiter), then one request in the retry loop, then the call as a whole and the three
activities above it, then the proofs of their safety, up to the composition of the last four.
A run takes all the questions of its component. What could follow, the most valuable
first:

1. Lemmas for liveness without fairness: that from every state some sequence of the
   steps fairness speaks of leads to an end (a measure that each of them lowers).
2. The verdict, the budget and the state of an evaluation (`domain`), once the
   workflow uses them.
3. The leaving of degraded mode, a refresh of the prices and a merge of the answers
   of two attempts, once the code has them.

## 7. Not modelled

Metrics, log lines, configuration loading, building HTTP requests and reading their
bodies (`llm/providers`: the models begin at status, error and completeness), the
canonical text of requests and its hash (`llm/transport/idempotency.go`), the
repair of JSON text (a judgement is repairable or not), the worker's registration and
the linters: they keep no state that a decision reads. Of the
statistics, the sum of the tokens (added up like the cents, but exactly) and the average
latency are left out.

Without a caller in the service, and so without an action: verdict, budget and state
transitions (the workflow validates its request and reports that it is not
implemented), the client's scoring with the business validator, `Refresh`, `AddEntry`
and the record of cost drift in the pricing registry, the fallback to another region's
price (no request names one), the logging middleware. `Start` and `Stop`
of the rate limiter's cleanup happen once, around everything modelled. Hash functions
are constant functions.
