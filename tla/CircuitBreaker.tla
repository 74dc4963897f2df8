--------------------------- MODULE CircuitBreaker ---------------------------
(***************************************************************************)
(* One circuitBreaker of internal/llm/circuitbreaker, driven by the        *)
(* goroutines that run its middleware.  The breaker is lock-free: every    *)
(* Load, Store, Add, Swap and CompareAndSwap on its atomics is a step of   *)
(* its own here, and goroutines interleave between any two of them.        *)
(*                                                                         *)
(* Time is kept as ages.  sinceFailure is time.Since(lastFailureTime) and  *)
(* stamp[w] the age of the timestamp goroutine w holds in a local          *)
(* variable; Tick makes both grow, saturating at AgeCap, beyond which no   *)
(* comparison of the code can tell two ages apart.                         *)
(***************************************************************************)
EXTENDS Integers, FiniteSets

CONSTANTS
    Workers,            \* goroutines that call the middleware
    Thresholds,         \* the values adaptive.getThreshold may return, or
                        \* {FailureThreshold} when adaptive is nil
    SuccessThreshold,
    MaxHalfOpenProbes,  \* Config.HalfOpenProbes
    OpenTimeout,
    MaxJitter,          \* getJitter returns a value in 0..MaxJitter
    GuardEnabled        \* probeGuardEnabled: a Redis client was given

ASSUME WorkersAssumption == IsFiniteSet(Workers)
ASSUME ThresholdsAssumption ==
    /\ Thresholds \subseteq Nat \ {0}
    /\ Thresholds # {}
    /\ IsFiniteSet(Thresholds)
ASSUME LimitsAssumption ==
    /\ SuccessThreshold \in Nat \ {0}
    /\ MaxHalfOpenProbes \in Nat
    /\ OpenTimeout \in Nat
    /\ MaxJitter \in Nat
    /\ GuardEnabled \in BOOLEAN

VARIABLES
    state, failures, successes, halfOpenProbes,  \* the atomics of the struct
    sinceFailure,   \* age of lastFailureTime
    pc,             \* where each goroutine is between two atomic operations
    probe,          \* circuitResult.IsHalfOpenProbe: w owns a probe slot
    cur,            \* the value of halfOpenProbes w has loaded
    stamp,          \* age of the time.Time w holds in a local variable
    pending,        \* counters a transition of w has still to store 0 into
    resume,         \* where w continues after those stores
    healthy         \* the provider no longer fails

breaker == <<state, failures, successes, halfOpenProbes, sinceFailure>>
locals  == <<pc, probe, cur, stamp, pending, resume>>
vars    == <<breaker, locals, healthy>>

CircuitState == {"Closed", "Open", "HalfOpen"}
Counter == {"failures", "successes", "halfOpenProbes"}
PC == {"idle", "loadFailureTime", "checkTimeout", "swapHalfOpen", "swapClosed",
       "reset", "probeLoad", "probeCAS", "guard", "call",
       "okLoad", "okStore", "okAdd", "okCAS", "okUndo",
       "errNow", "errStore", "errLoad", "errAdd", "errOpen", "errReopen",
       "relLoad", "relCAS"}

AgeCap == OpenTimeout + MaxJitter + 1
Older(age) == IF age = AgeCap THEN AgeCap ELSE age + 1

Init ==
    /\ state = "Closed"
    /\ failures = 0 /\ successes = 0 /\ halfOpenProbes = 0
    /\ sinceFailure = AgeCap        \* lastFailureTime is 0, the Unix epoch
    /\ pc = [w \in Workers |-> "idle"]
    /\ probe = [w \in Workers |-> FALSE]
    /\ cur = [w \in Workers |-> 0]
    /\ stamp = [w \in Workers |-> AgeCap]
    /\ pending = [w \in Workers |-> {}]
    /\ resume = [w \in Workers |-> "idle"]
    /\ healthy = FALSE

Goto(w, label) == pc' = [pc EXCEPT ![w] = label]

\* MUTANT of AfterRecord: a probe returns without its Cleanup.
AfterRecordNoCleanup(w) == "idle"

\* w leaves recordSuccess or recordFailure: a probe runs its deferred Cleanup.
AfterRecord(w) == IF probe[w] THEN "relLoad" ELSE "idle"

\* w has changed the state: it will store 0 into counters, then go to label.
Begin(w, counters, label) ==
    /\ Goto(w, "reset")
    /\ pending' = [pending EXCEPT ![w] = counters]
    /\ resume' = [resume EXCEPT ![w] = label]

(* ---------------------------------- allow ------------------------------- *)

\* allow loads the state: Closed admits, Open and HalfOpen go on.
Arrive(w) ==
    /\ pc[w] = "idle"
    /\ Goto(w, CASE state = "Closed"   -> "call"
                 [] state = "Open"     -> "loadFailureTime"
                 [] state = "HalfOpen" -> "probeLoad")
    /\ UNCHANGED <<breaker, probe, cur, stamp, pending, resume, healthy>>

LoadFailureTime(w) ==
    /\ pc[w] = "loadFailureTime"
    /\ stamp' = [stamp EXCEPT ![w] = sinceFailure]
    /\ Goto(w, "checkTimeout")
    /\ UNCHANGED <<breaker, probe, cur, pending, resume, healthy>>

\* time.Since(lastFailure) <= openTimeout + jitter rejects with CIRCUIT_OPEN.
CheckTimeout(w) ==
    /\ pc[w] = "checkTimeout"
    /\ \E jitter \in 0..MaxJitter :
          Goto(w, IF stamp[w] <= OpenTimeout + jitter THEN "idle"
                                                      ELSE "swapHalfOpen")
    /\ stamp' = [stamp EXCEPT ![w] = AgeCap]
    /\ UNCHANGED <<breaker, probe, cur, pending, resume, healthy>>

\* transitionTo(StateHalfOpen): the Swap does not look at the old state.
SwapHalfOpen(w) ==
    /\ pc[w] = "swapHalfOpen"
    /\ state' = "HalfOpen"
    /\ IF state # "HalfOpen"
       THEN Begin(w, {"successes", "halfOpenProbes"}, "probeLoad")
       ELSE Goto(w, "probeLoad") /\ UNCHANGED <<pending, resume>>
    /\ UNCHANGED <<failures, successes, halfOpenProbes, sinceFailure,
                   probe, cur, stamp, healthy>>

\* handleHalfOpenProbe: load the counter, CIRCUIT_HALF_OPEN_LIMIT at the limit.
ProbeLoad(w) ==
    /\ pc[w] = "probeLoad"
    /\ IF halfOpenProbes >= MaxHalfOpenProbes
       THEN Goto(w, "idle") /\ UNCHANGED cur
       ELSE Goto(w, "probeCAS") /\ cur' = [cur EXCEPT ![w] = halfOpenProbes]
    /\ UNCHANGED <<breaker, probe, stamp, pending, resume, healthy>>

\* MUTANT of ProbeCAS: check, then Add(1), in place of the CompareAndSwap.
ProbeAdd(w) ==
    /\ pc[w] = "probeCAS"
    /\ halfOpenProbes' = halfOpenProbes + 1
    /\ probe' = [probe EXCEPT ![w] = TRUE]
    /\ Goto(w, IF GuardEnabled THEN "guard" ELSE "call")
    /\ cur' = [cur EXCEPT ![w] = 0]
    /\ UNCHANGED <<state, failures, successes, sinceFailure,
                   stamp, pending, resume, healthy>>

ProbeCAS(w) ==
    /\ pc[w] = "probeCAS"
    /\ IF halfOpenProbes = cur[w]
       THEN /\ halfOpenProbes' = cur[w] + 1
            /\ probe' = [probe EXCEPT ![w] = TRUE]
            /\ Goto(w, IF GuardEnabled THEN "guard" ELSE "call")
       ELSE Goto(w, "probeLoad") /\ UNCHANGED <<halfOpenProbes, probe>>
    /\ cur' = [cur EXCEPT ![w] = 0]
    /\ UNCHANGED <<state, failures, successes, sinceFailure,
                   stamp, pending, resume, healthy>>

(* -------------------------- the protected call -------------------------- *)

\* MUTANT of ProbeGuard: Cleanup is deferred only after the guard is granted.
ProbeGuardLeak(w) ==
    /\ pc[w] = "guard"
    /\ \/ Goto(w, "call") /\ UNCHANGED probe
       \/ Goto(w, "idle") /\ probe' = [probe EXCEPT ![w] = FALSE]
    /\ UNCHANGED <<breaker, cur, stamp, pending, resume, healthy>>

\* acquireProbeGuard: granted, or PROBE_IN_PROGRESS, which records nothing.
ProbeGuard(w) ==
    /\ pc[w] = "guard"
    /\ \E granted \in BOOLEAN : Goto(w, IF granted THEN "call" ELSE "relLoad")
    /\ UNCHANGED <<breaker, probe, cur, stamp, pending, resume, healthy>>

Succeed(w) ==
    /\ pc[w] = "call"
    /\ Goto(w, "okLoad")
    /\ UNCHANGED <<breaker, probe, cur, stamp, pending, resume, healthy>>

Fail(w) ==
    /\ pc[w] = "call"
    /\ ~healthy
    /\ Goto(w, "errNow")
    /\ UNCHANGED <<breaker, probe, cur, stamp, pending, resume, healthy>>

(* ------------------------------ recordSuccess --------------------------- *)

OkLoad(w) ==
    /\ pc[w] = "okLoad"
    /\ Goto(w, CASE state = "Closed"   -> "okStore"
                 [] state = "HalfOpen" -> "okAdd"
                 [] state = "Open"     -> AfterRecord(w))
    /\ UNCHANGED <<breaker, probe, cur, stamp, pending, resume, healthy>>

\* MUTANT of OkStore: a success does not end a streak of failures.
OkStoreNothing(w) ==
    /\ pc[w] = "okStore"
    /\ Goto(w, AfterRecord(w))
    /\ UNCHANGED <<breaker, probe, cur, stamp, pending, resume, healthy>>

OkStore(w) ==
    /\ pc[w] = "okStore"
    /\ failures' = 0
    /\ Goto(w, AfterRecord(w))
    /\ UNCHANGED <<state, successes, halfOpenProbes, sinceFailure,
                   probe, cur, stamp, pending, resume, healthy>>

\* MUTANT of OkAdd: > in place of >=.
OkAddLate(w) ==
    /\ pc[w] = "okAdd"
    /\ successes' = successes + 1
    /\ Goto(w, IF successes' > SuccessThreshold THEN "okCAS" ELSE AfterRecord(w))
    /\ UNCHANGED <<state, failures, halfOpenProbes, sinceFailure,
                   probe, cur, stamp, pending, resume, healthy>>

OkAdd(w) ==
    /\ pc[w] = "okAdd"
    /\ successes' = successes + 1
    /\ Goto(w, IF successes' >= SuccessThreshold THEN "okCAS" ELSE AfterRecord(w))
    /\ UNCHANGED <<state, failures, halfOpenProbes, sinceFailure,
                   probe, cur, stamp, pending, resume, healthy>>

OkCAS(w) ==
    /\ pc[w] = "okCAS"
    /\ IF state = "HalfOpen"
       THEN state' = "Closed" /\ Begin(w, Counter, AfterRecord(w))
       ELSE Goto(w, "okUndo") /\ UNCHANGED <<state, pending, resume>>
    /\ UNCHANGED <<failures, successes, halfOpenProbes, sinceFailure,
                   probe, cur, stamp, healthy>>

OkUndo(w) ==
    /\ pc[w] = "okUndo"
    /\ successes' = successes - 1
    /\ Goto(w, "okLoad")
    /\ UNCHANGED <<state, failures, halfOpenProbes, sinceFailure,
                   probe, cur, stamp, pending, resume, healthy>>

(* ------------------------------ recordFailure --------------------------- *)

\* time.Now() is evaluated before the Store that publishes it.
ErrNow(w) ==
    /\ pc[w] = "errNow"
    /\ stamp' = [stamp EXCEPT ![w] = 0]
    /\ Goto(w, "errStore")
    /\ UNCHANGED <<breaker, probe, cur, pending, resume, healthy>>

ErrStore(w) ==
    /\ pc[w] = "errStore"
    /\ sinceFailure' = stamp[w]
    /\ stamp' = [stamp EXCEPT ![w] = AgeCap]
    /\ Goto(w, "errLoad")
    /\ UNCHANGED <<state, failures, successes, halfOpenProbes,
                   probe, cur, pending, resume, healthy>>

ErrLoad(w) ==
    /\ pc[w] = "errLoad"
    /\ Goto(w, CASE state = "Closed"   -> "errAdd"
                 [] state = "HalfOpen" -> "errReopen"
                 [] state = "Open"     -> AfterRecord(w))
    /\ UNCHANGED <<breaker, probe, cur, stamp, pending, resume, healthy>>

\* MUTANT of ErrAdd: > in place of >=.
ErrAddLate(w) ==
    /\ pc[w] = "errAdd"
    /\ failures' = failures + 1
    /\ \E threshold \in Thresholds :
          Goto(w, IF failures' > threshold THEN "errOpen" ELSE AfterRecord(w))
    /\ UNCHANGED <<state, successes, halfOpenProbes, sinceFailure,
                   probe, cur, stamp, pending, resume, healthy>>

\* The threshold is read after the Add; adaptive thresholds make it vary.
ErrAdd(w) ==
    /\ pc[w] = "errAdd"
    /\ failures' = failures + 1
    /\ \E threshold \in Thresholds :
          Goto(w, IF failures' >= threshold THEN "errOpen" ELSE AfterRecord(w))
    /\ UNCHANGED <<state, successes, halfOpenProbes, sinceFailure,
                   probe, cur, stamp, pending, resume, healthy>>

\* CompareAndSwap(Closed, Open); halfOpenProbes is not touched on this path.
ErrOpen(w) ==
    /\ pc[w] = "errOpen"
    /\ IF state = "Closed"
       THEN state' = "Open" /\ Begin(w, {"failures", "successes"}, AfterRecord(w))
       ELSE Goto(w, "errLoad") /\ UNCHANGED <<state, pending, resume>>
    /\ UNCHANGED <<failures, successes, halfOpenProbes, sinceFailure,
                   probe, cur, stamp, healthy>>

\* CompareAndSwap(HalfOpen, Open).
ErrReopen(w) ==
    /\ pc[w] = "errReopen"
    /\ IF state = "HalfOpen"
       THEN state' = "Open" /\ Begin(w, Counter, AfterRecord(w))
       ELSE Goto(w, "errLoad") /\ UNCHANGED <<state, pending, resume>>
    /\ UNCHANGED <<failures, successes, halfOpenProbes, sinceFailure,
                   probe, cur, stamp, healthy>>

(* -------------------- stores that follow a transition ------------------- *)

StoreZero(w, c) ==
    /\ pending' = [pending EXCEPT ![w] = @ \ {c}]
    /\ IF pending[w] = {c}
       THEN Goto(w, resume[w]) /\ resume' = [resume EXCEPT ![w] = "idle"]
       ELSE UNCHANGED <<pc, resume>>
    /\ UNCHANGED <<state, sinceFailure, probe, cur, stamp, healthy>>

ResetFailures(w) ==
    /\ pc[w] = "reset"
    /\ "failures" \in pending[w]
    /\ failures' = 0
    /\ StoreZero(w, "failures")
    /\ UNCHANGED <<successes, halfOpenProbes>>

ResetSuccesses(w) ==
    /\ pc[w] = "reset"
    /\ "failures" \notin pending[w]
    /\ "successes" \in pending[w]
    /\ successes' = 0
    /\ StoreZero(w, "successes")
    /\ UNCHANGED <<failures, halfOpenProbes>>

ResetProbes(w) ==
    /\ pc[w] = "reset"
    /\ pending[w] = {"halfOpenProbes"}
    /\ halfOpenProbes' = 0
    /\ StoreZero(w, "halfOpenProbes")
    /\ UNCHANGED <<failures, successes>>

(* --------------------------- Cleanup of a probe ------------------------- *)

\* MUTANT of RelLoad: the release does not saturate at 0.
RelLoadUnsaturated(w) ==
    /\ pc[w] = "relLoad"
    /\ Goto(w, "relCAS")
    /\ cur' = [cur EXCEPT ![w] = halfOpenProbes]
    /\ UNCHANGED <<breaker, probe, stamp, pending, resume, healthy>>

\* The release saturates at 0: a concurrent transition may have reset it.
RelLoad(w) ==
    /\ pc[w] = "relLoad"
    /\ IF halfOpenProbes = 0
       THEN /\ Goto(w, "idle")
            /\ probe' = [probe EXCEPT ![w] = FALSE]
            /\ UNCHANGED cur
       ELSE /\ Goto(w, "relCAS")
            /\ cur' = [cur EXCEPT ![w] = halfOpenProbes]
            /\ UNCHANGED probe
    /\ UNCHANGED <<breaker, stamp, pending, resume, healthy>>

RelCAS(w) ==
    /\ pc[w] = "relCAS"
    /\ IF halfOpenProbes = cur[w]
       THEN /\ halfOpenProbes' = cur[w] - 1
            /\ probe' = [probe EXCEPT ![w] = FALSE]
            /\ Goto(w, "idle")
       ELSE Goto(w, "relLoad") /\ UNCHANGED <<halfOpenProbes, probe>>
    /\ cur' = [cur EXCEPT ![w] = 0]
    /\ UNCHANGED <<state, failures, successes, sinceFailure,
                   stamp, pending, resume, healthy>>

(* ------------------------------ Reset(key) ------------------------------ *)

ResetCall(w) ==
    /\ pc[w] = "idle"
    /\ Goto(w, "swapClosed")
    /\ UNCHANGED <<breaker, probe, cur, stamp, pending, resume, healthy>>

\* transitionTo(StateClosed).
SwapClosed(w) ==
    /\ pc[w] = "swapClosed"
    /\ state' = "Closed"
    /\ IF state # "Closed"
       THEN Begin(w, Counter, "idle")
       ELSE Goto(w, "idle") /\ UNCHANGED <<pending, resume>>
    /\ UNCHANGED <<failures, successes, halfOpenProbes, sinceFailure,
                   probe, cur, stamp, healthy>>

(* ------------------------- clock and provider --------------------------- *)

Tick ==
    /\ sinceFailure' = Older(sinceFailure)
    /\ stamp' = [w \in Workers |-> Older(stamp[w])]
    /\ UNCHANGED <<state, failures, successes, halfOpenProbes,
                   pc, probe, cur, pending, resume, healthy>>

Recover ==
    /\ healthy' = TRUE
    /\ UNCHANGED <<breaker, locals>>

Allow(w) ==
    \/ LoadFailureTime(w) \/ CheckTimeout(w) \/ SwapHalfOpen(w)
    \/ ProbeLoad(w) \/ ProbeCAS(w) \/ ProbeGuard(w)

Call(w) == Succeed(w) \/ Fail(w)

RecordSuccess(w) == OkLoad(w) \/ OkStore(w) \/ OkAdd(w) \/ OkCAS(w) \/ OkUndo(w)

RecordFailure(w) ==
    ErrNow(w) \/ ErrStore(w) \/ ErrLoad(w) \/ ErrAdd(w) \/ ErrOpen(w) \/ ErrReopen(w)

Stores(w) == ResetFailures(w) \/ ResetSuccesses(w) \/ ResetProbes(w)

Cleanup(w) == RelLoad(w) \/ RelCAS(w)

\* A step of an operation already under way.
Step(w) ==
    \/ Allow(w) \/ Call(w) \/ RecordSuccess(w) \/ RecordFailure(w)
    \/ Stores(w) \/ Cleanup(w) \/ SwapClosed(w)

Next == Tick \/ Recover \/ \E w \in Workers : Arrive(w) \/ ResetCall(w) \/ Step(w)

Spec == Init /\ [][Next]_vars

\* The Go scheduler runs every goroutine that can run, calls return, the clock
\* advances and requests keep arriving; a probe guard that is asked for again
\* and again is granted, as module ProbeGuard shows it to go away in the end;
\* nobody has to call Reset.
Fairness ==
    /\ WF_vars(Tick)
    /\ \A w \in Workers :
          /\ WF_vars(Arrive(w)) /\ WF_vars(Step(w))
          /\ SF_vars(ProbeGuard(w) /\ pc'[w] = "call")

FairSpec == Spec /\ Fairness

(* ------------------------------ properties ------------------------------ *)

\* Every variable keeps its type.  successes may be negative: okUndo can come
\* after another goroutine's Store(0).
TypeOK ==
    /\ state \in CircuitState
    /\ failures \in Nat /\ successes \in Int /\ halfOpenProbes \in Nat
    /\ sinceFailure \in 0..AgeCap
    /\ pc \in [Workers -> PC]
    /\ probe \in [Workers -> BOOLEAN]
    /\ cur \in [Workers -> Nat]
    /\ stamp \in [Workers -> 0..AgeCap]
    /\ pending \in [Workers -> SUBSET Counter]
    /\ resume \in [Workers -> {"idle", "probeLoad", "relLoad"}]
    /\ healthy \in BOOLEAN

Probing == {w \in Workers : probe[w]}

\* No slot leaks: every slot counted by halfOpenProbes belongs to a goroutine
\* whose Cleanup is still to run, whatever resets happened in between.  When
\* all calls have returned the counter is back at 0.
SlotsAreOwned == halfOpenProbes <= Cardinality(Probing)

\* The counter never passes Config.HalfOpenProbes.
ProbesWithinLimit == halfOpenProbes <= MaxHalfOpenProbes

\* No trip is lost: if a closed breaker has counted as many failures as any
\* threshold asks for, some goroutine is about to open it, or about to clear
\* the count for the transition that closed it.
NoLostTrip ==
    state = "Closed" /\ (\A t \in Thresholds : failures >= t) =>
        \E w \in Workers : pc[w] = "errOpen" \/ "failures" \in pending[w]

\* No closing is lost: a half-open breaker that has counted SuccessThreshold
\* successes has a goroutine about to close it, or about to clear the count.
NoLostClose ==
    state = "HalfOpen" /\ successes >= SuccessThreshold =>
        \E w \in Workers : pc[w] = "okCAS" \/ "successes" \in pending[w]

\* The breaker recovers: once the provider no longer fails, and while requests
\* keep arriving, the breaker ends up closed for good.  No stale transition,
\* reset or undo can leave it open or half-open for ever.
Recovers == healthy ~> [](state = "Closed")

(* ----------------- what the documentation and tests say ----------------- *)

\* circuit_breaker_prop_test.go:105: "Can't go directly from closed to
\* half-open".  The code: a goroutine that has seen Open long ago swaps the
\* state to HalfOpen whatever it has become.
NoClosedToHalfOpen == [][~(state = "Closed" /\ state' = "HalfOpen")]_vars
=============================================================================
