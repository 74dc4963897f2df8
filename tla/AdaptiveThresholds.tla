------------------------- MODULE AdaptiveThresholds -------------------------
(***************************************************************************)
(* adaptiveThresholds of internal/llm/circuitbreaker.  Goroutines count    *)
(* their outcome in two atomics, and the first one to find the window      *)
(* expired clears them under a mutex that the counting does not take.      *)
(***************************************************************************)
EXTENDS Integers, FiniteSets

CONSTANTS
    Workers,
    NoOne,              \* holds the mutex when no goroutine does
    BaseThreshold,      \* baseFailureThreshold
    MinRequests,        \* minRequestsForAdjustment (10)
    WindowDuration,
    MaxClock,           \* bound: the clock stops there
    MaxRequests         \* bound: no request is recorded beyond it in a window

ASSUME WorkersAssumption == IsFiniteSet(Workers) /\ NoOne \notin Workers
ASSUME BoundsAssumption ==
    /\ BaseThreshold \in Nat /\ MinRequests \in Nat \ {0}
    /\ WindowDuration \in Nat /\ MaxClock \in Nat /\ MaxRequests \in Nat

VARIABLES
    totalRequests, totalFailures, windowStart, currentThreshold,
    mu,         \* who holds the mutex
    clock,      \* time.Now()
    pc,
    now,        \* the time a goroutine read when it entered recordRequest
    failed,     \* the outcome it records
    total,      \* totalRequests as adjust loaded it
    grade       \* newThreshold, about to be stored

shared == <<totalRequests, totalFailures, windowStart, currentThreshold, mu>>
vars == <<shared, clock, pc, now, failed, total, grade>>

PC == {"idle", "check", "lock", "zeroRequests", "zeroFailures", "publish", "unlock",
       "countRequest", "countFailure", "adjust", "rate", "store"}

AtLeastOne(n) == IF n < 1 THEN 1 ELSE n

\* The threshold adjust derives from a number of failures among n requests:
\* above one half, base/2; above three tenths, int(base * 0.75).
Grade(failures, n) ==
    AtLeastOne(CASE failures * 2 > n -> BaseThreshold \div 2
                 [] failures * 2 <= n /\ failures * 10 > n * 3
                                     -> (BaseThreshold * 3) \div 4
                 [] OTHER            -> BaseThreshold)

\* What getThreshold may return: the base itself, before any adjustment, and
\* the three grades.  CircuitBreaker takes this set as Thresholds.
Grades == {BaseThreshold, AtLeastOne(BaseThreshold),
           AtLeastOne((BaseThreshold * 3) \div 4), AtLeastOne(BaseThreshold \div 2)}

Init ==
    /\ totalRequests = 0 /\ totalFailures = 0
    /\ windowStart = 0 /\ clock = 0
    /\ currentThreshold = BaseThreshold
    /\ mu = NoOne
    /\ pc = [w \in Workers |-> "idle"]
    /\ now = [w \in Workers |-> 0]
    /\ failed = [w \in Workers |-> FALSE]
    /\ total = [w \in Workers |-> 0]
    /\ grade = [w \in Workers |-> BaseThreshold]

Goto(w, label) == pc' = [pc EXCEPT ![w] = label]
Expired(w) == now[w] - windowStart > WindowDuration

Record(w) ==
    /\ pc[w] = "idle"
    /\ totalRequests < MaxRequests
    /\ now' = [now EXCEPT ![w] = clock]
    /\ \E outcome \in BOOLEAN : failed' = [failed EXCEPT ![w] = outcome]
    /\ Goto(w, "check")
    /\ UNCHANGED <<shared, clock, total, grade>>

\* The lock-free fast path.
Check(w) ==
    /\ pc[w] = "check"
    /\ Goto(w, IF Expired(w) THEN "lock" ELSE "countRequest")
    /\ UNCHANGED <<shared, clock, now, failed, total, grade>>

\* MUTANT of Lock: no second look under the mutex.
LockUnchecked(w) ==
    /\ pc[w] = "lock"
    /\ mu = NoOne
    /\ mu' = w
    /\ Goto(w, "zeroRequests")
    /\ UNCHANGED <<totalRequests, totalFailures, windowStart, currentThreshold,
                   clock, now, failed, total, grade>>

\* Lock, then check again to avoid a double reset.
Lock(w) ==
    /\ pc[w] = "lock"
    /\ mu = NoOne
    /\ mu' = w
    /\ Goto(w, IF Expired(w) THEN "zeroRequests" ELSE "unlock")
    /\ UNCHANGED <<totalRequests, totalFailures, windowStart, currentThreshold,
                   clock, now, failed, total, grade>>

ZeroRequests(w) ==
    /\ pc[w] = "zeroRequests"
    /\ totalRequests' = 0
    /\ Goto(w, "zeroFailures")
    /\ UNCHANGED <<totalFailures, windowStart, currentThreshold, mu,
                   clock, now, failed, total, grade>>

ZeroFailures(w) ==
    /\ pc[w] = "zeroFailures"
    /\ totalFailures' = 0
    /\ Goto(w, "publish")
    /\ UNCHANGED <<totalRequests, windowStart, currentThreshold, mu,
                   clock, now, failed, total, grade>>

Publish(w) ==
    /\ pc[w] = "publish"
    /\ windowStart' = now[w]
    /\ Goto(w, "unlock")
    /\ UNCHANGED <<totalRequests, totalFailures, currentThreshold, mu,
                   clock, now, failed, total, grade>>

Unlock(w) ==
    /\ pc[w] = "unlock"
    /\ mu' = NoOne
    /\ Goto(w, "countRequest")
    /\ UNCHANGED <<totalRequests, totalFailures, windowStart, currentThreshold,
                   clock, now, failed, total, grade>>

CountRequest(w) ==
    /\ pc[w] = "countRequest"
    /\ totalRequests' = totalRequests + 1
    /\ Goto(w, IF failed[w] THEN "countFailure" ELSE "adjust")
    /\ UNCHANGED <<totalFailures, windowStart, currentThreshold, mu,
                   clock, now, failed, total, grade>>

CountFailure(w) ==
    /\ pc[w] = "countFailure"
    /\ totalFailures' = totalFailures + 1
    /\ Goto(w, "adjust")
    /\ UNCHANGED <<totalRequests, windowStart, currentThreshold, mu,
                   clock, now, failed, total, grade>>

Adjust(w) ==
    /\ pc[w] = "adjust"
    /\ IF totalRequests < MinRequests
       THEN Goto(w, "idle") /\ UNCHANGED total
       ELSE Goto(w, "rate") /\ total' = [total EXCEPT ![w] = totalRequests]
    /\ UNCHANGED <<shared, clock, now, failed, grade>>

\* MUTANT of Rate: the default branch keeps the current threshold.
RateSticky(w) ==
    /\ pc[w] = "rate"
    /\ grade' = [grade EXCEPT ![w] =
          IF totalFailures * 10 > total[w] * 3 THEN Grade(totalFailures, total[w])
                                               ELSE currentThreshold]
    /\ total' = [total EXCEPT ![w] = 0]
    /\ Goto(w, "store")
    /\ UNCHANGED <<shared, clock, now, failed>>

\* MUTANT of Rate: the current threshold is lowered, not the base.
RateCompounds(w) ==
    /\ pc[w] = "rate"
    /\ grade' = [grade EXCEPT ![w] =
          IF totalFailures * 2 > total[w] THEN AtLeastOne(currentThreshold \div 2)
                                          ELSE Grade(totalFailures, total[w])]
    /\ total' = [total EXCEPT ![w] = 0]
    /\ Goto(w, "store")
    /\ UNCHANGED <<shared, clock, now, failed>>

Rate(w) ==
    /\ pc[w] = "rate"
    /\ grade' = [grade EXCEPT ![w] = Grade(totalFailures, total[w])]
    /\ total' = [total EXCEPT ![w] = 0]
    /\ Goto(w, "store")
    /\ UNCHANGED <<shared, clock, now, failed>>

Store(w) ==
    /\ pc[w] = "store"
    /\ currentThreshold' = grade[w]
    /\ grade' = [grade EXCEPT ![w] = BaseThreshold]
    /\ Goto(w, "idle")
    /\ UNCHANGED <<totalRequests, totalFailures, windowStart, mu,
                   clock, now, failed, total>>

Tick ==
    /\ clock' = IF clock < MaxClock THEN clock + 1 ELSE clock
    /\ UNCHANGED <<shared, pc, now, failed, total, grade>>

Next ==
    \/ Tick
    \/ \E w \in Workers :
          \/ Record(w) \/ Check(w) \/ Lock(w) \/ ZeroRequests(w) \/ ZeroFailures(w)
          \/ Publish(w) \/ Unlock(w) \/ CountRequest(w) \/ CountFailure(w)
          \/ Adjust(w) \/ Rate(w) \/ Store(w)

Spec == Init /\ [][Next]_vars

(* ------------------------------ properties ------------------------------ *)

\* Every variable keeps its type; the threshold a breaker reads is one of four
\* values, whatever the adjustments before: they start from the base each time.
TypeOK ==
    /\ totalRequests \in Nat /\ totalFailures \in Nat
    /\ windowStart \in 0..MaxClock /\ clock \in 0..MaxClock
    /\ currentThreshold \in Grades
    /\ mu \in Workers \cup {NoOne}
    /\ pc \in [Workers -> PC]
    /\ now \in [Workers -> 0..MaxClock]
    /\ failed \in [Workers -> BOOLEAN]
    /\ total \in [Workers -> Nat]
    /\ grade \in [Workers -> Grades]

\* A window is reset once: windowStart only moves forward, by more than a
\* window, so the requests counted in a fresh window are not thrown away by a
\* goroutine that found the old one expired.
ResetOncePerWindow ==
    [][windowStart' # windowStart => windowStart' > windowStart + WindowDuration]_vars

=============================================================================
