-------------------------- MODULE BreakerContract --------------------------
(***************************************************************************)
(* What a circuit breaker promises to a lone caller: the three-state       *)
(* machine of circuitbreaker.Config, with the caller's own request in      *)
(* progress and nobody else's.  A request is asked for, then refused or    *)
(* run, and its outcome is recorded before the next one.                   *)
(***************************************************************************)
EXTENDS Naturals

CONSTANTS Thresholds, SuccessThreshold, OpenTimeout, MaxJitter

VARIABLES
    mode,     \* "Closed", "Open" or "HalfOpen"
    streak,   \* consecutive failures while Closed, successes while HalfOpen
    age,      \* time since the last failed call returned, saturated at AgeCap
    call      \* "none", "asked", "running" or "failed" (returned, unrecorded)

vars == <<mode, streak, age, call>>

AgeCap == OpenTimeout + MaxJitter + 1

Init ==
    /\ mode = "Closed" /\ streak = 0
    /\ age = AgeCap /\ call = "none"

\* A request is asked for; a closed breaker may let it run at once.
Ask ==
    /\ call = "none"
    /\ call' \in {"asked"} \cup (IF mode = "Closed" THEN {"running"} ELSE {})
    /\ UNCHANGED <<mode, streak, age>>

\* Only an open breaker refuses a lone caller, and never once the timeout and
\* the largest jitter have passed.
Refuse ==
    /\ call = "asked" /\ mode = "Open"
    /\ age <= OpenTimeout + MaxJitter
    /\ call' = "none"
    /\ UNCHANGED <<mode, streak, age>>

\* The breaker stays open for more than OpenTimeout after the last failure.
HalfOpen ==
    /\ call = "asked" /\ mode = "Open"
    /\ age > OpenTimeout
    /\ mode' = "HalfOpen" /\ streak' = 0
    /\ UNCHANGED <<age, call>>

Run ==
    /\ call = "asked" /\ mode = "HalfOpen"
    /\ call' = "running"
    /\ UNCHANGED <<mode, streak, age>>

Succeeded ==
    /\ call = "running" /\ call' = "none"
    /\ \/ mode = "Closed" /\ mode' = "Closed" /\ streak' = 0
       \/ mode = "HalfOpen" /\ IF streak + 1 >= SuccessThreshold
                               THEN mode' = "Closed" /\ streak' = 0
                               ELSE mode' = mode /\ streak' = streak + 1
    /\ UNCHANGED age

Returned ==
    /\ call = "running" /\ call' = "failed"
    /\ age' = 0
    /\ UNCHANGED <<mode, streak>>

Failed ==
    /\ call = "failed" /\ call' = "none"
    /\ \/ /\ mode = "Closed"
          /\ \E threshold \in Thresholds :
                IF streak + 1 >= threshold
                THEN mode' = "Open" /\ streak' = 0
                ELSE mode' = mode /\ streak' = streak + 1
       \/ mode = "HalfOpen" /\ mode' = "Open" /\ streak' = 0
    /\ UNCHANGED age

Reset ==
    /\ call = "none"
    /\ mode' = "Closed" /\ mode # "Closed" /\ streak' = 0
    /\ UNCHANGED <<age, call>>

Tick ==
    /\ age # AgeCap /\ age' = age + 1
    /\ UNCHANGED <<mode, streak, call>>

Next == Ask \/ Refuse \/ HalfOpen \/ Run \/ Succeeded \/ Returned \/ Failed
        \/ Reset \/ Tick

Spec == Init /\ [][Next]_vars /\ WF_vars(Run \/ Succeeded \/ Failed)
=============================================================================
