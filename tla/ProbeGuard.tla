----------------------------- MODULE ProbeGuard -----------------------------
(***************************************************************************)
(* acquireProbeGuard and releaseProbeGuard of internal/llm/circuitbreaker: *)
(* instances of the service whose breakers are half-open at the same time  *)
(* coordinate their probes through one Redis key with a time to live.  The *)
(* key carries no owner, and a Redis error lets the probe go ahead.        *)
(*                                                                         *)
(* trouble is a history variable: "redis" when a Redis command has failed, *)
(* "slow" when a probe has lasted as long as the guard's time to live.     *)
(***************************************************************************)
EXTENDS Naturals, FiniteSets

CONSTANTS
    Instances,
    ProbeTimeout,   \* the TTL of the guard, 60s when Config leaves it 0
    MaxProbe        \* bound: a probe, with its Del, takes at most this long

ASSUME TimeAssumption == ProbeTimeout \in Nat \ {0} /\ MaxProbe \in Nat

VARIABLES
    ttl,        \* time the guard key still has to live; 0: there is no key
    pc,         \* "idle", "probing" or "releasing"
    elapsed,    \* how long the probe of each instance has taken
    trouble

vars == <<ttl, pc, elapsed, trouble>>

Init ==
    /\ ttl = 0
    /\ pc = [i \in Instances |-> "idle"]
    /\ elapsed = [i \in Instances |-> 0]
    /\ trouble = {}

Move(i, label) ==
    /\ pc' = [pc EXCEPT ![i] = label]
    /\ elapsed' = [elapsed EXCEPT ![i] = IF label = "idle" THEN 0 ELSE @]

\* MUTANT of Acquire: SET in place of SETNX.
AcquireAlways(i) ==
    /\ pc[i] = "idle"
    /\ ttl' = ProbeTimeout
    /\ Move(i, "probing")
    /\ UNCHANGED trouble

\* MUTANT of Acquire: an attempt that is refused renews the guard.
AcquireRenews(i) ==
    /\ pc[i] = "idle"
    /\ ttl' = ProbeTimeout
    /\ Move(i, IF ttl = 0 THEN "probing" ELSE "idle")
    /\ UNCHANGED trouble

\* SETNX with the TTL.  Refused, the caller gets PROBE_IN_PROGRESS and the
\* instance stays idle; on a Redis error it probes without a guard.
Acquire(i) ==
    /\ pc[i] = "idle"
    /\ \/ ttl = 0 /\ ttl' = ProbeTimeout /\ UNCHANGED trouble
       \/ trouble' = trouble \cup {"redis"} /\ UNCHANGED ttl
    /\ Move(i, "probing")

\* next.Handle returned and its outcome was recorded.
Finish(i) ==
    /\ pc[i] = "probing"
    /\ Move(i, "releasing")
    /\ UNCHANGED <<ttl, trouble>>

\* DEL removes the key whoever set it; an error leaves it to its TTL.
Release(i) ==
    /\ pc[i] = "releasing"
    /\ \/ ttl' = 0 /\ UNCHANGED trouble
       \/ trouble' = trouble \cup {"redis"} /\ UNCHANGED ttl
    /\ Move(i, "idle")

\* The process dies while it probes.
Crash(i) ==
    /\ pc[i] # "idle"
    /\ Move(i, "idle")
    /\ UNCHANGED <<ttl, trouble>>

Slow == \E i \in Instances : elapsed[i] >= ProbeTimeout

Tick ==
    /\ \A i \in Instances : pc[i] # "idle" => elapsed[i] < MaxProbe
    /\ ttl' = IF ttl = 0 THEN 0 ELSE ttl - 1
    /\ elapsed' = [i \in Instances |-> IF pc[i] = "idle" THEN 0 ELSE elapsed[i] + 1]
    /\ trouble' = IF Slow' THEN trouble \cup {"slow"} ELSE trouble
    /\ UNCHANGED pc

Next ==
    \/ Tick
    \/ \E i \in Instances : Acquire(i) \/ Finish(i) \/ Release(i) \/ Crash(i)

Spec == Init /\ [][Next]_vars

\* Time passes and a probe that has begun ends.
FairSpec ==
    /\ Spec
    /\ WF_vars(Tick)
    /\ \A i \in Instances : WF_vars(Finish(i)) /\ WF_vars(Release(i))

(* ------------------------------ properties ------------------------------ *)

\* Every variable keeps its type: the part of the proofs' invariant that bounds
\* the clocks.
TypeOK ==
    /\ ttl \in 0..ProbeTimeout
    /\ pc \in [Instances -> {"idle", "probing", "releasing"}]
    /\ elapsed \in [Instances -> 0..MaxProbe]
    /\ trouble \subseteq {"redis", "slow"}

\* middleware.go:37: the guard "prevents multiple instances from probing
\* simultaneously".  It does, through crashes too, as long as every Redis
\* command succeeds and every probe ends before its guard expires.  Otherwise
\* it does not: the guard expires under a slow probe, and the DEL of a slow or
\* unguarded one removes the guard of another.
OneProbeAtATime ==
    trouble = {} => \A i, j \in Instances : pc[i] = "probing" /\ pc[j] = "probing" => i = j

\* A guard never outlives the instance that set it by more than its TTL: a
\* crash does not stop the other instances from ever probing again.
GuardIsReleased == ttl > 0 ~> ttl = 0
=============================================================================
