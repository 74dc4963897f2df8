--------------------------- MODULE MCRateLimiter ---------------------------
(***************************************************************************)
(* RateLimiter with an ideal token bucket beside it, which is never cleaned *)
(* up and from which nothing but an admission takes a token.               *)
(***************************************************************************)
EXTENDS RateLimiter, FiniteSets

VARIABLE allowance

\* The goroutines the current step admits.
Admits == {w \in Workers : pc[w] \in {"allow", "allowTwice"} /\ lim'[w] = "none"}

MCInit == Init /\ allowance = Burst

MCNext ==
    \/ Tick /\ allowance' = IF allowance < Burst THEN allowance + 1 ELSE Burst
    \/ /\ CleanupStale \/ \E w \in Workers : Arrive(w) \/ Step(w)
       /\ allowance' = allowance - Cardinality(Admits)

MCSpec == MCInit /\ [][MCNext]_<<vars, allowance>> /\ Fairness

\* What is admitted conforms to one token bucket: at most Burst requests at
\* once and one more per unit of time, whatever is cleaned up, created anew,
\* reserved and cancelled on the way.
Conforms == allowance >= 0
=============================================================================
