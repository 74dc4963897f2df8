------------------------------ MODULE MCRetry ------------------------------
(***************************************************************************)
(* Retry with configurations around the limits: with and without a         *)
(* deadline, shorter and longer than a Retry-After; with and without a     *)
(* budget; with and without jitter.                                        *)
(***************************************************************************)
EXTENDS Retry

MCConfigs ==
    [maxAttempts: {1, 3}, deadline: {0, 1, 6}, initial: {1}, max: {3},
     multiplier: {2}, jitter: BOOLEAN, budget: BOOLEAN, maxCost: {0, 1}, maxTokens: {0, 1}]

\* Less than a cent, and more.
MCResponses == {[milli |-> 700, tokens |-> 1], [milli |-> 1500, tokens |-> 2]}
MCRetryAfters == {0, 2, 9}
=============================================================================
