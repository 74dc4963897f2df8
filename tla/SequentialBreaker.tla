------------------------- MODULE SequentialBreaker -------------------------
(***************************************************************************)
(* The lock-free breaker, used by one goroutine, implements the contract.  *)
(* Each atomic step maps to a step of BreakerContract or to a stutter.     *)
(***************************************************************************)
EXTENDS CircuitBreaker

lone == CHOOSE w \in Workers : TRUE

\* A counter that is still to be cleared already counts as cleared, and an
\* outcome that may yet change the state does not count until it does.
modeOf == state
streakOf ==
    CASE state = "Closed"   -> IF "failures" \in pending[lone] THEN 0
                               ELSE IF pc[lone] = "errOpen" THEN failures - 1
                               ELSE failures
      [] state = "HalfOpen" -> IF "successes" \in pending[lone] THEN 0
                               ELSE IF pc[lone] = "okCAS" THEN successes - 1
                               ELSE successes
      [] state = "Open"     -> 0
ageOf == IF pc[lone] = "errStore" THEN stamp[lone] ELSE sinceFailure
callOf ==
    CASE pc[lone] \in {"loadFailureTime", "checkTimeout", "swapHalfOpen",
                       "probeLoad", "probeCAS", "guard"} -> "asked"
      [] pc[lone] = "reset" /\ resume[lone] = "probeLoad" -> "asked"
      [] pc[lone] \in {"call", "okLoad", "okStore", "okAdd", "okCAS", "errNow"}
                                                          -> "running"
      [] pc[lone] \in {"errStore", "errLoad", "errAdd", "errOpen", "errReopen"}
                                                          -> "failed"
      [] OTHER -> "none"

Contract == INSTANCE BreakerContract
            WITH mode <- modeOf, streak <- streakOf, age <- ageOf, call <- callOf

\* Used by one goroutine, the breaker opens after exactly the threshold of
\* consecutive failures, stays open for OpenTimeout, never refuses a caller in
\* any other case, and closes after SuccessThreshold consecutive successes.
ImplementsContract == Contract!Spec
=============================================================================
