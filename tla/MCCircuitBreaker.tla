-------------------------- MODULE MCCircuitBreaker --------------------------
(***************************************************************************)
(* CircuitBreaker for TLC: goroutines are interchangeable model values.    *)
(***************************************************************************)
EXTENDS CircuitBreaker, TLC

Goroutines == Permutations(Workers)

\* As the client runs it: Reset is a method of an unexported type that only
\* the tests of the package call.
ClientSpec == Init /\ [][Next /\ \A w \in Workers : ~ResetCall(w)]_vars
=============================================================================
