------------------------ MODULE MCAdaptiveThresholds ------------------------
(***************************************************************************)
(* AdaptiveThresholds with a history variable: have two goroutines ever    *)
(* been inside recordRequest at the same time?                             *)
(***************************************************************************)
EXTENDS AdaptiveThresholds

VARIABLE overlapped

AtRest == \A w \in Workers : pc[w] = "idle"

MCInit == Init /\ overlapped = FALSE

MCNext ==
    /\ Next
    /\ overlapped' = (overlapped \/ \E v, w \in Workers :
                         v # w /\ pc'[v] # "idle" /\ pc'[w] # "idle")

MCSpec == MCInit /\ [][MCNext]_<<vars, overlapped>>

\* At rest the threshold is the grade of the counters, whatever the order of
\* windows, successes and failures that led there, as long as the requests did
\* not overlap: a slow goroutine may store a grade the counters have left behind.
GradedAtRest ==
    ~overlapped /\ AtRest /\ totalRequests >= MinRequests =>
        currentThreshold = Grade(totalFailures, totalRequests)
=============================================================================
