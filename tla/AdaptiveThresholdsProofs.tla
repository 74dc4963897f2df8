---------------------- MODULE AdaptiveThresholdsProofs ----------------------
(***************************************************************************)
(* Proofs about AdaptiveThresholds, for any number of goroutines.          *)
(***************************************************************************)
EXTENDS MCAdaptiveThresholds, TLAPS

Resetting(w) == pc[w] \in {"zeroRequests", "zeroFailures", "publish"}

\* A goroutine between Lock and Unlock holds the mutex, and one that resets the
\* window still finds it expired: windowStart is only stored under the mutex.
ResetInv ==
    /\ windowStart \in Int
    /\ now \in [Workers -> Int]
    /\ clock \in Int
    /\ pc \in [Workers -> PC]
    /\ \A w \in Workers :
          /\ Resetting(w) \/ pc[w] = "unlock" => mu = w
          /\ Resetting(w) => Expired(w)

LEMMA NextReset == ResetInv /\ [Next]_vars => ResetInv'
<1> SUFFICES ASSUME ResetInv, [Next]_vars PROVE ResetInv'
    OBVIOUS
<1> USE WorkersAssumption, BoundsAssumption
        DEF ResetInv, Resetting, Expired, Goto, shared, PC
<1>1. CASE Tick
    BY <1>1 DEF Tick
<1>2. ASSUME NEW w \in Workers, Record(w) PROVE ResetInv'
    BY <1>2 DEF Record
<1>3. ASSUME NEW w \in Workers, Check(w) PROVE ResetInv'
    BY <1>3 DEF Check
<1>4. ASSUME NEW w \in Workers, Lock(w) PROVE ResetInv'
    BY <1>4 DEF Lock
<1>5. ASSUME NEW w \in Workers, ZeroRequests(w) \/ ZeroFailures(w) PROVE ResetInv'
    BY <1>5 DEF ZeroRequests, ZeroFailures
<1>6. ASSUME NEW w \in Workers, Publish(w) PROVE ResetInv'
    BY <1>6 DEF Publish
<1>7. ASSUME NEW w \in Workers, Unlock(w) PROVE ResetInv'
    BY <1>7 DEF Unlock
<1>8. ASSUME NEW w \in Workers, CountRequest(w) \/ CountFailure(w) PROVE ResetInv'
    BY <1>8 DEF CountRequest, CountFailure
<1>9. ASSUME NEW w \in Workers, Adjust(w) \/ Rate(w) \/ Store(w) PROVE ResetInv'
    BY <1>9 DEF Adjust, Rate, Store
<1>10. CASE UNCHANGED vars
    BY <1>10 DEF vars
<1> QED BY <1>1, <1>2, <1>3, <1>4, <1>5, <1>6, <1>7, <1>8, <1>9, <1>10 DEF Next

\* A window is reset once, however many goroutines find it expired.
THEOREM OneReset == Spec => ResetOncePerWindow
<1>1. Init => ResetInv
    BY BoundsAssumption DEF Init, ResetInv, Resetting, PC
<1>2. ResetInv /\ [Next]_vars =>
         [windowStart' # windowStart => windowStart' > windowStart + WindowDuration]_vars
  <2> SUFFICES ASSUME ResetInv, Next, windowStart' # windowStart
               PROVE  windowStart' > windowStart + WindowDuration
      BY DEF vars, shared
  <2>1. PICK w \in Workers : Publish(w)
      BY DEF Next, Tick, Record, Check, Lock, ZeroRequests, ZeroFailures, Unlock,
             CountRequest, CountFailure, Adjust, Rate, Store, shared
  <2> QED BY <2>1, BoundsAssumption DEF Publish, ResetInv, Resetting, Expired
<1> QED BY <1>1, <1>2, NextReset, PTL DEF Spec, ResetOncePerWindow

\* Whatever counters adjust has read, the threshold comes from the base.
LEMMA GradeIsOneOfGrades == \A f, n \in Nat : Grade(f, n) \in Grades
<1> SUFFICES ASSUME NEW f \in Nat, NEW n \in Nat PROVE Grade(f, n) \in Grades
    OBVIOUS
<1> QED BY DEF Grade, Grades

LEMMA NextTyped == TypeOK /\ [Next]_vars => TypeOK'
<1> SUFFICES ASSUME TypeOK, [Next]_vars PROVE TypeOK'
    OBVIOUS
<1> USE WorkersAssumption, BoundsAssumption DEF TypeOK, Goto, shared, PC
<1>1. CASE Tick
    BY <1>1 DEF Tick
<1>2. ASSUME NEW w \in Workers, Record(w) \/ Check(w) \/ Lock(w) PROVE TypeOK'
    BY <1>2 DEF Record, Check, Lock
<1>3. ASSUME NEW w \in Workers, ZeroRequests(w) \/ ZeroFailures(w) PROVE TypeOK'
    BY <1>3 DEF ZeroRequests, ZeroFailures
<1>4. ASSUME NEW w \in Workers, Publish(w) \/ Unlock(w) PROVE TypeOK'
    BY <1>4 DEF Publish, Unlock
<1>5. ASSUME NEW w \in Workers, CountRequest(w) \/ CountFailure(w) PROVE TypeOK'
    BY <1>5 DEF CountRequest, CountFailure
<1>6. ASSUME NEW w \in Workers, Adjust(w) PROVE TypeOK'
    BY <1>6 DEF Adjust
<1>7. ASSUME NEW w \in Workers, Rate(w) PROVE TypeOK'
  <2>1. Grade(totalFailures, total[w]) \in Grades
      BY GradeIsOneOfGrades
  <2> QED BY <1>7, <2>1 DEF Rate
<1>8. ASSUME NEW w \in Workers, Store(w) PROVE TypeOK'
  <2>1. BaseThreshold \in Grades
      BY DEF Grades
  <2> QED BY <1>8, <2>1 DEF Store
<1>9. CASE UNCHANGED vars
    BY <1>9 DEF vars
<1> QED BY <1>1, <1>2, <1>3, <1>4, <1>5, <1>6, <1>7, <1>8, <1>9 DEF Next

\* The threshold a breaker reads is one of four values derived from its base, for
\* any number of goroutines: adjustments never compound.
THEOREM ThresholdIsAGrade == Spec => []TypeOK
<1>1. Init => TypeOK
    BY BoundsAssumption DEF Init, TypeOK, PC, Grades
<1> QED BY <1>1, NextTyped, PTL DEF Spec

(* --------------------- graded, if nobody overlaps ----------------------- *)

\* While no two goroutines have been inside at once, the one inside has the
\* counters before it as it has loaded them, and who leaves has stored their
\* grade, if they are enough for one.
GradeInv ==
    /\ totalRequests \in Nat /\ totalFailures \in Nat
    /\ pc \in [Workers -> PC]
    /\ total \in [Workers -> Nat]
    /\ grade \in [Workers -> Grades]
    /\ ~overlapped =>
          /\ \A v, w \in Workers : v # w => pc[v] = "idle" \/ pc[w] = "idle"
          /\ \A w \in Workers : pc[w] = "rate" => total[w] = totalRequests
          /\ \A w \in Workers : pc[w] = "store" => grade[w] = Grade(totalFailures, totalRequests)
          /\ GradedAtRest

LEMMA GradeInit == MCInit => GradeInv
<1>1. BaseThreshold \in Grades
    BY DEF Grades
<1> QED BY <1>1, BoundsAssumption DEF MCInit, Init, GradeInv, GradedAtRest, AtRest, PC

\* A step of w alone.
LEMMA GradeStep ==
    ASSUME GradeInv, MCNext, NEW w \in Workers,
           pc[w] = "idle" => pc'[w] # "idle",
           \A v \in Workers \ {w} : pc'[v] = pc[v] /\ total'[v] = total[v] /\ grade'[v] = grade[v],
           totalRequests' \in Nat, totalFailures' \in Nat, pc' \in [Workers -> PC],
           total' \in [Workers -> Nat], grade' \in [Workers -> Grades],
           pc'[w] = "rate" => total'[w] = totalRequests',
           pc'[w] = "store" => grade'[w] = Grade(totalFailures', totalRequests'),
           pc'[w] = "idle" /\ ~overlapped' /\ totalRequests' >= MinRequests =>
               currentThreshold' = Grade(totalFailures', totalRequests')
    PROVE  GradeInv'
<1>1. SUFFICES ASSUME ~overlapped' PROVE
          /\ \A u, v \in Workers : u # v => pc'[u] = "idle" \/ pc'[v] = "idle"
          /\ \A v \in Workers \ {w} : pc'[v] \notin {"rate", "store"}
          /\ GradedAtRest'
    BY DEF GradeInv
<1>2. \A u, v \in Workers : u # v => pc'[u] = "idle" \/ pc'[v] = "idle"
    BY <1>1 DEF MCNext
<1>3. ~overlapped
    BY <1>1 DEF MCNext
<1>4. \A v \in Workers \ {w} : pc'[v] \notin {"rate", "store"}
  <2> SUFFICES ASSUME NEW v \in Workers \ {w}, pc'[v] \in {"rate", "store"} PROVE FALSE
      OBVIOUS
  <2>1. pc[v] # "idle" /\ pc'[v] # "idle"
      OBVIOUS
  <2>2. pc[w] = "idle" /\ pc'[w] = "idle"
      BY <1>2, <1>3, <2>1 DEF GradeInv
  <2> QED BY <2>2
<1> QED BY <1>1, <1>2, <1>3, <1>4 DEF GradedAtRest, AtRest

\* Every step keeps GradeInv.
LEMMA NextGraded == GradeInv /\ [MCNext]_<<vars, overlapped>> => GradeInv'
<1> SUFFICES ASSUME GradeInv, [MCNext]_<<vars, overlapped>> PROVE GradeInv'
    OBVIOUS
<1>1. CASE UNCHANGED <<vars, overlapped>>
    BY <1>1 DEF vars, shared, GradeInv, GradedAtRest, AtRest
<1>2. CASE MCNext /\ Tick
    BY <1>2 DEF MCNext, Tick, shared, GradeInv, GradedAtRest, AtRest
<1> USE DEF GradeInv, Goto, shared, PC
<1>3. ASSUME NEW w \in Workers, MCNext, Record(w) \/ Check(w) \/ Lock(w) PROVE GradeInv'
    BY <1>3, GradeStep DEF Record, Check, Lock
<1>4. ASSUME NEW w \in Workers, MCNext, ZeroRequests(w) \/ ZeroFailures(w) PROVE GradeInv'
    BY <1>4, GradeStep DEF ZeroRequests, ZeroFailures
<1>5. ASSUME NEW w \in Workers, MCNext, Publish(w) \/ Unlock(w) PROVE GradeInv'
    BY <1>5, GradeStep DEF Publish, Unlock
<1>6. ASSUME NEW w \in Workers, MCNext, CountRequest(w) \/ CountFailure(w) PROVE GradeInv'
    BY <1>6, GradeStep DEF CountRequest, CountFailure
<1>7. ASSUME NEW w \in Workers, MCNext, Adjust(w) PROVE GradeInv'
    BY <1>7, GradeStep, BoundsAssumption DEF Adjust
<1>8. ASSUME NEW w \in Workers, MCNext, Rate(w) PROVE GradeInv'
    BY <1>8, GradeStep, GradeIsOneOfGrades DEF Rate, MCNext
<1>9. ASSUME NEW w \in Workers, MCNext, Store(w) PROVE GradeInv'
    BY <1>9, GradeStep DEF Store, MCNext, Grades
<1> QED BY <1>1, <1>2, <1>3, <1>4, <1>5, <1>6, <1>7, <1>8, <1>9 DEF MCNext, Next

\* While requests do not overlap, the threshold at rest is the grade of the
\* counters, for any number of goroutines and any windows.
THEOREM SequentialGrade == MCSpec => []GradedAtRest
<1>1. GradeInv => GradedAtRest
    BY DEF GradeInv, GradedAtRest
<1> QED BY GradeInit, NextGraded, <1>1, PTL DEF MCSpec
=============================================================================
