------------------------ MODULE CircuitBreakerProofs ------------------------
(***************************************************************************)
(* Proofs about CircuitBreaker, for any number of goroutines and any       *)
(* thresholds.                                                             *)
(***************************************************************************)
EXTENDS SequentialBreaker, FiniteSetTheorems, TLAPS

\* Where a goroutine that does not own a probe slot, or one that does, can be.
Slotless == {"idle", "loadFailureTime", "checkTimeout", "swapHalfOpen",
             "swapClosed", "probeLoad", "probeCAS"}
Slotted == {"guard", "relLoad", "relCAS"}

\* What the control point of w says of its local variables.
LocalInv(w) ==
    /\ pc[w] \in Slotless => ~probe[w]
    /\ pc[w] \in Slotted => probe[w]
    /\ pc[w] = "probeCAS" => cur[w] < MaxHalfOpenProbes
    /\ pc[w] = "relCAS" => cur[w] > 0
    /\ pc[w] # "reset" => pending[w] = {}
    /\ pc[w] = "reset" => (probe[w] <=> resume[w] = "relLoad")

ControlInv == TypeOK /\ \A w \in Workers : LocalInv(w)

LEMMA InitControl == Init => ControlInv
<1> SUFFICES ASSUME Init PROVE ControlInv
    OBVIOUS
<1>1. AgeCap \in Nat
    BY LimitsAssumption DEF AgeCap
<1>2. TypeOK
  <2>1. /\ probe \in [Workers -> BOOLEAN]
        /\ pending \in [Workers -> SUBSET Counter]
        /\ healthy \in BOOLEAN
      BY Zenon DEF Init
  <2> QED BY <1>1, <2>1 DEF Init, TypeOK, CircuitState, PC
<1>3. \A w \in Workers : LocalInv(w)
    BY DEF Init, LocalInv, Slotless, Slotted
<1> QED BY <1>2, <1>3 DEF ControlInv

LEMMA NextControl == ControlInv /\ [Next]_vars => ControlInv'
<1> SUFFICES ASSUME ControlInv, [Next]_vars PROVE ControlInv'
    OBVIOUS
<1>a. AgeCap \in Nat
    BY LimitsAssumption DEF AgeCap
<1> USE <1>a, LimitsAssumption DEF ControlInv, TypeOK, LocalInv, CircuitState, Counter,
        PC, Slotless, Slotted, breaker, locals, Goto, Begin, AfterRecord
<1>1. CASE Tick
    BY <1>1 DEF Tick, Older
<1>2. CASE Recover
    BY <1>2 DEF Recover
<1>3. ASSUME NEW w \in Workers, Arrive(w) PROVE ControlInv'
    BY <1>3 DEF Arrive
<1>4. ASSUME NEW w \in Workers, ResetCall(w) PROVE ControlInv'
    BY <1>4 DEF ResetCall
<1>5. ASSUME NEW w \in Workers, Allow(w) PROVE ControlInv'
  <2>1. CASE LoadFailureTime(w)
      BY <2>1 DEF LoadFailureTime
  <2>2. CASE CheckTimeout(w)
      BY <2>2 DEF CheckTimeout
  <2>3. CASE SwapHalfOpen(w)
      BY <2>3 DEF SwapHalfOpen
  <2>4. CASE ProbeLoad(w)
      BY <2>4 DEF ProbeLoad
  <2>5. CASE ProbeCAS(w)
    <3>1. CASE halfOpenProbes = cur[w]
      <4>1. probe' = [probe EXCEPT ![w] = TRUE]
          BY <2>5, <3>1 DEF ProbeCAS
      <4>2. probe' \in [Workers -> BOOLEAN]
          BY <4>1, Zenon DEF ControlInv, TypeOK
      <4>3. TypeOK'
          BY <2>5, <3>1, <4>2 DEF ProbeCAS
      <4>4. \A v \in Workers : LocalInv(v)'
          BY <2>5, <3>1, <4>1 DEF ProbeCAS
      <4> QED BY <4>3, <4>4
    <3>2. CASE halfOpenProbes # cur[w]
        BY <2>5, <3>2 DEF ProbeCAS
    <3> QED BY <3>1, <3>2
  <2>6. CASE ProbeGuard(w)
      BY <2>6 DEF ProbeGuard
  <2> QED BY <1>5, <2>1, <2>2, <2>3, <2>4, <2>5, <2>6 DEF Allow
<1>6. ASSUME NEW w \in Workers, Call(w) PROVE ControlInv'
    BY <1>6 DEF Call, Succeed, Fail
<1>7. ASSUME NEW w \in Workers, RecordSuccess(w) PROVE ControlInv'
  <2>1. CASE OkLoad(w)
      BY <2>1 DEF OkLoad
  <2>2. CASE OkStore(w)
      BY <2>2 DEF OkStore
  <2>3. CASE OkAdd(w)
      BY <2>3 DEF OkAdd
  <2>4. CASE OkCAS(w)
      BY <2>4 DEF OkCAS
  <2>5. CASE OkUndo(w)
      BY <2>5 DEF OkUndo
  <2> QED BY <1>7, <2>1, <2>2, <2>3, <2>4, <2>5 DEF RecordSuccess
<1>8. ASSUME NEW w \in Workers, RecordFailure(w) PROVE ControlInv'
  <2>1. CASE ErrNow(w)
      BY <2>1 DEF ErrNow
  <2>2. CASE ErrStore(w)
      BY <2>2 DEF ErrStore
  <2>3. CASE ErrLoad(w)
      BY <2>3 DEF ErrLoad
  <2>4. CASE ErrAdd(w)
      BY <2>4 DEF ErrAdd
  <2>5. CASE ErrOpen(w)
      BY <2>5 DEF ErrOpen
  <2>6. CASE ErrReopen(w)
      BY <2>6 DEF ErrReopen
  <2> QED BY <1>8, <2>1, <2>2, <2>3, <2>4, <2>5, <2>6 DEF RecordFailure
<1>9. ASSUME NEW w \in Workers, Stores(w) PROVE ControlInv'
  <2>1. CASE ResetFailures(w)
      BY <2>1 DEF ResetFailures, StoreZero
  <2>2. CASE ResetSuccesses(w)
      BY <2>2 DEF ResetSuccesses, StoreZero
  <2>3. CASE ResetProbes(w)
      BY <2>3 DEF ResetProbes, StoreZero
  <2> QED BY <1>9, <2>1, <2>2, <2>3 DEF Stores
<1>10. ASSUME NEW w \in Workers, Cleanup(w) PROVE ControlInv'
  <2>1. CASE RelLoad(w) /\ halfOpenProbes # 0
      BY <2>1 DEF RelLoad
  <2>2. CASE RelLoad(w) /\ halfOpenProbes = 0
    <3>1. probe' = [probe EXCEPT ![w] = FALSE]
        BY <2>2 DEF RelLoad
    <3>2. probe' \in [Workers -> BOOLEAN]
        BY <3>1, Zenon DEF ControlInv, TypeOK
    <3>3. TypeOK'
        BY <2>2, <3>2 DEF RelLoad
    <3>4. \A v \in Workers : LocalInv(v)'
        BY <2>2, <3>1 DEF RelLoad
    <3> QED BY <3>3, <3>4
  <2>3. CASE RelCAS(w) /\ halfOpenProbes # cur[w]
      BY <2>3 DEF RelCAS
  <2>4. CASE RelCAS(w) /\ halfOpenProbes = cur[w]
    <3>1. probe' = [probe EXCEPT ![w] = FALSE]
        BY <2>4 DEF RelCAS
    <3>2. probe' \in [Workers -> BOOLEAN]
        BY <3>1, Zenon DEF ControlInv, TypeOK
    <3>3. TypeOK'
        BY <2>4, <3>2 DEF RelCAS
    <3>4. \A v \in Workers : LocalInv(v)'
        BY <2>4, <3>1 DEF RelCAS
    <3> QED BY <3>3, <3>4
  <2> QED BY <1>10, <2>1, <2>2, <2>3, <2>4 DEF Cleanup
<1>11. ASSUME NEW w \in Workers, SwapClosed(w) PROVE ControlInv'
    BY <1>11 DEF SwapClosed
<1>12. CASE UNCHANGED vars
    BY <1>12 DEF vars
<1> QED BY <1>1, <1>2, <1>3, <1>4, <1>5, <1>6, <1>7, <1>8, <1>9, <1>10, <1>11, <1>12
        DEF Next, Step

LEMMA ControlCorrect == Spec => []ControlInv
BY InitControl, NextControl, PTL DEF Spec

\* Every reachable state is well typed, for any constants that satisfy the
\* assumptions of CircuitBreaker.
THEOREM TypeCorrect == Spec => []TypeOK
<1>1. ControlInv => TypeOK
    BY DEF ControlInv
<1> QED BY <1>1, ControlCorrect, PTL

(* --------------------------- probe accounting --------------------------- *)

LEMMA ProbingFinite == IsFiniteSet(Probing) /\ Cardinality(Probing) \in Nat
<1>1. Probing \subseteq Workers
    BY DEF Probing
<1> QED BY <1>1, WorkersAssumption, FS_Subset, FS_CardinalityType

\* Taking a slot adds one owner, giving it back removes one.
LEMMA OwnerStep ==
    ASSUME ControlInv, NEW w \in Workers
    PROVE  /\ ~probe[w] /\ probe' = [probe EXCEPT ![w] = TRUE]
                 => Cardinality(Probing') = Cardinality(Probing) + 1
           /\ probe[w] /\ probe' = [probe EXCEPT ![w] = FALSE]
                 => Cardinality(Probing') = Cardinality(Probing) - 1
<1> USE DEF ControlInv, TypeOK
<1>1. ASSUME ~probe[w], probe' = [probe EXCEPT ![w] = TRUE]
      PROVE  Cardinality(Probing') = Cardinality(Probing) + 1
  <2>1. Probing' = Probing \cup {w} /\ w \notin Probing
      BY <1>1 DEF Probing
  <2> QED BY <2>1, ProbingFinite, FS_AddElement
<1>2. ASSUME probe[w], probe' = [probe EXCEPT ![w] = FALSE]
      PROVE  Cardinality(Probing') = Cardinality(Probing) - 1
  <2>1. Probing' = Probing \ {w} /\ w \in Probing
      BY <1>2 DEF Probing
  <2> QED BY <2>1, ProbingFinite, FS_RemoveElement
<1> QED BY <1>1, <1>2

ProbeInv == SlotsAreOwned /\ ProbesWithinLimit

\* What one step does to the counter and to its owners: nothing, a reset, a
\* slot taken below the limit, or a slot given back.
SlotStep ==
    \/ UNCHANGED <<halfOpenProbes, probe>>
    \/ halfOpenProbes' = 0
    \/ \E w \in Workers :
          /\ ~probe[w] /\ probe' = [probe EXCEPT ![w] = TRUE]
          /\ halfOpenProbes < MaxHalfOpenProbes
          /\ halfOpenProbes' = halfOpenProbes + 1
    \/ \E w \in Workers :
          /\ probe[w] /\ probe' = [probe EXCEPT ![w] = FALSE]
          /\ halfOpenProbes' = halfOpenProbes - 1

LEMMA EveryStepIsASlotStep == ControlInv /\ [Next]_vars => SlotStep
<1> SUFFICES ASSUME ControlInv, [Next]_vars PROVE SlotStep
    OBVIOUS
<1> USE DEF SlotStep, breaker, locals
<1>1. CASE Tick \/ Recover \/ UNCHANGED vars
    BY <1>1 DEF Tick, Recover, vars
<1>2. ASSUME NEW w \in Workers, Arrive(w) \/ ResetCall(w) \/ SwapClosed(w) PROVE SlotStep
    BY <1>2 DEF Arrive, ResetCall, SwapClosed
<1>3. ASSUME NEW w \in Workers, Allow(w) PROVE SlotStep
  <2>1. CASE ProbeCAS(w)
    <3>1. ~probe[w] /\ cur[w] < MaxHalfOpenProbes
        BY <2>1 DEF ProbeCAS, ControlInv, LocalInv, Slotless
    <3>2. CASE halfOpenProbes = cur[w]
        BY <2>1, <3>1, <3>2 DEF ProbeCAS
    <3>3. CASE halfOpenProbes # cur[w]
        BY <2>1, <3>3 DEF ProbeCAS
    <3> QED BY <3>2, <3>3
  <2>2. CASE ~ProbeCAS(w)
      BY <1>3, <2>2 DEF Allow, LoadFailureTime, CheckTimeout, SwapHalfOpen,
                        ProbeLoad, ProbeGuard
  <2> QED BY <2>1, <2>2
<1>4. ASSUME NEW w \in Workers, Call(w) \/ RecordSuccess(w) PROVE SlotStep
    BY <1>4 DEF Call, Succeed, Fail, RecordSuccess, OkLoad, OkStore, OkAdd, OkCAS, OkUndo
<1>5. ASSUME NEW w \in Workers, RecordFailure(w) PROVE SlotStep
    BY <1>5 DEF RecordFailure, ErrNow, ErrStore, ErrLoad, ErrAdd, ErrOpen, ErrReopen
<1>6. ASSUME NEW w \in Workers, Stores(w) PROVE SlotStep
    BY <1>6 DEF Stores, ResetFailures, ResetSuccesses, ResetProbes, StoreZero
<1>7. ASSUME NEW w \in Workers, Cleanup(w) PROVE SlotStep
  <2>1. probe[w]
      BY <1>7 DEF Cleanup, RelLoad, RelCAS, ControlInv, LocalInv, Slotted
  <2>2. CASE RelLoad(w)
      BY <2>2 DEF RelLoad
  <2>3. CASE RelCAS(w)
    <3>1. CASE halfOpenProbes = cur[w]
        BY <2>1, <2>3, <3>1 DEF RelCAS
    <3>2. CASE halfOpenProbes # cur[w]
        BY <2>3, <3>2 DEF RelCAS
    <3> QED BY <3>1, <3>2
  <2> QED BY <1>7, <2>2, <2>3 DEF Cleanup
<1> QED BY <1>1, <1>2, <1>3, <1>4, <1>5, <1>6, <1>7 DEF Next, Step

LEMMA SlotStepKeepsProbeInv ==
    ControlInv /\ ControlInv' /\ ProbeInv /\ SlotStep => ProbeInv'
<1> SUFFICES ASSUME ControlInv, ControlInv', ProbeInv, SlotStep PROVE ProbeInv'
    OBVIOUS
<1> DEFINE owners == Cardinality(Probing)
<1>1. /\ halfOpenProbes \in Nat /\ halfOpenProbes' \in Nat
      /\ owners \in Nat /\ owners' \in Nat
  <2>1. Probing' \subseteq Workers
      BY DEF Probing
  <2>2. owners' \in Nat
      BY <2>1, WorkersAssumption, FS_Subset, FS_CardinalityType
  <2> QED BY <2>2, ProbingFinite DEF ControlInv, TypeOK
<1>2. halfOpenProbes <= owners /\ halfOpenProbes <= MaxHalfOpenProbes
    BY DEF ProbeInv, SlotsAreOwned, ProbesWithinLimit
<1>3. CASE UNCHANGED <<halfOpenProbes, probe>>
  <2>1. owners' = owners
      BY <1>3 DEF Probing
  <2> QED BY <1>2, <1>3, <2>1 DEF ProbeInv, SlotsAreOwned, ProbesWithinLimit
<1>4. CASE halfOpenProbes' = 0
    BY <1>1, <1>4, LimitsAssumption DEF ProbeInv, SlotsAreOwned, ProbesWithinLimit
<1>5. ASSUME NEW w \in Workers, ~probe[w], probe' = [probe EXCEPT ![w] = TRUE],
             halfOpenProbes < MaxHalfOpenProbes, halfOpenProbes' = halfOpenProbes + 1
      PROVE  ProbeInv'
  <2>1. owners' = owners + 1
      BY <1>5, OwnerStep
  <2> QED BY <1>1, <1>2, <1>5, <2>1, LimitsAssumption
          DEF ProbeInv, SlotsAreOwned, ProbesWithinLimit
<1>6. ASSUME NEW w \in Workers, probe[w], probe' = [probe EXCEPT ![w] = FALSE],
             halfOpenProbes' = halfOpenProbes - 1
      PROVE  ProbeInv'
  <2>1. owners' = owners - 1
      BY <1>6, OwnerStep
  <2> QED BY <1>1, <1>2, <1>6, <2>1, LimitsAssumption
          DEF ProbeInv, SlotsAreOwned, ProbesWithinLimit
<1> QED BY <1>3, <1>4, <1>5, <1>6 DEF SlotStep

LEMMA ProbeCorrect == Spec => []ProbeInv
<1>1. Init => ProbeInv
    BY ProbingFinite, LimitsAssumption DEF Init, ProbeInv, SlotsAreOwned, ProbesWithinLimit
<1>2. ControlInv /\ ControlInv' /\ ProbeInv /\ [Next]_vars => ProbeInv'
    BY EveryStepIsASlotStep, SlotStepKeepsProbeInv
<1> QED BY <1>1, <1>2, ControlCorrect, PTL DEF Spec

\* No probe slot ever leaks, in spite of the resets that race with the
\* goroutines that own the slots.
THEOREM ProbeAccounting == Spec => []SlotsAreOwned
<1>1. ProbeInv => SlotsAreOwned
    BY DEF ProbeInv
<1> QED BY <1>1, ProbeCorrect, PTL

\* The counter of probe slots respects the configured limit.
THEOREM ProbesAreLimited == Spec => []ProbesWithinLimit
<1>1. ProbeInv => ProbesWithinLimit
    BY DEF ProbeInv
<1> QED BY <1>1, ProbeCorrect, PTL

(* ------------------------ no lost trip or closing ----------------------- *)

Tripping(w) == pc[w] = "errOpen" \/ "failures" \in pending[w]
Closing(w)  == pc[w] = "okCAS" \/ "successes" \in pending[w]

\* The ways a step keeps NoLostTrip, and the ways it keeps NoLostClose.
TripStep ==
    \/ /\ state' = state /\ failures' <= failures
       /\ \A v \in Workers : Tripping(v) => Tripping(v)'
    \/ state' # "Closed"
    \/ \E t \in Thresholds : failures' < t
    \/ \E v \in Workers : Tripping(v)'

CloseStep ==
    \/ /\ state' = state /\ successes' <= successes
       /\ \A v \in Workers : Closing(v) => Closing(v)'
    \/ state' # "HalfOpen"
    \/ successes' < SuccessThreshold
    \/ \E v \in Workers : Closing(v)'

LEMMA SomeThreshold == \E t \in Thresholds : 0 < t
<1>1. PICK t : t \in Thresholds
    BY ThresholdsAssumption
<1>2. t \in Nat /\ 0 < t
    BY <1>1, ThresholdsAssumption
<1> QED BY <1>1, <1>2

LEMMA EveryStepIsATripStep == ControlInv /\ [Next]_vars => TripStep
<1> SUFFICES ASSUME ControlInv, [Next]_vars PROVE TripStep
    OBVIOUS
<1>0. \E t \in Thresholds : 0 < t
    BY SomeThreshold
<1> USE <1>0, ThresholdsAssumption, LimitsAssumption
        DEF ControlInv, TypeOK, LocalInv, TripStep, Tripping, Counter, breaker, locals, Goto, Begin
<1>1. CASE Tick \/ Recover \/ UNCHANGED vars
    BY <1>1 DEF Tick, Recover, vars
<1>2. ASSUME NEW w \in Workers, Arrive(w) \/ ResetCall(w) \/ Step(w) PROVE TripStep
  <2>1. CASE Arrive(w) \/ ResetCall(w)
      BY <2>1 DEF Arrive, ResetCall
  <2>2. CASE LoadFailureTime(w) \/ CheckTimeout(w)
      BY <2>2 DEF LoadFailureTime, CheckTimeout
  <2>3. CASE SwapHalfOpen(w)
      BY <2>3 DEF SwapHalfOpen
  <2>4. CASE ProbeLoad(w) \/ ProbeCAS(w) \/ ProbeGuard(w)
      BY <2>4 DEF ProbeLoad, ProbeCAS, ProbeGuard
  <2>5. CASE Succeed(w) \/ Fail(w)
      BY <2>5 DEF Succeed, Fail
  <2>6. CASE OkLoad(w)
      BY <2>6 DEF OkLoad
  <2>7. CASE OkStore(w)
      BY <2>7 DEF OkStore
  <2>8. CASE OkAdd(w)
      BY <2>8 DEF OkAdd
  <2>9. CASE OkCAS(w)
      BY <2>9 DEF OkCAS
  <2>10. CASE OkUndo(w)
      BY <2>10 DEF OkUndo
  <2>11. CASE ErrNow(w) \/ ErrStore(w) \/ ErrLoad(w)
      BY <2>11 DEF ErrNow, ErrStore, ErrLoad
  <2>12. CASE ErrAdd(w)
      BY <2>12 DEF ErrAdd
  <2>13. CASE ErrOpen(w)
      BY <2>13 DEF ErrOpen
  <2>14. CASE ErrReopen(w)
      BY <2>14 DEF ErrReopen
  <2>15. CASE ResetFailures(w)
      BY <2>15 DEF ResetFailures, StoreZero
  <2>16. CASE ResetSuccesses(w)
      BY <2>16 DEF ResetSuccesses, StoreZero
  <2>17. CASE ResetProbes(w)
      BY <2>17 DEF ResetProbes, StoreZero
  <2>18. CASE RelLoad(w) \/ RelCAS(w)
      BY <2>18 DEF RelLoad, RelCAS
  <2>19. CASE SwapClosed(w)
      BY <2>19 DEF SwapClosed
  <2> QED BY <1>2, <2>1, <2>2, <2>3, <2>4, <2>5, <2>6, <2>7, <2>8, <2>9, <2>10, <2>11, <2>12, <2>13, <2>14, <2>15, <2>16, <2>17, <2>18, <2>19
          DEF Step, Allow, Call, RecordSuccess, RecordFailure, Stores, Cleanup
<1> QED BY <1>1, <1>2 DEF Next

LEMMA EveryStepIsACloseStep == ControlInv /\ [Next]_vars => CloseStep
<1> SUFFICES ASSUME ControlInv, [Next]_vars PROVE CloseStep
    OBVIOUS
<1>0. \E t \in Thresholds : 0 < t
    BY SomeThreshold
<1> USE <1>0, ThresholdsAssumption, LimitsAssumption
        DEF ControlInv, TypeOK, LocalInv, CloseStep, Closing, Counter, breaker, locals, Goto, Begin
<1>1. CASE Tick \/ Recover \/ UNCHANGED vars
    BY <1>1 DEF Tick, Recover, vars
<1>2. ASSUME NEW w \in Workers, Arrive(w) \/ ResetCall(w) \/ Step(w) PROVE CloseStep
  <2>1. CASE Arrive(w) \/ ResetCall(w)
      BY <2>1 DEF Arrive, ResetCall
  <2>2. CASE LoadFailureTime(w) \/ CheckTimeout(w)
      BY <2>2 DEF LoadFailureTime, CheckTimeout
  <2>3. CASE SwapHalfOpen(w)
      BY <2>3 DEF SwapHalfOpen
  <2>4. CASE ProbeLoad(w) \/ ProbeCAS(w) \/ ProbeGuard(w)
      BY <2>4 DEF ProbeLoad, ProbeCAS, ProbeGuard
  <2>5. CASE Succeed(w) \/ Fail(w)
      BY <2>5 DEF Succeed, Fail
  <2>6. CASE OkLoad(w)
      BY <2>6 DEF OkLoad
  <2>7. CASE OkStore(w)
      BY <2>7 DEF OkStore
  <2>8. CASE OkAdd(w)
      BY <2>8 DEF OkAdd
  <2>9. CASE OkCAS(w)
      BY <2>9 DEF OkCAS
  <2>10. CASE OkUndo(w)
      BY <2>10 DEF OkUndo
  <2>11. CASE ErrNow(w) \/ ErrStore(w) \/ ErrLoad(w)
      BY <2>11 DEF ErrNow, ErrStore, ErrLoad
  <2>12. CASE ErrAdd(w)
      BY <2>12 DEF ErrAdd
  <2>13. CASE ErrOpen(w)
      BY <2>13 DEF ErrOpen
  <2>14. CASE ErrReopen(w)
      BY <2>14 DEF ErrReopen
  <2>15. CASE ResetFailures(w)
      BY <2>15 DEF ResetFailures, StoreZero
  <2>16. CASE ResetSuccesses(w)
      BY <2>16 DEF ResetSuccesses, StoreZero
  <2>17. CASE ResetProbes(w)
      BY <2>17 DEF ResetProbes, StoreZero
  <2>18. CASE RelLoad(w) \/ RelCAS(w)
      BY <2>18 DEF RelLoad, RelCAS
  <2>19. CASE SwapClosed(w)
      BY <2>19 DEF SwapClosed
  <2> QED BY <1>2, <2>1, <2>2, <2>3, <2>4, <2>5, <2>6, <2>7, <2>8, <2>9, <2>10, <2>11, <2>12, <2>13, <2>14, <2>15, <2>16, <2>17, <2>18, <2>19
          DEF Step, Allow, Call, RecordSuccess, RecordFailure, Stores, Cleanup
<1> QED BY <1>1, <1>2 DEF Next

\* A closed breaker that has counted enough failures is always about to open:
\* no interleaving loses a trip.
THEOREM NoTripIsLost == Spec => []NoLostTrip
<1>1. Init => NoLostTrip
  <2>1. ASSUME Init PROVE ~ \A t \in Thresholds : failures >= t
      BY <2>1, SomeThreshold, ThresholdsAssumption DEF Init
  <2> QED BY <2>1 DEF NoLostTrip
<1>2. ControlInv /\ ControlInv' /\ NoLostTrip /\ TripStep => NoLostTrip'
    BY ThresholdsAssumption DEF ControlInv, TypeOK, NoLostTrip, TripStep, Tripping
<1>3. ControlInv /\ ControlInv' /\ [Next]_vars /\ NoLostTrip => NoLostTrip'
    BY <1>2, EveryStepIsATripStep
<1> QED BY <1>1, <1>3, ControlCorrect, PTL DEF Spec

\* A half-open breaker that has counted enough successes is always about to
\* close.
THEOREM NoClosingIsLost == Spec => []NoLostClose
<1>1. Init => NoLostClose
    BY DEF Init, NoLostClose
<1>2. ControlInv /\ ControlInv' /\ NoLostClose /\ CloseStep => NoLostClose'
    BY LimitsAssumption DEF ControlInv, TypeOK, NoLostClose, CloseStep, Closing
<1>3. ControlInv /\ ControlInv' /\ [Next]_vars /\ NoLostClose => NoLostClose'
    BY <1>2, EveryStepIsACloseStep
<1> QED BY <1>1, <1>3, ControlCorrect, PTL DEF Spec

(* ------------- used by one goroutine, it keeps the contract ------------- *)

Alone == Workers = {lone} /\ ~GuardEnabled /\ MaxHalfOpenProbes > 0

At == pc[lone]

\* Where a lone goroutine is tells the state of the breaker, since nobody else
\* changes it, and what has been seen of the counters and the clock still holds.
LoneInv ==
    /\ At \notin {"guard", "okUndo"}
    /\ At \in {"loadFailureTime", "checkTimeout", "swapHalfOpen"} => state = "Open"
    /\ At \in {"probeLoad", "probeCAS", "okAdd", "okCAS", "errReopen"} => state = "HalfOpen"
    /\ At \in {"okStore", "errAdd", "errOpen"} => state = "Closed"
    /\ At \in {"call", "okLoad", "errNow", "errStore", "errLoad"} => state # "Open"
    /\ At = "checkTimeout" => stamp[lone] = sinceFailure
    /\ At = "swapHalfOpen" => sinceFailure > OpenTimeout
    /\ At = "okCAS" => successes >= SuccessThreshold
    /\ At = "errOpen" => \E t \in Thresholds : failures >= t
    /\ At = "reset" => pending[lone] # {}
    /\ At = "reset" /\ resume[lone] = "probeLoad" =>
          state = "HalfOpen" /\ "failures" \notin pending[lone]

\* A step of the contract, or none.
ContractStep == Contract!Next \/ UNCHANGED Contract!vars

Kept == LoneInv' /\ ContractStep

\* No slot is taken while the only goroutine owns none.
LEMMA LoneProbes ==
    ASSUME Alone, ControlInv, SlotsAreOwned, ~probe[lone]
    PROVE  halfOpenProbes = 0
<1>1. Probing = {}
    BY DEF Probing, Alone
<1> QED BY <1>1, FS_EmptySet DEF SlotsAreOwned, ControlInv, TypeOK

\* A step of allow; the guard of the probe is off.
LEMMA AllowStep ==
    ASSUME Alone, ControlInv, SlotsAreOwned, LoneInv,
           Allow(lone)
    PROVE  Kept
<1> USE Alone, ControlInv, LoneInv, LimitsAssumption, ThresholdsAssumption
    DEF Alone, ControlInv, TypeOK, LocalInv, Slotless, Slotted, PC, CircuitState, Counter,
        LoneInv, At, Goto, breaker, Kept, ContractStep, Contract!vars,
        modeOf, streakOf, ageOf, callOf
<1>1. CASE LoadFailureTime(lone)
    BY <1>1 DEF LoadFailureTime
<1>2. CASE CheckTimeout(lone)
    BY <1>2 DEF CheckTimeout, Contract!Next, Contract!Refuse
<1>3. CASE SwapHalfOpen(lone)
    BY <1>3 DEF SwapHalfOpen, Begin, Contract!Next, Contract!HalfOpen
<1>4. CASE ProbeLoad(lone)
    BY LoneProbes, <1>4 DEF ProbeLoad
<1>5. CASE ProbeCAS(lone)
    BY <1>5 DEF ProbeCAS, Contract!Next, Contract!Run
<1>6. CASE ProbeGuard(lone)
    BY <1>6 DEF ProbeGuard
<1> QED BY <1>1, <1>2, <1>3, <1>4, <1>5, <1>6 DEF Allow

\* A step of the call or of recordSuccess.
LEMMA SuccessStep ==
    ASSUME Alone, ControlInv, SlotsAreOwned, LoneInv,
           Call(lone) \/ RecordSuccess(lone)
    PROVE  Kept
<1> USE Alone, ControlInv, LoneInv, LimitsAssumption, ThresholdsAssumption
    DEF Alone, ControlInv, TypeOK, LocalInv, Slotless, Slotted, PC, CircuitState, Counter,
        LoneInv, At, Goto, breaker, Kept, ContractStep, Contract!vars,
        modeOf, streakOf, ageOf, callOf
<1>1. CASE Succeed(lone)
    BY <1>1 DEF Succeed
<1>2. CASE Fail(lone)
    BY <1>2 DEF Fail
<1>3. CASE OkLoad(lone)
    BY <1>3 DEF OkLoad, AfterRecord
<1>4. CASE OkStore(lone)
    BY <1>4 DEF OkStore, AfterRecord, Contract!Next, Contract!Succeeded
<1>5. CASE OkAdd(lone)
    BY <1>5 DEF OkAdd, AfterRecord, Contract!Next, Contract!Succeeded
<1>6. CASE OkCAS(lone)
    BY <1>6 DEF OkCAS, Begin, AfterRecord, Contract!Next, Contract!Succeeded
<1>7. CASE OkUndo(lone)
    BY <1>7 DEF OkUndo
<1> QED BY <1>1, <1>2, <1>3, <1>4, <1>5, <1>6, <1>7 DEF Call, RecordSuccess

\* A step of recordFailure.
LEMMA FailureStep ==
    ASSUME Alone, ControlInv, SlotsAreOwned, LoneInv,
           RecordFailure(lone)
    PROVE  Kept
<1> USE Alone, ControlInv, LoneInv, LimitsAssumption, ThresholdsAssumption
    DEF Alone, ControlInv, TypeOK, LocalInv, Slotless, Slotted, PC, CircuitState, Counter,
        LoneInv, At, Goto, breaker, Kept, ContractStep, Contract!vars,
        modeOf, streakOf, ageOf, callOf
<1>1. CASE ErrNow(lone)
    BY <1>1 DEF ErrNow, Contract!Next, Contract!Returned
<1>2. CASE ErrStore(lone)
    BY <1>2 DEF ErrStore
<1>3. CASE ErrLoad(lone)
    BY <1>3 DEF ErrLoad, AfterRecord
<1>4. CASE ErrAdd(lone)
    BY <1>4 DEF ErrAdd, AfterRecord, Contract!Next, Contract!Failed
<1>5. CASE ErrOpen(lone)
    BY <1>5 DEF ErrOpen, Begin, AfterRecord, Contract!Next, Contract!Failed
<1>6. CASE ErrReopen(lone)
    BY <1>6 DEF ErrReopen, Begin, AfterRecord, Contract!Next, Contract!Failed
<1> QED BY <1>1, <1>2, <1>3, <1>4, <1>5, <1>6 DEF RecordFailure

\* The stores that follow a transition, the Cleanup, Reset and the next request.
LEMMA OtherStep ==
    ASSUME Alone, ControlInv, SlotsAreOwned, LoneInv,
           Arrive(lone) \/ ResetCall(lone) \/ Stores(lone) \/ Cleanup(lone) \/ SwapClosed(lone)
    PROVE  Kept
<1> USE Alone, ControlInv, LoneInv, LimitsAssumption, ThresholdsAssumption
    DEF Alone, ControlInv, TypeOK, LocalInv, Slotless, Slotted, PC, CircuitState, Counter,
        LoneInv, At, Goto, breaker, Kept, ContractStep, Contract!vars,
        modeOf, streakOf, ageOf, callOf
<1>1. CASE Arrive(lone)
    BY <1>1 DEF Arrive, Contract!Next, Contract!Ask
<1>2. CASE ResetFailures(lone)
    BY <1>2 DEF ResetFailures, StoreZero
<1>3. CASE ResetSuccesses(lone)
    BY <1>3 DEF ResetSuccesses, StoreZero
<1>4. CASE ResetProbes(lone)
    BY <1>4 DEF ResetProbes, StoreZero
<1>5. CASE RelLoad(lone)
    BY <1>5 DEF RelLoad
<1>6. CASE RelCAS(lone)
    BY <1>6 DEF RelCAS
<1>7. CASE ResetCall(lone)
    BY <1>7 DEF ResetCall
<1>8. CASE SwapClosed(lone)
    BY <1>8 DEF SwapClosed, Begin, Contract!Next, Contract!Reset
<1> QED BY <1>1, <1>2, <1>3, <1>4, <1>5, <1>6, <1>7, <1>8 DEF Stores, Cleanup

\* Every step of the breaker is one of the contract, or none.
LEMMA LoneStep ==
    ASSUME Alone, ControlInv, SlotsAreOwned, LoneInv, [Next]_vars
    PROVE  Kept
<1>1. CASE Tick
    BY <1>1, LimitsAssumption
    DEF Tick, Older, AgeCap, Alone, ControlInv, TypeOK, LoneInv, At, Kept, ContractStep,
        Contract!Next, Contract!Tick, Contract!AgeCap, Contract!vars,
        modeOf, streakOf, ageOf, callOf
<1>2. CASE Recover \/ UNCHANGED vars
    BY <1>2
    DEF Recover, vars, breaker, locals, LoneInv, At, Kept, ContractStep, Contract!vars,
        modeOf, streakOf, ageOf, callOf
<1>3. CASE Arrive(lone) \/ ResetCall(lone) \/ Step(lone)
    BY <1>3, AllowStep, SuccessStep, FailureStep, OtherStep DEF Step
<1> QED BY <1>1, <1>2, <1>3 DEF Next, Alone

\* With one goroutine, and no guard shared with other instances, the breaker goes
\* through the states the comments of Config describe, for any thresholds and
\* timeouts: the safety part of ImplementsContract.
THEOREM LoneImplements ==
    ASSUME Alone
    PROVE  Spec => Contract!Init /\ [][Contract!Next]_(Contract!vars)
<1>1. Init => LoneInv /\ Contract!Init
    BY DEF Init, Alone, LoneInv, At, Contract!Init, Contract!AgeCap, AgeCap,
           modeOf, streakOf, ageOf, callOf
<1>2. ControlInv /\ SlotsAreOwned /\ LoneInv /\ [Next]_vars
        => LoneInv' /\ [Contract!Next]_(Contract!vars)
    BY LoneStep DEF Kept, ContractStep
<1> QED BY <1>1, <1>2, ControlCorrect, ProbeAccounting, PTL DEF Spec
=============================================================================
