---------------------------- MODULE RetryProofs ----------------------------
(***************************************************************************)
(* Theorems about Retry, for all configurations, prices, Retry-Afters,     *)
(* call times and lags.                                                    *)
(***************************************************************************)
EXTENDS Retry, WellFoundedInduction, TLAPS

\* A configuration the constructor accepts has natural numbers and flags.
LEMMA ConfigTyped ==
    ASSUME NEW c \in Configs
    PROVE  /\ c.maxAttempts \in Nat \ {0}
           /\ c.deadline \in Nat /\ c.max \in Nat
           /\ c.maxCost \in Nat /\ c.maxTokens \in Nat
           /\ c.budget \in BOOLEAN
  BY ConfigsAssumption

\* What an attempt costs is natural numbers.
LEMMA ResponseTyped ==
    ASSUME NEW r \in Responses
    PROVE  r.milli \in Nat /\ r.tokens \in Nat
  BY InputsAssumption

\* Rounding down loses less than a cent.
LEMMA Rounding ==
    ASSUME NEW m \in Nat
    PROVE  /\ m \div MilliPerCent \in Nat
           /\ m <= MilliPerCent * (m \div MilliPerCent) + (MilliPerCent - 1)
  BY DEF MilliPerCent

\* Every wait BackOff can choose is a natural number that fits.
LEMMA BackOffWaits ==
    ASSUME TypeOK, NEW after \in RetryAfters, BackOff(after)
    PROVE  \/ \E backoff \in Nat : Fits(backoff) /\ Wait(backoff)
           \/ GiveUp(TRUE) /\ UNCHANGED latest
<1>1. config.max \in Nat
  BY ConfigTyped DEF TypeOK
<1>2. Exponential \subseteq Nat
  BY <1>1 DEF Exponential
<1>3. Backoffs(after) \subseteq Nat
  BY <1>2, InputsAssumption DEF Backoffs
<1>4. PICK backoff \in Backoffs(after), fallback \in Exponential :
          \/ Fits(backoff) /\ Wait(backoff)
          \/ ~Fits(backoff) /\ after > 0 /\ Fits(fallback) /\ Wait(fallback)
          \/ /\ ~Fits(backoff) /\ (after > 0 => ~Fits(fallback))
             /\ GiveUp(TRUE) /\ UNCHANGED latest
  BY DEF BackOff
<1> QED  BY <1>2, <1>3, <1>4

-----------------------------------------------------------------------------

\* Who waits has attempts left: the last failure never leads to a wait.
TypeInv == TypeOK /\ (pc = "wait" => attempt < config.maxAttempts)

\* TypeInv is inductive.
LEMMA TypeInvariant == Spec => []TypeInv
<1>1. Init => TypeInv
  <2> SUFFICES ASSUME Init PROVE TypeInv
    OBVIOUS
  <2>1. config.maxAttempts \in Nat \ {0}
    BY ConfigTyped DEF Init
  <2>2. Lag \in Nat
    BY InputsAssumption
  <2>3. pc \in PC /\ outcome \in Outcomes /\ pc # "wait" /\ failed \in BOOLEAN
    BY DEF Init, PC, Outcomes
  <2> QED
    BY <2>1, <2>2, <2>3 DEF Init, TypeInv, TypeOK
<1>2. TypeInv /\ [Next]_vars => TypeInv'
  <2> SUFFICES ASSUME TypeInv, [Next]_vars PROVE TypeInv'
    OBVIOUS
  <2> USE DEF TypeInv
  <2>c. /\ config.maxAttempts \in Nat \ {0} /\ config.deadline \in Nat
        /\ MaxCall \in Nat /\ Lag \in Nat
    BY ConfigTyped, InputsAssumption DEF TypeOK
  <2>r. ASSUME NEW err \in BOOLEAN, Returned(err)
        PROVE  costCents' \in Nat /\ tokens' \in Nat /\ spent' \in Nat
    <3>1. CASE \E r \in Responses : Charge(r)
      <4>1. PICK r \in Responses : Charge(r)
        BY <3>1
      <4>2. r.milli \in Nat /\ r.tokens \in Nat /\ r.milli \div MilliPerCent \in Nat
        BY ResponseTyped, Rounding
      <4> QED  BY <4>1, <4>2 DEF Charge, TypeOK
    <3>2. CASE UNCHANGED <<costCents, tokens, spent>>
      BY <3>2 DEF TypeOK
    <3> QED  BY <2>r, <3>1, <3>2 DEF Returned
  <2>1. CASE Start
    BY <2>1 DEF Start, Answer, TypeOK, PC, Outcomes
  <2>2. CASE Loop
    BY <2>2, <2>c DEF Loop, GiveUp, Answer, TypeOK, PC, Outcomes
  <2>3. CASE Succeed
    BY <2>3, <2>r DEF Succeed, Answer, TypeOK, PC, Outcomes
  <2>4. CASE FailFatally
    BY <2>4, <2>r DEF FailFatally, Answer, TypeOK, PC, Outcomes
  <2>5. CASE FailLast
    BY <2>5, <2>r DEF FailLast, GiveUp, Answer, TypeOK, PC, Outcomes
  <2>6. CASE FailForNow
    <3>1. PICK after \in RetryAfters : BackOff(after)
      BY <2>6 DEF FailForNow
    <3>2. /\ pc' \in PC /\ outcome' \in Outcomes
          /\ latest' \in Nat /\ elapsed <= latest'
      <4>1. CASE \E backoff \in Nat : Fits(backoff) /\ Wait(backoff)
        BY <4>1, <2>c DEF Wait, TypeOK, PC
      <4>2. CASE GiveUp(TRUE) /\ UNCHANGED latest
        BY <4>2 DEF GiveUp, Answer, TypeOK, PC, Outcomes
      <4> QED  BY <3>1, <4>1, <4>2, BackOffWaits
    <3> QED  BY <2>6, <2>r, <3>2 DEF FailForNow, TypeOK
  <2>7. CASE Wake
    BY <2>7, <2>c DEF Wake, TypeOK, PC
  <2>8. CASE Cancel
    BY <2>8 DEF Cancel, Answer, TypeOK, PC, Outcomes
  <2>9. CASE Tick
    BY <2>9 DEF Tick, TypeOK
  <2>10. CASE UNCHANGED vars
    BY <2>10 DEF vars, TypeOK
  <2> QED
    BY <2>1, <2>2, <2>3, <2>4, <2>5, <2>6, <2>7, <2>8, <2>9, <2>10 DEF Next, Step
<1> QED  BY <1>1, <1>2, PTL DEF Spec

\* The retry loop keeps its types, and makes at most MaxAttempts attempts.
THEOREM TypeCorrect == Spec => []TypeOK
  BY TypeInvariant, PTL DEF TypeInv

-----------------------------------------------------------------------------

\* What is under way ends soon after the deadline.
EndsInTime ==
    config.deadline > 0 =>
        \/ latest <= config.deadline + MaxCall
        \/ latest <= config.deadline + Lag

\* No request outlives its deadline by more than one attempt or a late timer,
\* whatever the provider asks to wait for: for all configurations.
THEOREM DeadlineHolds == Spec => []DeadlineKept
<1>1. Init => EndsInTime
  <2> SUFFICES ASSUME Init PROVE EndsInTime
    OBVIOUS
  <2>1. config.deadline \in Nat /\ Lag \in Nat
    BY ConfigTyped, InputsAssumption DEF Init
  <2> QED  BY <2>1 DEF Init, EndsInTime
<1>2. TypeInv /\ EndsInTime /\ [Next]_vars => EndsInTime'
  <2> SUFFICES ASSUME TypeInv, EndsInTime, [Next]_vars PROVE EndsInTime'
    OBVIOUS
  <2>c. config.deadline \in Nat /\ MaxCall \in Nat /\ Lag \in Nat
    BY ConfigTyped, InputsAssumption DEF TypeInv, TypeOK
  <2>1. CASE Loop
    BY <2>1, <2>c DEF Loop, Late, EndsInTime, TypeInv, TypeOK
  <2>2. CASE FailForNow
    <3>1. PICK after \in RetryAfters : BackOff(after)
      BY <2>2 DEF FailForNow
    <3>2. CASE \E backoff \in Nat : Fits(backoff) /\ Wait(backoff)
      BY <3>2, <2>2, <2>c DEF FailForNow, Fits, Wait, EndsInTime, TypeInv, TypeOK
    <3>3. CASE GiveUp(TRUE) /\ UNCHANGED latest
      BY <3>3, <2>2 DEF FailForNow, EndsInTime
    <3> QED  BY <3>1, <3>2, <3>3, BackOffWaits DEF TypeInv
  <2>3. CASE \/ Start \/ Succeed \/ FailFatally \/ FailLast
             \/ Wake \/ Cancel \/ Tick \/ UNCHANGED vars
    BY <2>3 DEF Start, Succeed, FailFatally, FailLast, Wake, Cancel, Tick, vars, EndsInTime
  <2> QED  BY <2>1, <2>2, <2>3 DEF Next, Step
<1>3. TypeInv /\ EndsInTime => DeadlineKept
  <2> SUFFICES ASSUME TypeInv, EndsInTime PROVE DeadlineKept
    OBVIOUS
  <2>1. config.deadline \in Nat /\ MaxCall \in Nat /\ Lag \in Nat
    BY ConfigTyped, InputsAssumption DEF TypeInv, TypeOK
  <2> QED  BY <2>1 DEF EndsInTime, DeadlineKept, TypeInv, TypeOK
<1> QED  BY <1>1, <1>2, <1>3, TypeInvariant, PTL DEF Spec

-----------------------------------------------------------------------------

\* The attempts that have been charged.
Charged == IF pc = "wait" THEN attempt ELSE attempt - 1

\* Before an attempt the budget is not spent, and what the account does not show
\* is less than a cent for each attempt charged.
Accounted ==
    /\ config.budget /\ pc # "done" =>
          spent <= MilliPerCent * costCents + (MilliPerCent - 1) * Charged
    /\ config.budget /\ config.maxCost > 0 /\ pc = "call" => costCents <= config.maxCost
    /\ config.budget /\ config.maxTokens > 0 /\ pc = "call" => tokens <= config.maxTokens

\* A request overruns its budget by the price of one attempt and the rounding
\* of the others, however many attempts it makes and whatever they cost.
THEOREM SpendingHolds == Spec => []SpendingBounded
<1> DEFINE Inv == Accounted /\ SpendingBounded
<1>1. Init => Inv
  <2> SUFFICES ASSUME Init PROVE Inv
    OBVIOUS
  <2>1. config.maxCost \in Nat /\ config.maxTokens \in Nat
    BY ConfigTyped DEF Init
  <2> QED
    BY <2>1 DEF Init, Accounted, Charged, SpendingBounded, MilliPerCent
<1>2. TypeInv /\ Inv /\ [Next]_vars => Inv'
  <2> SUFFICES ASSUME TypeInv, Inv, [Next]_vars PROVE Inv'
    OBVIOUS
  <2>c. config.maxCost \in Nat /\ config.maxTokens \in Nat /\ config.maxAttempts \in Nat \ {0}
    BY ConfigTyped DEF TypeInv, TypeOK
  <2>t. attempt \in Nat /\ costCents \in Nat /\ tokens \in Nat /\ spent \in Nat
    BY <2>c DEF TypeInv, TypeOK
  <2>1. ASSUME NEW err \in BOOLEAN, Returned(err), pc = "call",
               UNCHANGED <<config, attempt>>
        PROVE  /\ SpendingBounded'
               /\ config.budget =>
                     spent' <= MilliPerCent * costCents' + (MilliPerCent - 1) * attempt
    <3>1. CASE \E r \in Responses : Charge(r)
      <4>1. PICK r \in Responses : Charge(r)
        BY <3>1
      <4>2. /\ r.milli \in Nat /\ r.tokens \in Nat /\ r.milli \div MilliPerCent \in Nat
            /\ r.milli <= MilliPerCent * (r.milli \div MilliPerCent) + (MilliPerCent - 1)
        BY ResponseTyped, Rounding
      <4>3. r.milli \in {q.milli : q \in Responses} /\ r.tokens \in {q.tokens : q \in Responses}
        OBVIOUS
      <4>4. ASSUME config.budget
            PROVE  /\ spent <= MilliPerCent * costCents + (MilliPerCent - 1) * (attempt - 1)
                   /\ spent' = spent + r.milli
                   /\ costCents' = costCents + r.milli \div MilliPerCent
                   /\ tokens' = tokens + r.tokens
        BY <2>1, <4>1, <4>4 DEF Accounted, Charged, Charge
      <4>5. config.budget =>
               spent' <= MilliPerCent * costCents' + (MilliPerCent - 1) * attempt
        BY <4>2, <4>4, <2>t DEF MilliPerCent
      <4>6. config.budget /\ config.maxCost > 0 =>
               spent' <= MilliPerCent * config.maxCost + (MilliPerCent - 1) * (attempt - 1) + r.milli
        BY <2>1, <4>2, <4>4, <2>t, <2>c DEF Accounted, MilliPerCent
      <4>7. config.budget /\ config.maxTokens > 0 => tokens' <= config.maxTokens + r.tokens
        BY <2>1, <4>2, <4>4, <2>t, <2>c DEF Accounted
      <4> QED  BY <2>1, <4>3, <4>5, <4>6, <4>7 DEF SpendingBounded
    <3>2. CASE UNCHANGED <<costCents, tokens, spent>>
      BY <2>1, <3>2, <2>t DEF Accounted, Charged, SpendingBounded, MilliPerCent
    <3> QED  BY <2>1, <3>1, <3>2 DEF Returned
  <2>2. CASE Start \/ Cancel \/ Tick \/ UNCHANGED vars
    BY <2>2 DEF Start, Cancel, Tick, vars, Answer, Accounted, Charged, SpendingBounded
  <2>3. CASE Loop
    BY <2>3, <2>c, <2>t
       DEF Loop, ExceedsBudget, GiveUp, Answer, Accounted, Charged, SpendingBounded
  <2>4. CASE Succeed \/ FailFatally \/ FailLast
    BY <2>4, <2>1 DEF Succeed, FailFatally, FailLast, GiveUp, Answer, Accounted
  <2>5. CASE FailForNow
    <3>1. PICK after \in RetryAfters : BackOff(after)
      BY <2>5 DEF FailForNow
    <3>2. pc' = "wait" \/ pc' = "done"
      BY <3>1, BackOffWaits DEF Wait, GiveUp, Answer, TypeInv
    <3> QED  BY <2>5, <2>1, <3>2 DEF FailForNow, Accounted, Charged
  <2>6. CASE Wake
    <3>1. /\ pc = "wait" /\ pc' = "loop" /\ attempt' = attempt + 1
          /\ UNCHANGED <<config, costCents, tokens, spent>>
      BY <2>6 DEF Wake
    <3>2. Charged' = Charged
      BY <3>1, <2>t DEF Charged
    <3>3. SpendingBounded'
      <4>1. ASSUME NEW last \in {r.milli : r \in Responses} \cup {0}, config.maxCost > 0,
                   spent <= MilliPerCent * config.maxCost + (MilliPerCent - 1) * (attempt - 1) + last
            PROVE  spent <= MilliPerCent * config.maxCost + (MilliPerCent - 1) * (attempt' - 1) + last
        <5>1. last \in Nat
          BY ResponseTyped
        <5> QED  BY <5>1, <4>1, <3>1, <2>t, <2>c DEF MilliPerCent
      <4> QED  BY <4>1, <3>1 DEF SpendingBounded
    <3> QED  BY <3>1, <3>2, <3>3 DEF Accounted
  <2> QED  BY <2>2, <2>3, <2>4, <2>5, <2>6 DEF Next, Step
<1> QED  BY <1>1, <1>2, TypeInvariant, PTL DEF Spec

-----------------------------------------------------------------------------

\* A set of natural numbers that is not empty has a least one.
LEMMA LeastNatural ==
    ASSUME NEW T \in SUBSET Nat, T # {}
    PROVE  \E n \in T : \A m \in T : n <= m
<1>1. \E R : IsWellFoundedOn(R, Nat) /\ \A m, n \in Nat : m < n => <<m, n>> \in R
  BY NatLessThanWellFounded DEF OpToRel
<1>2. PICK R : IsWellFoundedOn(R, Nat) /\ \A m, n \in Nat : m < n => <<m, n>> \in R
  BY <1>1
<1>3. \E n \in T : \A m \in T : ~(<<m, n>> \in R)
  <2>1. IsWellFoundedOn(R, Nat) /\ T \subseteq Nat /\ T # {}
    BY <1>2
  <2> QED  BY <2>1, WFMin
<1>4. PICK n \in T : \A m \in T : ~(<<m, n>> \in R)
  BY <1>3
<1>5. \A m \in T : ~(m < n)
  BY <1>2, <1>4
<1> QED  BY <1>5

\* Induction, for the numbers a set has.
LEMMA Reaches ==
    ASSUME NEW T, 1 \in T, \A n \in Nat \ {0} : n \in T => n + 1 \in T
    PROVE  Nat \ {0} \subseteq T
<1>1. SUFFICES ASSUME (Nat \ {0}) \ T # {} PROVE FALSE
  OBVIOUS
<1>2. PICK n \in (Nat \ {0}) \ T : \A m \in (Nat \ {0}) \ T : n <= m
  BY <1>1, LeastNatural
<1>3. n # 1 /\ n - 1 \in Nat \ {0}
  OBVIOUS
<1> QED  BY <1>2, <1>3

\* f has n values, from first by repeated application of G.
Iterates(f, V, first, G, n) ==
    /\ f \in [1..n -> V]
    /\ \A i \in 1..n : f[i] = IF i = 1 THEN first ELSE G[f[i - 1]]

\* Such an f exists.
LEMMA Iteration ==
    ASSUME NEW V, NEW first \in V, NEW G \in [V -> V], NEW m \in Nat \ {0}
    PROVE  \E f : Iterates(f, V, first, G, m)
<1> DEFINE S == {n \in Nat \ {0} : \E f : Iterates(f, V, first, G, n)}
<1>1. Iterates([i \in 1..1 |-> first], V, first, G, 1)
  BY DEF Iterates
<1>2. ASSUME NEW n \in Nat \ {0}, NEW f, Iterates(f, V, first, G, n)
      PROVE  \E g : Iterates(g, V, first, G, n + 1)
  <2> DEFINE g == [i \in 1..(n + 1) |-> IF i = n + 1 THEN G[f[n]] ELSE f[i]]
  <2>1. Iterates(g, V, first, G, n + 1)
    BY <1>2 DEF Iterates
  <2> QED  BY <2>1
<1>3. 1 \in S
  BY <1>1
<1>4. ASSUME NEW n \in Nat \ {0}, n \in S
      PROVE  n + 1 \in S
  BY <1>2, <1>4
<1> HIDE DEF S
<1>5. m \in S
  BY <1>3, <1>4, Reaches
<1> QED  BY <1>5 DEF S

\* The recursion for the backoffs has a solution, so each of them is a number.
LEMMA BackoffTyped ==
    ASSUME NEW c \in Configs, NEW k \in 1..c.maxAttempts
    PROVE  BaseBackoff(c)[k] \in Nat
<1> DEFINE m == c.maxAttempts
           Longer(b) == IF b * c.multiplier > c.max THEN c.max ELSE b * c.multiplier
           Solves(f) == f = [n \in 1..c.maxAttempts |->
                               IF n = 1 THEN c.initial ELSE Longer(f[n - 1])]
           base == BaseBackoff(c)
<1>1. m \in Nat \ {0} /\ c.initial \in Nat /\ c.max \in Nat /\ c.multiplier \in Nat
  BY ConfigsAssumption
<1>2. \A b \in Nat : Longer(b) \in Nat
  <2>1. \A x, y \in Nat : x * y \in Nat
    OBVIOUS
  <2> QED  BY <1>1, <2>1
<1>3. base = CHOOSE f : Solves(f)
  BY DEF BaseBackoff
<1> HIDE DEF Longer, base
<1>4. \E f : Solves(f)
  <2> DEFINE G == [b \in Nat |-> Longer(b)]
  <2>1. G \in [Nat -> Nat]
    BY <1>2
  <2> HIDE DEF G
  <2>2. PICK f : Iterates(f, Nat, c.initial, G, m)
    BY <1>1, <2>1, Iteration
  <2>3. \A n \in 1..m : n # 1 => f[n - 1] \in Nat
    BY <1>1, <2>2 DEF Iterates
  <2>4. Solves(f)
    BY <2>2, <2>3 DEF G, Iterates
  <2> QED  BY <2>4
<1>5. Solves(base)
  BY <1>3, <1>4
<1> DEFINE T == {n \in Nat \ {0} : n <= m => base[n] \in Nat}
<1>6. 1 \in T
  BY <1>1, <1>5
<1>7. ASSUME NEW n \in Nat \ {0}, n \in T
      PROVE  n + 1 \in T
  <2>1. SUFFICES ASSUME n + 1 <= m PROVE base[n + 1] \in Nat
    OBVIOUS
  <2>2. base[n] \in Nat
    BY <1>1, <1>7, <2>1
  <2>3. base[n + 1] = Longer(base[n])
    BY <1>1, <1>5, <2>1
  <2> QED  BY <1>2, <2>2, <2>3
<1>8. k \in T
  <2> HIDE DEF T
  <2> QED  BY <1>1, <1>6, <1>7, Reaches
<1> QED  BY <1>8 DEF base

\* Who has not failed yet has made no attempt, but for the one under way.
Untried ==
    /\ pc \in {"start", "loop", "call"} /\ ~failed => attempt = 1 /\ spent = 0
    /\ pc = "wait" => failed
    /\ pc # "done" => outcome = "none"

\* A backoff of its own that a request could choose does not fit, if it gives up.
LEMMA BackOffGivesUp ==
    ASSUME TypeInv, attempt < config.maxAttempts, NEW after \in RetryAfters, BackOff(after)
    PROVE  \/ pc' = "wait" /\ UNCHANGED outcome
           \/ /\ pc' = "done" /\ outcome' = "exhausted" /\ config.deadline > 0
              /\ elapsed + BaseBackoff(config)[attempt] > config.deadline
<1> DEFINE base == BaseBackoff(config)[attempt]
<1>1. /\ config.deadline \in Nat /\ config.max \in Nat /\ after \in Nat
      /\ elapsed \in Nat /\ base \in Nat
  BY ConfigTyped, BackoffTyped, InputsAssumption DEF TypeInv, TypeOK
<1> HIDE DEF base
<1>2. PICK backoff \in Backoffs(after), fallback \in Exponential :
          \/ Fits(backoff) /\ Wait(backoff)
          \/ ~Fits(backoff) /\ after > 0 /\ Fits(fallback) /\ Wait(fallback)
          \/ /\ ~Fits(backoff) /\ (after > 0 => ~Fits(fallback))
             /\ GiveUp(TRUE) /\ UNCHANGED latest
  BY DEF BackOff
<1>3. ASSUME NEW b \in Exponential, ~Fits(b)
      PROVE  config.deadline > 0 /\ elapsed + base > config.deadline
  <2>1. b \in Nat /\ b <= base
    BY <1>1 DEF Exponential, base
  <2> QED  BY <1>1, <1>3, <2>1 DEF Fits
<1>4. after = 0 => backoff \in Exponential
  BY DEF Backoffs
<1> QED  BY <1>1, <1>2, <1>3, <1>4 DEF Wait, GiveUp, Answer, base

\* A request gives up with attempts left only if its own backoff might not end
\* in time, and without any error only before its first attempt, for every
\* configuration and Retry-After.
THEOREM GivingUpJustified == Spec => []GivesUpForAReason
<1> DEFINE Inv == Untried /\ GivesUpForAReason
<1>1. Init => Inv
  BY DEF Init, Untried, GivesUpForAReason
<1>2. TypeInv /\ Inv /\ [Next]_vars => Inv'
  <2> SUFFICES ASSUME TypeInv, Inv, [Next]_vars PROVE Inv'
    OBVIOUS
  <2>1. /\ config.deadline \in Nat /\ config.maxAttempts \in Nat \ {0}
        /\ attempt \in 1..config.maxAttempts /\ elapsed \in Nat
    BY ConfigTyped DEF TypeInv, TypeOK
  <2>2. BaseBackoff(config)[attempt] \in Nat
    BY BackoffTyped DEF TypeInv, TypeOK
  <2>3. CASE Start \/ Succeed \/ FailFatally \/ Cancel
    BY <2>3 DEF Start, Succeed, FailFatally, Cancel, Answer, Untried, GivesUpForAReason
  <2>4. CASE Loop
    <3>1. CASE Late
      BY <2>1, <2>2, <2>4, <3>1 DEF Loop, Late, GiveUp, Answer, Untried, GivesUpForAReason
    <3>2. CASE ~Late
      BY <2>4, <3>2 DEF Loop, Answer, Untried, GivesUpForAReason
    <3> QED  BY <3>1, <3>2
  <2>5. CASE FailLast
    BY <2>1, <2>5 DEF FailLast, GiveUp, Answer, Untried, GivesUpForAReason
  <2>6. CASE FailForNow
    <3>1. /\ attempt < config.maxAttempts /\ failed'
          /\ UNCHANGED <<config, attempt, elapsed>>
      BY <2>6 DEF FailForNow
    <3>2. PICK after \in RetryAfters : BackOff(after)
      BY <2>6 DEF FailForNow
    <3>3. CASE pc' = "wait" /\ UNCHANGED outcome
      BY <2>6, <3>1, <3>3 DEF FailForNow, Untried, GivesUpForAReason
    <3>4. CASE /\ pc' = "done" /\ outcome' = "exhausted" /\ config.deadline > 0
               /\ elapsed + BaseBackoff(config)[attempt] > config.deadline
      BY <2>6, <3>1, <3>4 DEF FailForNow, Untried, GivesUpForAReason
    <3> QED  BY <3>1, <3>2, <3>3, <3>4, BackOffGivesUp
  <2>7. CASE Wake
    BY <2>7 DEF Wake, Untried, GivesUpForAReason
  <2>8. CASE Tick
    BY <2>8 DEF Tick, Untried, GivesUpForAReason
  <2>9. CASE UNCHANGED vars
    BY <2>9 DEF vars, Untried, GivesUpForAReason, Late
  <2> QED  BY <2>3, <2>4, <2>5, <2>6, <2>7, <2>8, <2>9 DEF Next, Step
<1> QED  BY <1>1, <1>2, TypeInvariant, PTL DEF Spec
=============================================================================
