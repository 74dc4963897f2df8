----------------------- MODULE ShardedBreakersProofs -----------------------
(***************************************************************************)
(* Proofs about ShardedBreakers, for any goroutines, keys, shards, limit.  *)
(***************************************************************************)
EXTENDS ShardedBreakers, FiniteSetTheorems, TLAPS

InCriticalSection == {"recheck", "add", "create", "rollback", "unlock"}

\* Between Lock and Unlock a goroutine holds its shard, and past the recheck
\* nobody else has given its key a breaker.
LockInv ==
    \A w \in Workers :
        /\ pc[w] \in InCriticalSection => Lock(w) = w
        /\ pc[w] \in {"add", "create"} => key[w] \notin breakers

\* TypeOK, but for the sign of the counter, which only its exact value gives.
Typed ==
    /\ breakers \subseteq Keys
    /\ total \in Int
    /\ holder \in [Shards -> Workers \cup {NoOne}]
    /\ pc \in [Workers -> PC]
    /\ key \in [Workers -> Keys]

ControlInv == Typed /\ LockInv

LEMMA InitControl == Init => ControlInv
BY ShardingAssumption DEF Init, ControlInv, Typed, LockInv, PC, InCriticalSection

LEMMA NextControl == ControlInv /\ [Next]_vars => ControlInv'
<1> SUFFICES ASSUME ControlInv, [Next]_vars PROVE ControlInv'
    OBVIOUS
<1> USE ShardingAssumption, WorkersAssumption, LimitAssumption
        DEF ControlInv, Typed, LockInv, PC, InCriticalSection, Goto, Lock
<1>1. ASSUME NEW w \in Workers, Call(w) PROVE ControlInv'
    BY <1>1 DEF Call
<1>2. ASSUME NEW w \in Workers, Get(w) PROVE ControlInv'
    BY <1>2 DEF Get
<1>3. ASSUME NEW w \in Workers, Acquire(w) PROVE ControlInv'
    BY <1>3 DEF Acquire
<1>4. ASSUME NEW w \in Workers, Recheck(w) PROVE ControlInv'
    BY <1>4 DEF Recheck
<1>5. ASSUME NEW w \in Workers, Add(w) PROVE ControlInv'
    BY <1>5 DEF Add
<1>6. ASSUME NEW w \in Workers, Rollback(w) PROVE ControlInv'
    BY <1>6 DEF Rollback
<1>7. ASSUME NEW w \in Workers, Create(w) PROVE ControlInv'
  <2>1. Typed'
      BY <1>7 DEF Create
  <2>2. ASSUME NEW v \in Workers PROVE (pc[v] \in InCriticalSection => Lock(v) = v)'
      BY <1>7, <2>2 DEF Create
  <2>3. ASSUME NEW v \in Workers, pc'[v] \in {"add", "create"}
        PROVE  key'[v] \notin breakers'
    <3>1. v # w /\ pc[v] \in {"add", "create"} /\ pc[w] = "create"
        BY <1>7, <2>3 DEF Create
    <3>2. Lock(v) = v /\ Lock(w) = w
        BY <3>1
    <3>3. key[v] # key[w]
        BY <3>1, <3>2
    <3>4. key[v] \notin breakers
        BY <3>1
    <3> QED BY <1>7, <3>3, <3>4 DEF Create
  <2> QED BY <2>1, <2>2, <2>3
<1>8. ASSUME NEW w \in Workers, Unlock(w) PROVE ControlInv'
    BY <1>8 DEF Unlock
<1>9. CASE UNCHANGED vars
    BY <1>9 DEF vars
<1> QED BY <1>1, <1>2, <1>3, <1>4, <1>5, <1>6, <1>7, <1>8, <1>9 DEF Next, Step

LEMMA ControlCorrect == Spec => []ControlInv
BY InitControl, NextControl, PTL DEF Spec

\* No key ever gets a second breaker, whatever the number of goroutines.
THEOREM SingleBreaker == Spec => []OneBreakerPerKey
<1>1. ControlInv => OneBreakerPerKey
  <2> SUFFICES ASSUME ControlInv, NEW w \in Creating
               PROVE  /\ key[w] \notin breakers
                      /\ \A v \in Creating : key[v] = key[w] => v = w
      BY DEF OneBreakerPerKey
  <2> QED BY DEF Creating, ControlInv, LockInv, InCriticalSection, Lock
<1> QED BY <1>1, ControlCorrect, PTL

(* --------------------------- the atomic counter ------------------------- *)

CountInv ==
    /\ IsFiniteSet(breakers)
    /\ CounterIsExact
    /\ WithinLimit
    /\ RefusedOnlyWhenFull

\* The sets the counter is made of are finite.
LEMMA Countable ==
    ASSUME IsFiniteSet(breakers)
    PROVE  /\ Cardinality(breakers) \in Nat
           /\ IsFiniteSet(Creating) /\ Cardinality(Creating) \in Nat
           /\ IsFiniteSet(RollingBack) /\ Cardinality(RollingBack) \in Nat
<1>1. Creating \subseteq Workers /\ RollingBack \subseteq Workers
    BY DEF Creating, RollingBack
<1> QED BY <1>1, WorkersAssumption, FS_Subset, FS_CardinalityType

LEMMA NextCount == ControlInv /\ CountInv /\ [Next]_vars => CountInv'
<1> SUFFICES ASSUME ControlInv, CountInv, [Next]_vars PROVE CountInv'
    OBVIOUS
<1> DEFINE b == Cardinality(breakers)
           c == Cardinality(Creating)
           r == Cardinality(RollingBack)
<1>1. /\ b \in Nat /\ c \in Nat /\ r \in Nat
      /\ IsFiniteSet(Creating) /\ IsFiniteSet(RollingBack) /\ IsFiniteSet(breakers)
      /\ total = b + c + r
      /\ b + c <= MaxBreakers
      /\ RollingBack # {} => b + c = MaxBreakers
      /\ MaxBreakers \in Nat
    BY Countable, LimitAssumption
       DEF CountInv, CounterIsExact, WithinLimit, RefusedOnlyWhenFull
<1>2. (RollingBack = {}) <=> (r = 0)
    BY <1>1, FS_EmptySet
\* A step that neither adds nor creates nor rolls back leaves the count alone.
<1>3. ASSUME UNCHANGED <<breakers, total>>, Creating' = Creating, RollingBack' = RollingBack
      PROVE  CountInv'
    BY <1>1, <1>3 DEF CountInv, CounterIsExact, WithinLimit, RefusedOnlyWhenFull
<1> USE DEF ControlInv, Typed, Goto
<1>4. ASSUME NEW w \in Workers,
             Call(w) \/ Get(w) \/ Acquire(w) \/ Recheck(w) \/ Unlock(w)
      PROVE  CountInv'
  <2>1. Creating' = Creating /\ RollingBack' = RollingBack
      BY <1>4 DEF Call, Get, Acquire, Recheck, Unlock, Creating, RollingBack
  <2> QED BY <1>3, <1>4, <2>1 DEF Call, Get, Acquire, Recheck, Unlock
<1>5. ASSUME NEW w \in Workers, Add(w) PROVE CountInv'
  <2>1. pc[w] = "add" /\ total' = total + 1 /\ breakers' = breakers
      BY <1>5 DEF Add
  <2>2. CASE total' > MaxBreakers
    <3>1. Creating' = Creating /\ RollingBack' = RollingBack \cup {w} /\ w \notin RollingBack
        BY <1>5, <2>2 DEF Add, Creating, RollingBack
    <3>2. r' = r + 1
        BY <3>1, <1>1, FS_AddElement
    <3>3. b + c = MaxBreakers
        BY <1>1, <1>2, <2>1, <2>2
    <3> QED BY <1>1, <2>1, <3>1, <3>2, <3>3
            DEF CountInv, CounterIsExact, WithinLimit, RefusedOnlyWhenFull
  <2>3. CASE ~(total' > MaxBreakers)
    <3>1. RollingBack' = RollingBack /\ Creating' = Creating \cup {w} /\ w \notin Creating
        BY <1>5, <2>3 DEF Add, Creating, RollingBack
    <3>2. c' = c + 1
        BY <3>1, <1>1, FS_AddElement
    <3>3. b + c + r + 1 <= MaxBreakers
        BY <1>1, <2>1, <2>3
    <3>4. RollingBack = {}
        BY <1>1, <3>3
    <3> QED BY <1>1, <2>1, <3>1, <3>2, <3>3, <3>4
            DEF CountInv, CounterIsExact, WithinLimit, RefusedOnlyWhenFull
  <2> QED BY <2>2, <2>3
<1>6. ASSUME NEW w \in Workers, Rollback(w) PROVE CountInv'
  <2>1. /\ breakers' = breakers /\ total' = total - 1 /\ Creating' = Creating
        /\ RollingBack' = RollingBack \ {w} /\ w \in RollingBack
      BY <1>6 DEF Rollback, Creating, RollingBack
  <2>2. r' = r - 1
      BY <2>1, <1>1, FS_RemoveElement
  <2> QED BY <1>1, <2>1, <2>2
          DEF CountInv, CounterIsExact, WithinLimit, RefusedOnlyWhenFull
<1>7. ASSUME NEW w \in Workers, Create(w) PROVE CountInv'
  <2>1. /\ total' = total /\ RollingBack' = RollingBack
        /\ Creating' = Creating \ {w} /\ w \in Creating
        /\ breakers' = breakers \cup {key[w]} /\ key[w] \notin breakers
      BY <1>7 DEF Create, Creating, RollingBack, LockInv
  <2>2. c' = c - 1
      BY <2>1, <1>1, FS_RemoveElement
  <2>3. b' = b + 1 /\ IsFiniteSet(breakers')
      BY <2>1, <1>1, FS_AddElement
  <2> QED BY <1>1, <2>1, <2>2, <2>3
          DEF CountInv, CounterIsExact, WithinLimit, RefusedOnlyWhenFull
<1>8. CASE UNCHANGED vars
    BY <1>3, <1>8 DEF vars, Creating, RollingBack
<1> QED BY <1>4, <1>5, <1>6, <1>7, <1>8 DEF Next, Step

LEMMA CountCorrect == Spec => []CountInv
<1>1. Init => CountInv
  <2> SUFFICES ASSUME Init PROVE CountInv
      OBVIOUS
  <2>1. breakers = {} /\ Creating = {} /\ RollingBack = {} /\ total = 0
      BY DEF Init, Creating, RollingBack
  <2> QED BY <2>1, FS_EmptySet, LimitAssumption
          DEF CountInv, CounterIsExact, WithinLimit, RefusedOnlyWhenFull
<1> QED BY <1>1, NextCount, ControlCorrect, PTL DEF Spec

\* The counter stays exact, although the check overshoots and rolls back.
THEOREM CounterExact == Spec => []CounterIsExact
<1>1. CountInv => CounterIsExact
    BY DEF CountInv
<1> QED BY <1>1, CountCorrect, PTL

\* The limit is never exceeded, however many shards create at once.
THEOREM LimitIsKept == Spec => []WithinLimit
<1>1. CountInv => WithinLimit
    BY DEF CountInv
<1> QED BY <1>1, CountCorrect, PTL

\* A creation is refused only when all the places are taken.
THEOREM RefusedWithCause == Spec => []RefusedOnlyWhenFull
<1>1. CountInv => RefusedOnlyWhenFull
    BY DEF CountInv
<1> QED BY <1>1, CountCorrect, PTL

\* Every reachable state is well typed; the counter is never negative.
THEOREM TypeCorrect == Spec => []TypeOK
<1>1. ControlInv /\ CountInv => TypeOK
  <2> SUFFICES ASSUME ControlInv, CountInv PROVE TypeOK
      OBVIOUS
  <2>1. total \in Nat
      BY Countable DEF CountInv, CounterIsExact
  <2> QED BY <2>1 DEF ControlInv, Typed, TypeOK
<1> QED BY <1>1, ControlCorrect, CountCorrect, PTL
=============================================================================
