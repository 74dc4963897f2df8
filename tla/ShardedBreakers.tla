-------------------------- MODULE ShardedBreakers --------------------------
(***************************************************************************)
(* shardedBreakers.getOrCreate of internal/llm/circuitbreaker: one map per *)
(* shard under its own RWMutex, and one atomic counter for all of them.    *)
(* Goroutines that create breakers in different shards meet only at the    *)
(* counter, which is incremented first and rolled back over the limit.     *)
(***************************************************************************)
EXTENDS Integers, FiniteSets

CONSTANTS
    Workers,        \* goroutines in getOrCreateBreaker
    Keys,           \* provider:model:region
    Shards,
    ShardOf,        \* getShard: the shard of each key
    NoOne,          \* holds a shard's lock when no goroutine does
    MaxBreakers     \* Config.MaxBreakers, 1000 when it is 0

ASSUME ShardingAssumption == ShardOf \in [Keys -> Shards]
ASSUME WorkersAssumption == IsFiniteSet(Workers) /\ NoOne \notin Workers
ASSUME LimitAssumption == MaxBreakers \in Nat \ {0}

VARIABLES
    breakers,   \* the keys that have a breaker, over all shards
    total,      \* the atomic counter
    holder,     \* who holds the write lock of each shard, or NoOne
    pc,         \* where each goroutine is in getOrCreate
    key         \* the key it asked for

vars == <<breakers, total, holder, pc, key>>

PC == {"idle", "get", "lock", "recheck", "add", "create", "rollback", "unlock"}

Init ==
    /\ breakers = {}
    /\ total = 0
    /\ holder = [s \in Shards |-> NoOne]
    /\ pc = [w \in Workers |-> "idle"]
    /\ key \in [Workers -> Keys]

Goto(w, label) == pc' = [pc EXCEPT ![w] = label]
Lock(w) == holder[ShardOf[key[w]]]

Call(w) ==
    /\ pc[w] = "idle"
    /\ \E k \in Keys : key' = [key EXCEPT ![w] = k]
    /\ Goto(w, "get")
    /\ UNCHANGED <<breakers, total, holder>>

\* get, under the read lock: not while somebody writes the shard.
Get(w) ==
    /\ pc[w] = "get"
    /\ Lock(w) = NoOne
    /\ Goto(w, IF key[w] \in breakers THEN "idle" ELSE "lock")
    /\ UNCHANGED <<breakers, total, holder, key>>

\* MUTANT of Acquire: RLock in place of Lock.
AcquireShared(w) ==
    /\ pc[w] = "lock"
    /\ Lock(w) = NoOne
    /\ Goto(w, "recheck")
    /\ UNCHANGED <<breakers, total, holder, key>>

Acquire(w) ==
    /\ pc[w] = "lock"
    /\ Lock(w) = NoOne
    /\ holder' = [holder EXCEPT ![ShardOf[key[w]]] = w]
    /\ Goto(w, "recheck")
    /\ UNCHANGED <<breakers, total, key>>

\* MUTANT of Recheck: a goroutine that finds the key rolls back all the same.
RecheckRollsBack(w) ==
    /\ pc[w] = "recheck"
    /\ Goto(w, IF key[w] \in breakers THEN "rollback" ELSE "add")
    /\ UNCHANGED <<breakers, total, holder, key>>

\* MUTANT of Recheck: no second look under the lock.
RecheckNot(w) ==
    /\ pc[w] = "recheck"
    /\ Goto(w, "add")
    /\ UNCHANGED <<breakers, total, holder, key>>

Recheck(w) ==
    /\ pc[w] = "recheck"
    /\ Goto(w, IF key[w] \in breakers THEN "unlock" ELSE "add")
    /\ UNCHANGED <<breakers, total, holder, key>>

\* MUTANT of Add: the total is compared before it is incremented.
AddUnbounded(w) ==
    /\ pc[w] = "add"
    /\ total' = total + 1
    /\ Goto(w, IF total > MaxBreakers THEN "rollback" ELSE "create")
    /\ UNCHANGED <<breakers, holder, key>>

\* MUTANT of Add: the limit itself is refused.
AddEarly(w) ==
    /\ pc[w] = "add"
    /\ total' = total + 1
    /\ Goto(w, IF total' >= MaxBreakers THEN "rollback" ELSE "create")
    /\ UNCHANGED <<breakers, holder, key>>

\* newTotal := total.Add(1); int(newTotal) > maxBreakers
Add(w) ==
    /\ pc[w] = "add"
    /\ total' = total + 1
    /\ Goto(w, IF total' > MaxBreakers THEN "rollback" ELSE "create")
    /\ UNCHANGED <<breakers, holder, key>>

\* MUTANT of Rollback: the increment stays.
RollbackNot(w) ==
    /\ pc[w] = "rollback"
    /\ Goto(w, "unlock")
    /\ UNCHANGED <<breakers, total, holder, key>>

Rollback(w) ==
    /\ pc[w] = "rollback"
    /\ total' = total - 1
    /\ Goto(w, "unlock")
    /\ UNCHANGED <<breakers, holder, key>>

Create(w) ==
    /\ pc[w] = "create"
    /\ breakers' = breakers \cup {key[w]}
    /\ Goto(w, "unlock")
    /\ UNCHANGED <<total, holder, key>>

\* MUTANT of Unlock: the early returns leave the shard locked.
UnlockNot(w) ==
    /\ pc[w] = "unlock"
    /\ Goto(w, "idle")
    /\ UNCHANGED <<breakers, total, holder, key>>

\* The deferred Unlock.
Unlock(w) ==
    /\ pc[w] = "unlock"
    /\ holder' = [holder EXCEPT ![ShardOf[key[w]]] = NoOne]
    /\ Goto(w, "idle")
    /\ UNCHANGED <<breakers, total, key>>

Step(w) == Get(w) \/ Acquire(w) \/ Recheck(w) \/ Add(w) \/ Rollback(w)
           \/ Create(w) \/ Unlock(w)

Next == \E w \in Workers : Call(w) \/ Step(w)

Spec == Init /\ [][Next]_vars

\* A goroutine that can run does, and one that waits for a mutex that is free
\* again and again gets it: sync.RWMutex does not starve.
Fairness ==
    \A w \in Workers : WF_vars(Step(w)) /\ SF_vars(Get(w)) /\ SF_vars(Acquire(w))

FairSpec == Spec /\ Fairness

(* ------------------------------ properties ------------------------------ *)

\* Every variable keeps its type; no rollback takes the counter below zero.
TypeOK ==
    /\ breakers \subseteq Keys
    /\ total \in Nat
    /\ holder \in [Shards -> Workers \cup {NoOne}]
    /\ pc \in [Workers -> PC]
    /\ key \in [Workers -> Keys]

Creating == {w \in Workers : pc[w] = "create"}
RollingBack == {w \in Workers : pc[w] = "rollback"}

\* The counter is exact at any moment: the breakers there are, those being
\* created and the increments still to be rolled back.
CounterIsExact ==
    total = Cardinality(breakers) + Cardinality(Creating) + Cardinality(RollingBack)

\* Never more breakers than the limit, however many shards create at once.
WithinLimit == Cardinality(breakers) + Cardinality(Creating) <= MaxBreakers

\* Nobody is refused without cause: while an increment waits to be rolled
\* back, all the places are taken, so a transient overshoot of the counter
\* never refuses a breaker there was room for.
RefusedOnlyWhenFull ==
    RollingBack # {} => Cardinality(breakers) + Cardinality(Creating) = MaxBreakers

\* A key gets one breaker: a goroutine about to store one is alone with that
\* key and finds the place empty.  Otherwise a second breaker would replace the
\* first and forget its failures.
OneBreakerPerKey ==
    \A w \in Creating :
        /\ key[w] \notin breakers
        /\ \A v \in Creating : key[v] = key[w] => v = w

\* Every call returns: no shard lock is kept for ever.
EveryCallReturns == \A w \in Workers : pc[w] # "idle" ~> pc[w] = "idle"
=============================================================================
