-------------------------- MODULE CacheLeaseProofs --------------------------
(***************************************************************************)
(* Theorem about CacheLease, for any number of requests, any lease timeout *)
(* and executions of any length.                                           *)
(***************************************************************************)
EXTENDS CacheLease, TLAPS

\* The time a young taker has taken and the time the lease has left add up to the
\* timeout, since nobody believes to hold the lease and deletes it, and so there is
\* no key to be taken as long as the taker is young.
LeaseInv ==
    /\ DOMAIN pc = Requests
    /\ acquired = [r \in Requests |-> FALSE]
    /\ elapsed \in [Requests -> Nat]
    /\ lease \in Nat
    /\ takers \subseteq Requests
    /\ \A r \in takers : Underway(r)
    /\ \A r \in Requests : ~Underway(r) => elapsed[r] = 0
    /\ \A r \in takers : elapsed[r] < LeaseTimeout => lease + elapsed[r] = LeaseTimeout
    /\ OneTaker

LEMMA LeaseInit == Init => LeaseInv
  BY DEF Init, LeaseInv, OneTaker, Underway

\* A reply that ends at its nil gives nobody the lease.
LEMMA NothingGiven == \A status : LeaseGiven(Reply(status)) = FALSE
  BY DEF LeaseGiven, Reply

\* A step of r that leaves the lease alone.
LEMMA LeaseMove ==
    ASSUME LeaseInv, NEW r \in Requests, NEW label,
           pc' = [pc EXCEPT ![r] = label],
           Underway(r) => label \notin {"idle", "check"},
           UNCHANGED <<lease, acquired, takers, elapsed>>
    PROVE  LeaseInv'
<1>1. \A q \in Requests : q # r => pc'[q] = pc[q]
  BY DEF LeaseInv
<1>2. pc'[r] = label /\ DOMAIN pc' = Requests
  BY DEF LeaseInv
<1>3. \A q \in Requests : Underway(q) => Underway(q)'
  BY <1>1, <1>2 DEF Underway
<1>4. QED
  BY <1>2, <1>3 DEF LeaseInv, OneTaker

\* A request that is over leaves the lease alone too.
LEMMA LeaseReturn ==
    ASSUME LeaseInv, NEW r \in Requests, Return(r), UNCHANGED lease
    PROVE  LeaseInv'
<1>1. \A q \in Requests : q # r => pc'[q] = pc[q] /\ elapsed'[q] = elapsed[q]
  BY DEF LeaseInv, Return
<1>2. pc'[r] = "idle" /\ elapsed'[r] = 0 /\ takers' = takers \ {r}
  BY DEF LeaseInv, Return
<1>3. /\ DOMAIN pc' = Requests /\ elapsed' \in [Requests -> Nat]
      /\ acquired' = [q \in Requests |-> FALSE]
  BY DEF LeaseInv, Return
<1>4. \A q \in Requests : ~Underway(q)' => elapsed'[q] = 0
  BY <1>1, <1>2 DEF LeaseInv, Underway
<1>5. \A q \in takers' : Underway(q)'
  BY <1>1, <1>2 DEF LeaseInv, Underway
<1>6. \A q \in takers' : elapsed'[q] = elapsed[q]
  BY <1>1, <1>2 DEF LeaseInv
<1>7. QED
  BY <1>2, <1>3, <1>4, <1>5, <1>6 DEF LeaseInv, OneTaker

\* The script takes the lease only when no taker is young.
LEMMA LeaseTaken ==
    ASSUME LeaseInv, NEW r \in Requests, DropAndLease(r),
           pc[r] = "check", pc' = [pc EXCEPT ![r] = "wait"],
           UNCHANGED <<acquired, elapsed>>
    PROVE  LeaseInv'
<1>1. \A q \in Requests : q # r => pc'[q] = pc[q]
  BY DEF LeaseInv
<1>2. pc'[r] = "wait" /\ DOMAIN pc' = Requests /\ elapsed[r] = 0
  BY DEF LeaseInv, Underway
<1>3. \A q \in Requests : Underway(q) => Underway(q)'
  BY <1>1, <1>2 DEF Underway
<1>4. CASE lease = 0
  <2>1. lease' = LeaseTimeout /\ takers' = takers \cup {r} /\ elapsed' = elapsed
    BY <1>4 DEF DropAndLease
  <2>2. \A q \in takers : elapsed[q] >= LeaseTimeout
    BY <1>4, TimeAssumption DEF LeaseInv
  <2>3. \A q \in takers' : elapsed'[q] < LeaseTimeout => q = r
    BY <2>1, <2>2, TimeAssumption DEF LeaseInv
  <2>4. Underway(r)'
    BY <1>2 DEF Underway
  <2>5. QED
    BY <1>2, <1>3, <2>1, <2>3, <2>4, TimeAssumption DEF LeaseInv, OneTaker
<1>5. CASE lease # 0
  BY <1>2, <1>3, <1>5 DEF DropAndLease, LeaseInv, OneTaker
<1>6. QED
  BY <1>4, <1>5

\* The lease and its taker age together.
LEMMA LeaseTick ==
    ASSUME LeaseInv, Tick
    PROVE  LeaseInv'
<1>1. elapsed' \in [Requests -> Nat] /\ lease' \in Nat
  BY DEF Tick, LeaseInv
<1>2. UNCHANGED <<pc, acquired, takers>>
  BY DEF Tick
<1>3. \A r \in Requests : elapsed'[r] = IF Underway(r) THEN elapsed[r] + 1 ELSE 0
  BY DEF Tick
<1>4. \A r \in Requests : Underway(r)' = Underway(r)
  BY <1>2 DEF Underway
<1>5. \A r \in takers : elapsed[r] \in Nat /\ elapsed'[r] = elapsed[r] + 1
  BY <1>3 DEF LeaseInv
<1>6. ASSUME NEW r \in takers, elapsed'[r] < LeaseTimeout
      PROVE  lease' + elapsed'[r] = LeaseTimeout
  <2>1. elapsed[r] + 1 < LeaseTimeout /\ lease + elapsed[r] = LeaseTimeout
    BY <1>5, <1>6, TimeAssumption DEF LeaseInv
  <2>2. lease' = lease - 1
    BY <1>5, <2>1, TimeAssumption DEF Tick, LeaseInv
  <2>3. QED
    BY <1>5, <2>1, <2>2, TimeAssumption DEF LeaseInv
<1>7. OneTaker'
  BY <1>2, <1>5, TimeAssumption DEF LeaseInv, OneTaker
<1>8. QED
  BY <1>1, <1>2, <1>3, <1>4, <1>6, <1>7 DEF LeaseInv

\* Every step keeps LeaseInv.
LEMMA LeaseStep ==
    ASSUME LeaseInv, [Next]_vars
    PROVE  LeaseInv'
<1>1. CASE UNCHANGED vars \/ Age
  <2>1. UNCHANGED <<lease, pc, acquired, takers, elapsed>>
    BY <1>1 DEF Age, vars
  <2>2. QED
    BY <2>1 DEF LeaseInv, OneTaker, Underway
<1>2. ASSUME NEW r \in Requests, Miss(r)
      PROVE  LeaseInv'
  <2> DEFINE status == IF lease = 0 THEN 2 ELSE 0
  <2> HIDE DEF status
  <2>1. LeaseGiven(Reply(status)) = FALSE
    BY NothingGiven
  <2>2. pc' = [pc EXCEPT ![r] = "wait"] /\ acquired' = [acquired EXCEPT ![r] = FALSE]
    BY <1>2, <2>1 DEF Miss, status
  <2>3. acquired' = acquired
    BY <2>2 DEF LeaseInv
  <2>4. QED
    BY <1>2, <2>2, <2>3, LeaseTaken DEF Miss
<1>3. ASSUME NEW r \in Requests, CheckError(r)
      PROVE  LeaseInv'
  <2>1. CASE UNCHANGED <<entry, lease, takers>>
    BY <1>3, <2>1, LeaseMove DEF CheckError
  <2>2. CASE DropAndLease(r)
    BY <1>3, <2>2, LeaseTaken DEF CheckError
  <2>3. QED
    BY <1>3, <2>1, <2>2 DEF CheckError
<1>4. ASSUME NEW r \in Requests, Hit(r) \/ RetryHit(r) \/ Cancel(r) \/ Crash(r)
      PROVE  LeaseInv'
  BY <1>4, LeaseReturn DEF Hit, RetryHit, Cancel, Crash
<1>5. ASSUME NEW r \in Requests, Release(r)
      PROVE  LeaseInv'
  <2>1. acquired[r] = FALSE
    BY DEF LeaseInv
  <2>2. Return(r) /\ lease' = lease
    BY <1>5, <2>1 DEF Release
  <2>3. QED
    BY <2>2, LeaseReturn
<1>6. ASSUME NEW r \in Requests, Arrive(r) \/ HitUnreadable(r) \/ Execute(r) \/ Store(r)
      PROVE  LeaseInv'
  BY <1>6, LeaseMove DEF Arrive, HitUnreadable, Execute, Store, Goto, Underway
<1>7. ASSUME NEW r \in Requests, RetryMiss(r) \/ FindUnreadable(r) \/ DropUnreadable(r)
      PROVE  LeaseInv'
  BY <1>7, LeaseMove DEF RetryMiss, FindUnreadable, DropUnreadable, Goto
<1>8. QED
  BY <1>1, <1>2, <1>3, <1>4, <1>5, <1>6, <1>7, LeaseTick DEF Next, Step

\* Of the requests younger than a lease, one at most has taken it, whatever fails,
\* crashes or takes longer than the lease lives.
THEOREM TakersExclude == Spec => []OneTaker
<1>1. LeaseInv => OneTaker
  BY DEF LeaseInv
<1>2. QED
  BY LeaseInit, LeaseStep, <1>1, PTL DEF Spec
=============================================================================
