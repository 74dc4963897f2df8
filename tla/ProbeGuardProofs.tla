-------------------------- MODULE ProbeGuardProofs --------------------------
(***************************************************************************)
(* The probe guard excludes, for any number of instances and any TTL, as   *)
(* long as no Redis command fails and no probe outlasts its guard.         *)
(***************************************************************************)
EXTENDS ProbeGuard, TLAPS

Active(i) == pc[i] # "idle"

\* An active instance owns the guard: the time it has taken and the time the
\* guard has left add up to the TTL, and nobody else is active.
Guarded ==
    /\ \A i \in Instances :
          Active(i) => ttl + elapsed[i] = ProbeTimeout /\ elapsed[i] < ProbeTimeout
    /\ \A i, j \in Instances : Active(i) /\ Active(j) => i = j

GuardInv ==
    /\ TypeOK
    /\ \A i \in Instances : ~Active(i) => elapsed[i] = 0
    /\ trouble = {} => Guarded

\* Every step keeps the types and, without trouble, the ownership.
LEMMA NextGuard == GuardInv /\ [Next]_vars => GuardInv'
<1> SUFFICES ASSUME GuardInv, [Next]_vars PROVE GuardInv'
    OBVIOUS
<1> USE TimeAssumption DEF GuardInv, Guarded, TypeOK, Active, Move
<1>1. CASE Tick
    BY <1>1 DEF Tick, Slow
<1>2. ASSUME NEW i \in Instances, Acquire(i) PROVE GuardInv'
  <2>1. TypeOK'
    <3>1. trouble' \subseteq {"redis", "slow"}
        BY <1>2, Zenon DEF Acquire
    <3>2. ttl' \in 0..ProbeTimeout
        BY <1>2 DEF Acquire
    <3> QED BY <1>2, <3>1, <3>2 DEF Acquire
  <2>2. ASSUME NEW j \in Instances PROVE (~Active(j) => elapsed[j] = 0)'
      BY <1>2 DEF Acquire
  \* The key is gone, so nobody is active: an active instance has taken less
  \* than the TTL.
  <2>3. ASSUME trouble' = {} PROVE Guarded'
    <3>1. trouble = {} /\ ttl = 0 /\ ttl' = ProbeTimeout
        BY <1>2, <2>3 DEF Acquire
    <3>2. \A j \in Instances : ~Active(j)
        BY <3>1
    <3> QED BY <1>2, <3>1, <3>2 DEF Acquire
  <2> QED BY <2>1, <2>2, <2>3
<1>3. ASSUME NEW i \in Instances, Finish(i) PROVE GuardInv'
    BY <1>3 DEF Finish
<1>4. ASSUME NEW i \in Instances, Release(i) PROVE GuardInv'
  <2>1. TypeOK'
    <3>1. trouble' \subseteq {"redis", "slow"}
        BY <1>4, Zenon DEF Release
    <3>2. ttl' \in 0..ProbeTimeout
        BY <1>4 DEF Release
    <3> QED BY <1>4, <3>1, <3>2 DEF Release
  <2>2. /\ pc' = [pc EXCEPT ![i] = "idle"] /\ elapsed' = [elapsed EXCEPT ![i] = 0]
        /\ Active(i)
      BY <1>4 DEF Release
  <2>3. trouble' = {} => trouble = {} /\ \A j \in Instances : j # i => ~Active(j)
      BY <1>4, <2>2 DEF Release
  <2> QED BY <2>1, <2>2, <2>3
<1>5. ASSUME NEW i \in Instances, Crash(i) PROVE GuardInv'
    BY <1>5 DEF Crash
<1>6. CASE UNCHANGED vars
    BY <1>6 DEF vars
<1> QED BY <1>1, <1>2, <1>3, <1>4, <1>5, <1>6 DEF Next

\* The guard does what its documentation says under two conditions the code
\* does not check: no Redis command fails, and no probe outlasts its guard.
THEOREM GuardExcludes == Spec => []OneProbeAtATime
<1>1. Init => GuardInv
    BY TimeAssumption DEF Init, GuardInv, Guarded, TypeOK, Active
<1>2. GuardInv => OneProbeAtATime
    BY DEF GuardInv, Guarded, Active, OneProbeAtATime
<1> QED BY <1>1, <1>2, NextGuard, PTL DEF Spec
=============================================================================
