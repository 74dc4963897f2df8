----------------------------- MODULE CacheLease -----------------------------
(***************************************************************************)
(* The cache middleware of internal/llm/cache, for one idempotency key:    *)
(* requests of several instances check the cached entry and try to take a  *)
(* lease in one Lua script, and everything after that is separate steps.   *)
(*                                                                         *)
(* takers and trouble are history variables: the requests under way whose  *)
(* script has taken the lease, whether they know it or not; "redis" when a *)
(* Redis command has failed, "crash" when an instance has died.            *)
(***************************************************************************)
EXTENDS Naturals, FiniteSets, Sequences

CONSTANTS
    Requests,       \* concurrent requests with the same idempotency key
    LeaseTimeout,   \* leaseTimeout, 30s
    MaxExecution    \* bound: next.Handle, the store and the Del take this long

ASSUME TimeAssumption == LeaseTimeout \in Nat \ {0} /\ MaxExecution \in Nat

VARIABLES
    entry,      \* the cached response: "none", "fresh", "stale" (over maxAge),
                \* "corrupt" (the script rejects it too) or "unreadable" (the
                \* script does not, but json.Unmarshal fails)
    lease,      \* time the lease key still has to live; 0: there is no key
    pc,         \* "idle", "check", "wait", "drop", "execute", "store", "release"
    acquired,   \* does the request believe it holds the lease
    takers,     \* the requests whose script has taken the lease
    elapsed,    \* time the request has spent past the check
    trouble

vars == <<entry, lease, pc, acquired, takers, elapsed, trouble>>

Entries == {"none", "fresh", "stale", "corrupt", "unreadable"}

Init ==
    /\ entry \in Entries
    /\ lease = 0
    /\ pc = [r \in Requests |-> "idle"]
    /\ acquired = [r \in Requests |-> FALSE]
    /\ takers = {}
    /\ elapsed = [r \in Requests |-> 0]
    /\ trouble = {}

Goto(r, label) ==
    /\ pc' = [pc EXCEPT ![r] = label]
    /\ UNCHANGED <<takers, elapsed>>

\* The request is over, whatever its answer.
Return(r) ==
    /\ pc' = [pc EXCEPT ![r] = "idle"]
    /\ acquired' = [acquired EXCEPT ![r] = FALSE]
    /\ takers' = takers \ {r}
    /\ elapsed' = [elapsed EXCEPT ![r] = 0]

RedisFails == trouble' = trouble \cup {"redis"}

Arrive(r) ==
    /\ pc[r] = "idle"
    /\ Goto(r, "check")
    /\ UNCHANGED <<entry, lease, acquired, trouble>>

(* -------------------------- atomicCheckAndLease ------------------------- *)

\* The script has status 1 with an entry while it is fresh.
Usable == entry \in {"fresh", "unreadable"}

Hit(r) ==
    /\ pc[r] = "check"
    /\ entry = "fresh"
    /\ Return(r)
    /\ UNCHANGED <<entry, lease, trouble>>

\* leaseFailed, with the error of json.Unmarshal.
HitUnreadable(r) ==
    /\ pc[r] = "check"
    /\ entry = "unreadable"
    /\ Goto(r, "wait")
    /\ UNCHANGED <<entry, lease, acquired, trouble>>

\* MUTANT of DropAndLease: a refused miss renews the lease.
DropAndRenew(r) ==
    /\ entry' = "none"
    /\ lease' = LeaseTimeout
    /\ takers' = IF lease = 0 THEN takers \cup {r} ELSE takers

\* The script drops an entry it cannot use and tries SET NX EX on the lease.
DropAndLease(r) ==
    /\ entry' = "none"
    /\ lease' = IF lease = 0 THEN LeaseTimeout ELSE lease
    /\ takers' = IF lease = 0 THEN takers \cup {r} ELSE takers

\* What the client gets of {status, nil}: Redis ends a table at its first nil.
Reply(status) == <<status>>

\* MUTANT of LeaseGiven: the status alone is looked at.  Then the taker deletes the
\* lease key when it is done, and the key may be another request's by then.
LeaseGivenAnyLength(reply) == reply[1] = 2

\* Is it leaseAcquired?  A reply of another length is an "unexpected script result
\* format", which the code treats as status 0 without a lease.
LeaseGiven(reply) == Len(reply) = 2 /\ reply[1] = 2

Miss(r) ==
    /\ pc[r] = "check"
    /\ ~Usable
    /\ DropAndLease(r)
    /\ LET took == LeaseGiven(Reply(IF lease = 0 THEN 2 ELSE 0))
       IN  /\ acquired' = [acquired EXCEPT ![r] = took]
           /\ pc' = [pc EXCEPT ![r] = IF took THEN "execute" ELSE "wait"]
    /\ UNCHANGED <<elapsed, trouble>>

\* Eval fails, before or after the script has run: leaseFailed.
CheckError(r) ==
    /\ pc[r] = "check"
    /\ RedisFails
    /\ \/ UNCHANGED <<entry, lease, takers>>
       \/ ~Usable /\ DropAndLease(r)
    /\ pc' = [pc EXCEPT ![r] = "wait"]
    /\ UNCHANGED <<acquired, elapsed>>

(* ---------------------- waiting for somebody else ----------------------- *)

\* After retryCheckInterval, a plain GET: any entry is served, a stale one too.
RetryHit(r) ==
    /\ pc[r] = "wait"
    /\ entry \in {"fresh", "stale"}
    /\ Return(r)
    /\ UNCHANGED <<entry, lease, trouble>>

\* MUTANT of RetryMiss: keep waiting as long as the lease is held.
RetryMissWhenFree(r) ==
    /\ pc[r] = "wait"
    /\ entry = "none"
    /\ lease = 0 /\ \A q \in Requests \ {r} : pc[q] # "wait"
    /\ Goto(r, "execute")
    /\ UNCHANGED <<entry, lease, acquired, trouble>>

\* Nothing, or an error: execute after all.
RetryMiss(r) ==
    /\ pc[r] = "wait"
    /\ \/ entry = "none" /\ UNCHANGED trouble
       \/ RedisFails
    /\ Goto(r, "execute")
    /\ UNCHANGED <<entry, lease, acquired>>

FindUnreadable(r) ==
    /\ pc[r] = "wait"
    /\ entry \in {"corrupt", "unreadable"}
    /\ Goto(r, "drop")
    /\ UNCHANGED <<entry, lease, acquired, trouble>>

\* The DEL that follows takes whatever entry is there by then; its error is ignored.
DropUnreadable(r) ==
    /\ pc[r] = "drop"
    /\ \/ entry' = "none" /\ UNCHANGED trouble
       \/ entry' \in {"none", entry} /\ RedisFails
    /\ Goto(r, "execute")
    /\ UNCHANGED <<lease, acquired>>

\* ctx.Done while waiting: ctx.Err is returned before the deferred cleanup is
\* registered, and there is no lease to clean up.
Cancel(r) ==
    /\ pc[r] = "wait"
    /\ Return(r)
    /\ UNCHANGED <<entry, lease, trouble>>

(* ------------------------------ executing ------------------------------- *)

\* next.Handle returns a response, to be stored, or an error.
Execute(r) ==
    /\ pc[r] = "execute"
    /\ \E label \in {"store", "release"} : Goto(r, label)
    /\ UNCHANGED <<entry, lease, acquired, trouble>>

\* A store that fails, with the request's context or with Redis, is only logged.
Store(r) ==
    /\ pc[r] = "store"
    /\ entry' \in {"fresh", entry}
    /\ Goto(r, "release")
    /\ UNCHANGED <<lease, acquired, trouble>>

\* The deferred cleanup deletes the lease key, whoever has it by now, if the DEL
\* arrives.  With the replies of Redis no request ever believes it has a lease.
Release(r) ==
    /\ pc[r] = "release"
    /\ lease' \in IF acquired[r] THEN {0, lease} ELSE {lease}
    /\ trouble' = IF acquired[r] /\ lease' # 0 THEN trouble \cup {"redis"} ELSE trouble
    /\ Return(r)
    /\ UNCHANGED entry

(* ----------------------- crashes, ageing, the clock --------------------- *)

Crash(r) ==
    /\ pc[r] # "idle"
    /\ trouble' = trouble \cup {"crash"}
    /\ Return(r)
    /\ UNCHANGED <<entry, lease>>

\* The entry passes maxAge or its TTL, whichever is shorter first.
Age ==
    /\ \/ entry = "fresh" /\ entry' = "stale"
       \/ entry # "none" /\ entry' = "none"
    /\ UNCHANGED <<lease, pc, acquired, takers, elapsed, trouble>>

Underway(r) == pc[r] \notin {"idle", "check"}

Tick ==
    /\ \A r \in Requests : Underway(r) => elapsed[r] < MaxExecution
    /\ lease' = IF lease = 0 THEN 0 ELSE lease - 1
    /\ elapsed' = [r \in Requests |-> IF Underway(r) THEN elapsed[r] + 1 ELSE 0]
    /\ UNCHANGED <<entry, pc, acquired, takers, trouble>>

Step(r) ==
    \/ Hit(r) \/ HitUnreadable(r) \/ Miss(r) \/ CheckError(r)
    \/ RetryHit(r) \/ RetryMiss(r) \/ FindUnreadable(r) \/ DropUnreadable(r)
    \/ Execute(r) \/ Store(r) \/ Release(r)

Next ==
    \/ Age \/ Tick
    \/ \E r \in Requests : Arrive(r) \/ Step(r) \/ Cancel(r) \/ Crash(r)

Spec == Init /\ [][Next]_vars

\* Time passes, and the goroutine of a request goes on until it returns.
FairSpec ==
    /\ Spec
    /\ WF_vars(Tick)
    /\ \A r \in Requests : WF_vars(Step(r))

(* ------------------------------ properties ------------------------------ *)

\* Of the requests under way that are younger than a lease, one at most has taken
\* it: nothing deletes the key before its time, whichever requests fail, crash or
\* outlast it, and whichever replies are lost.  The DEL of the cleanup knows no
\* owner, and only a request that never learns of its lease cannot misuse it.
OneTaker ==
    \A q, r \in takers :
        elapsed[q] < LeaseTimeout /\ elapsed[r] < LeaseTimeout => q = r

\* No request waits for ever: a taker that crashes and a refused lease leave
\* nobody stuck.
RequestsReturn == \A r \in Requests : pc[r] # "idle" ~> pc[r] = "idle"

\* The lease key goes away, so that a later miss can be protected again.
LeaseGoesAway == lease > 0 ~> lease = 0

\* middleware.go:140: "Cleanup lease to prevent deadlocks, even on request
\* cancellation."  The code: Redis truncates the reply {2, nil}, so the request
\* that took the lease does not know it and never deletes it.
LeaseCleanedUp ==
    trouble = {} /\ (\A r \in Requests : pc[r] = "idle") => lease = 0
=============================================================================
