---------------------------- MODULE RateLimiter ----------------------------
(***************************************************************************)
(* The middleware of internal/llm/ratelimit for one key: the local token   *)
(* bucket, the global limit in Redis, and the fallback bucket of degraded  *)
(* mode, with the cleanup that removes idle buckets while requests hold    *)
(* references to them.  The local bucket and the fallback bucket of a key  *)
(* are never both in use, so the map entry here stands for either of them. *)
(*                                                                         *)
(* One unit of time brings one token.  A bucket comes from the package     *)
(* golang.org/x/time/rate; Allow, Reserve and Cancel are its operations.   *)
(***************************************************************************)
EXTENDS Integers

CONSTANTS
    Workers,        \* goroutines with a request for the key
    NoOne,          \* holds localMu when no goroutine does
    Burst,          \* BurstSize, or DefaultRateLimit for the fallback bucket
    StaleAfter,     \* LimiterTTL + limiterMinTTL, at least ten times the refill
    MaxCheck,       \* bound: a look at the bucket takes no longer
    MaxDebt         \* bound: reservations below it leave no trace

ASSUME WorkersAssumption == NoOne \notin Workers
ASSUME BoundsAssumption ==
    /\ Burst \in Nat \ {0} /\ MaxCheck \in Nat \ {0} /\ MaxDebt \in Nat
    /\ StaleAfter \in Nat /\ 2 * MaxCheck + Burst <= StaleAfter

VARIABLES
    localEnabled,   \* localConfig.Enabled; globalConfig.Enabled holds
    limited,        \* globalConfig.RequestsPerSecond > 0
    degraded,       \* globalConfig.DegradedMode
    present,        \* is there a timedLimiter for the key in localLimiters
    tokens,         \* of its limiter
    blocked,        \* its limiter has been replaced by one with burst 0
    exhausted,      \* its exhausted flag
    sinceUsed,      \* age of its lastUsed
    mu,             \* who holds localMu for writing
    crashed,        \* the process has died of an Unlock of an unlocked RWMutex
    pc,
    back,           \* where w goes on once the bucket has admitted it
    lim,            \* the limiter w has got hold of: "none", "current", or "old"
                    \* once that is no longer the one in the map
    age,            \* age of the time w has read for lastUsed
    due,            \* time until the token is there that w has reserved, or Past
    passed          \* the limits that have let the request of w through

config == <<localEnabled, limited>>
entry == <<present, tokens, blocked, exhausted, sinceUsed>>
locals == <<pc, back, lim, age, due, passed>>
vars == <<config, degraded, entry, mu, crashed, locals>>

Checking == {"lookup", "lock", "fill", "unlock", "allow", "unlockAgain",
             "allowTwice", "mark", "reserve", "cancel"}

Past == -1

AgeCap == StaleAfter + 1
Older(a) == IF a = AgeCap THEN AgeCap ELSE a + 1

Init ==
    /\ localEnabled \in BOOLEAN /\ limited \in BOOLEAN
    /\ degraded \in BOOLEAN     \* the Ping at construction
    /\ present = FALSE /\ tokens = 0 /\ blocked = FALSE /\ exhausted = FALSE
    /\ sinceUsed = 0
    /\ mu = NoOne /\ crashed = FALSE
    /\ pc = [w \in Workers |-> "idle"]
    /\ back = [w \in Workers |-> "next"]
    /\ lim = [w \in Workers |-> "none"]
    /\ age = [w \in Workers |-> 0]
    /\ due = [w \in Workers |-> Past]
    /\ passed = [w \in Workers |-> {}]

At(w, label) == ~crashed /\ pc[w] = label
Goto(w, label) == pc' = [pc EXCEPT ![w] = label]

\* The request is over, whatever its answer.
Return(w) ==
    /\ Goto(w, "idle")
    /\ back' = [back EXCEPT ![w] = "next"]
    /\ passed' = [passed EXCEPT ![w] = {}]

\* checkLocalLimit or checkFallbackLimit, called from where label follows.
CheckBucket(w, label) ==
    /\ Goto(w, "lookup")
    /\ back' = [back EXCEPT ![w] = label]

(* ---------------------------- the middleware ---------------------------- *)

\* Phase 1.  The local check reads the time before it locks.
Arrive(w) ==
    /\ At(w, "idle")
    /\ IF localEnabled THEN CheckBucket(w, "phase2")
                       ELSE Goto(w, "phase2") /\ UNCHANGED back
    /\ UNCHANGED <<config, degraded, entry, mu, crashed, lim, age, due, passed>>

Phase2(w) ==
    /\ At(w, "phase2")
    /\ Goto(w, IF degraded THEN "phase3" ELSE "script")
    /\ UNCHANGED <<config, degraded, entry, mu, crashed,
                   back, lim, age, due, passed>>

\* checkGlobalLimit: nothing is asked of Redis if there is no limit.  Otherwise the
\* script allows, refuses (or fails in a way that is no Redis error), answers
\* something else, or fails.
Script(w) ==
    /\ At(w, "script")
    /\ \/ ~limited /\ Goto(w, "phase3") /\ UNCHANGED <<degraded, passed, back>>
       \/ /\ limited
          /\ Goto(w, "phase3")
          /\ passed' = [passed EXCEPT ![w] = @ \cup {"global"}]
          /\ UNCHANGED <<degraded, back>>
       \/ limited /\ Return(w) /\ UNCHANGED degraded
       \/ limited /\ Goto(w, "phase3") /\ degraded' = TRUE /\ UNCHANGED <<passed, back>>
       \/ limited /\ Goto(w, "degrade") /\ UNCHANGED <<degraded, passed, back>>
    /\ UNCHANGED <<config, entry, mu, crashed, lim, age, due>>

\* handleGlobalLimit after a Redis error.  The request meets phase 3 as well.
Degrade(w) ==
    /\ At(w, "degrade")
    /\ degraded' = TRUE
    /\ IF localEnabled THEN Goto(w, "phase3") /\ UNCHANGED back
                       ELSE CheckBucket(w, "phase3")
    /\ UNCHANGED <<config, entry, mu, crashed, lim, age, due, passed>>

\* MUTANT of Phase3: no fallback after phase 2.
Phase3Open(w) ==
    /\ At(w, "phase3")
    /\ Goto(w, "next")
    /\ UNCHANGED <<config, degraded, entry, mu, crashed,
                   back, lim, age, due, passed>>

Phase3(w) ==
    /\ At(w, "phase3")
    /\ IF degraded /\ ~localEnabled THEN CheckBucket(w, "next")
                                    ELSE Goto(w, "next") /\ UNCHANGED back
    /\ UNCHANGED <<config, degraded, entry, mu, crashed,
                   lim, age, due, passed>>

\* next.Handle returns.
Handled(w) ==
    /\ At(w, "next")
    /\ Return(w)
    /\ UNCHANGED <<config, degraded, entry, mu, crashed, lim, age, due>>

(* ------------------------- finding the bucket --------------------------- *)

\* lastUsed.Store(now): a local check stores the time it has read earlier, a
\* fallback check reads it here.
Touch(w) ==
    IF localEnabled
    THEN sinceUsed' = age[w] /\ UNCHANGED age
    ELSE sinceUsed' = 0 /\ age' = [age EXCEPT ![w] = 0]

\* MUTANT of Lookup: the time is stored when the bucket is created only.
LookupUntouched(w) ==
    /\ At(w, "lookup")
    /\ mu = NoOne
    /\ Goto(w, IF present THEN "allow" ELSE "lock")
    /\ lim' = [lim EXCEPT ![w] = IF present THEN "current" ELSE "none"]
    /\ UNCHANGED <<config, degraded, entry, mu, crashed,
                   back, age, due, passed>>

\* Under the read lock.
Lookup(w) ==
    /\ At(w, "lookup")
    /\ mu = NoOne
    /\ IF present
       THEN /\ Touch(w)
            /\ lim' = [lim EXCEPT ![w] = "current"]
            /\ Goto(w, "allow")
       ELSE Goto(w, "lock") /\ UNCHANGED <<sinceUsed, age, lim>>
    /\ UNCHANGED <<config, degraded, present, tokens, blocked, exhausted,
                   mu, crashed, back, due, passed>>

Lock(w) ==
    /\ At(w, "lock")
    /\ mu = NoOne
    /\ mu' = w
    /\ Goto(w, "fill")
    /\ UNCHANGED <<config, degraded, entry, crashed,
                   back, lim, age, due, passed>>

\* MUTANT of Fill: no second look under the write lock.
FillAlways(w) ==
    /\ At(w, "fill")
    /\ Touch(w)
    /\ lim' = [lim EXCEPT ![w] = "current"]
    /\ Goto(w, "unlock")
    /\ present' = TRUE /\ tokens' = Burst
    /\ blocked' = FALSE /\ exhausted' = FALSE
    /\ UNCHANGED <<config, degraded, mu, crashed, back, due, passed>>

\* Under the write lock: another goroutine has created the bucket meanwhile, or
\* w does.  The first case of the fallback check unlocks twice if w is admitted.
Fill(w) ==
    /\ At(w, "fill")
    /\ Touch(w)
    /\ lim' = [lim EXCEPT ![w] = "current"]
    /\ IF present
       THEN /\ Goto(w, IF localEnabled THEN "unlock" ELSE "unlockAgain")
            /\ UNCHANGED <<present, tokens, blocked, exhausted>>
       ELSE /\ Goto(w, "unlock")
            /\ present' = TRUE /\ tokens' = Burst
            /\ blocked' = FALSE /\ exhausted' = FALSE
    /\ UNCHANGED <<config, degraded, mu, crashed, back, due, passed>>

\* MUTANT of Unlock: a branch that returns without it.
UnlockNot(w) ==
    /\ ~crashed /\ pc[w] \in {"unlock", "unlockAgain"}
    /\ Goto(w, IF pc[w] = "unlock" THEN "allow" ELSE "allowTwice")
    /\ UNCHANGED <<config, degraded, entry, mu, crashed,
                   back, lim, age, due, passed>>

\* localMu.Unlock: fatal when nobody holds the lock.
Release == IF mu = NoOne THEN crashed' = TRUE /\ UNCHANGED mu
                         ELSE mu' = NoOne /\ UNCHANGED crashed

Unlock(w) ==
    /\ ~crashed /\ pc[w] \in {"unlock", "unlockAgain"}
    /\ Release
    /\ Goto(w, IF pc[w] = "unlock" THEN "allow" ELSE "allowTwice")
    /\ UNCHANGED <<config, degraded, entry, back, lim, age, due, passed>>

(* --------------------------- asking the bucket -------------------------- *)

Admitted(w) ==
    /\ Goto(w, back[w])
    /\ back' = [back EXCEPT ![w] = "next"]
    /\ passed' = [passed EXCEPT ![w] = @ \cup {"bucket"}]
    /\ lim' = [lim EXCEPT ![w] = "none"]
    /\ age' = [age EXCEPT ![w] = 0]

\* Allow takes a token if there is one.  The tokens of a limiter that has been
\* replaced are not followed: it may answer either way.
Allow(w) ==
    /\ At(w, "allow") \/ At(w, "allowTwice")
    /\ \/ /\ IF lim[w] = "current"
             THEN tokens >= 1 /\ ~blocked /\ tokens' = tokens - 1
             ELSE UNCHANGED tokens
          /\ Admitted(w)
          /\ IF pc[w] = "allowTwice" THEN Release ELSE UNCHANGED <<mu, crashed>>
       \/ /\ lim[w] = "current" => tokens < 1 \/ blocked
          /\ Goto(w, IF localEnabled THEN "mark" ELSE "reserve")
          /\ UNCHANGED <<tokens, back, passed, lim, age, mu, crashed>>
    /\ UNCHANGED <<config, degraded, present, blocked, exhausted,
                   sinceUsed, due>>

\* Under the read lock: the local check marks the entry of its key.
Mark(w) ==
    /\ At(w, "mark")
    /\ mu = NoOne
    /\ exhausted' = (exhausted \/ present)
    /\ Goto(w, "reserve")
    /\ UNCHANGED <<config, degraded, present, tokens, blocked, sinceUsed,
                   mu, crashed, back, lim, age, due, passed>>

\* Reserve, to learn the delay: a token that has come since Allow is taken, and
\* otherwise one that will have come by the time the reservation is due.
Reserve(w) ==
    /\ At(w, "reserve")
    /\ Goto(w, "cancel")
    /\ IF lim[w] = "current" /\ ~blocked /\ tokens > -MaxDebt
       THEN /\ tokens' = tokens - 1
            /\ due' = [due EXCEPT ![w] = IF tokens > 1 THEN Past ELSE 1 - tokens]
       ELSE UNCHANGED <<tokens, due>>
    /\ UNCHANGED <<config, degraded, present, blocked, exhausted, sinceUsed,
                   mu, crashed, back, lim, age, passed>>

\* The reservation is not past, and nothing reserved after it is still owed.
Restorable(w) == lim[w] = "current" /\ ~blocked /\ due[w] # Past /\ due[w] = -tokens

\* Cancel, and the RateLimitError is returned.  A reservation that is due at this
\* very moment may be past or not.
Cancel(w) ==
    /\ At(w, "cancel")
    /\ \/ Restorable(w) /\ tokens' = tokens + 1
       \/ (Restorable(w) => due[w] = 0) /\ UNCHANGED tokens
    /\ Return(w)
    /\ lim' = [lim EXCEPT ![w] = "none"]
    /\ age' = [age EXCEPT ![w] = 0]
    /\ due' = [due EXCEPT ![w] = Past]
    /\ UNCHANGED <<config, degraded, present, blocked, exhausted, sinceUsed,
                   mu, crashed>>

(* ------------------------ the cleanup and the clock --------------------- *)

Forget == lim' = [w \in Workers |-> IF lim[w] = "current" THEN "old" ELSE lim[w]]

\* CleanupStale, under the write lock.  An entry that was never exhausted and
\* has a token is deleted; any other gets a limiter with burst 0 for good.
CleanupStale ==
    /\ ~crashed /\ mu = NoOne
    /\ present /\ sinceUsed > StaleAfter
    /\ Forget
    /\ IF tokens >= 1 /\ ~blocked /\ ~exhausted
       THEN present' = FALSE /\ sinceUsed' = 0 /\ UNCHANGED <<blocked, exhausted>>
       ELSE blocked' = TRUE /\ exhausted' = TRUE /\ UNCHANGED <<present, sinceUsed>>
    /\ tokens' = 0
    /\ UNCHANGED <<config, degraded, mu, crashed,
                   pc, back, age, due, passed>>

Tick ==
    /\ ~crashed
    /\ \A w \in Workers : pc[w] \in Checking => age[w] < MaxCheck
    /\ tokens' = IF ~present \/ blocked \/ tokens = Burst THEN tokens ELSE tokens + 1
    /\ sinceUsed' = IF present THEN Older(sinceUsed) ELSE 0
    /\ age' = [w \in Workers |-> IF pc[w] \in Checking THEN age[w] + 1 ELSE 0]
    /\ due' = [w \in Workers |-> IF due[w] = Past THEN Past ELSE due[w] - 1]
    /\ UNCHANGED <<config, degraded, present, blocked, exhausted,
                   mu, crashed, pc, back, lim, passed>>

Step(w) ==
    \/ Phase2(w) \/ Script(w) \/ Degrade(w) \/ Phase3(w) \/ Handled(w)
    \/ Lookup(w) \/ Lock(w) \/ Fill(w) \/ Unlock(w)
    \/ Allow(w) \/ Mark(w) \/ Reserve(w) \/ Cancel(w)

Next == CleanupStale \/ Tick \/ \E w \in Workers : Arrive(w) \/ Step(w)

Spec == Init /\ [][Next]_vars

\* Time passes, goroutines run, and sync.RWMutex does not starve.
Fairness ==
    /\ WF_vars(Tick)
    /\ \A w \in Workers :
          /\ WF_vars(Step(w))
          /\ SF_vars(Lookup(w)) /\ SF_vars(Lock(w)) /\ SF_vars(Mark(w))

(* ------------------------------ properties ------------------------------ *)

\* The cleanup never takes a limiter away under a goroutine that has got hold
\* of it and not asked it yet: tokens taken from it would count for nothing.
HeldIsCurrent == \A w \in Workers : lim[w] # "old"

\* middleware.go:198: "never fail open".  Whatever Redis answers and whenever
\* another request switches to degraded mode, a request that reaches the next
\* handler has been admitted by its bucket if the local check is on, and otherwise
\* by the fallback bucket or the global limit.  Only where no limit is configured,
\* neither local nor global, and Redis has answered at the start, there is none.
NeverFailOpen ==
    \A w \in Workers : pc[w] = "next" =>
        /\ localEnabled => "bucket" \in passed[w]
        /\ passed[w] = {} => ~localEnabled /\ ~limited /\ ~degraded

\* Every request is answered, unless the process has died.
RequestsReturn == \A w \in Workers : pc[w] # "idle" ~> pc[w] = "idle" \/ crashed

\* middleware.go:56: "All operations are thread-safe."  The code: of two first
\* requests in degraded mode, the one that finds the bucket of the other
\* unlocks localMu a second time, which is fatal for the process.
NeverDies == ~crashed
=============================================================================
