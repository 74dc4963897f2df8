------------------------- MODULE RateLimiterProofs -------------------------
(***************************************************************************)
(* Theorems about RateLimiter, for any number of goroutines, any burst and *)
(* all timeouts that satisfy BoundsAssumption.                             *)
(***************************************************************************)
EXTENDS MCRateLimiter, FiniteSetTheorems, TLAPS

(* ------------------------------ fail closed ----------------------------- *)

\* Where a request may be that has passed these limits, in degraded mode or not.
Safe(label, limits, deg) ==
    /\ localEnabled /\ label \notin Checking \cup {"idle"} => "bucket" \in limits
    /\ label = "degrade" => limited
    /\ limits = {} /\ label = "phase3" => deg \/ ~limited
    /\ limits = {} /\ label = "next" => ~limited /\ ~deg

OpenInv ==
    /\ DOMAIN pc = Workers /\ passed \in [Workers -> SUBSET {"bucket", "global"}]
    /\ back \in [Workers -> {"phase2", "phase3", "next"}]
    /\ \A w \in Workers : Safe(pc[w], passed[w], degraded)

LEMMA OpenInit == Init => OpenInv
  BY DEF Init, OpenInv, Safe

\* The configuration stays, and only where there is a global limit does a request
\* switch to degraded mode.
LEMMA ModesStay ==
    ASSUME OpenInv, [Next]_vars
    PROVE  config' = config /\ (degraded => degraded') /\ (~limited => degraded' = degraded)
<1> USE DEF vars, Return, CheckBucket, Admitted
<1>1. CASE UNCHANGED vars \/ CleanupStale \/ Tick
  BY <1>1 DEF CleanupStale, Tick
<1>2. ASSUME NEW w \in Workers, Arrive(w) \/ Phase2(w) \/ Script(w)
      PROVE  config' = config /\ (degraded => degraded') /\ (~limited => degraded' = degraded)
  BY <1>2 DEF Arrive, Phase2, Script
<1>3. ASSUME NEW w \in Workers, Degrade(w)
      PROVE  config' = config /\ limited /\ degraded'
  BY <1>3 DEF Degrade, At, OpenInv, Safe
<1>4. ASSUME NEW w \in Workers, Phase3(w) \/ Handled(w) \/ Lookup(w) \/ Lock(w) \/ Fill(w)
      PROVE  config' = config /\ degraded' = degraded
  BY <1>4 DEF Phase3, Handled, Lookup, Lock, Fill
<1>5. ASSUME NEW w \in Workers, Unlock(w) \/ Allow(w) \/ Mark(w) \/ Reserve(w) \/ Cancel(w)
      PROVE  config' = config /\ degraded' = degraded
  BY <1>5 DEF Unlock, Allow, Mark, Reserve, Cancel
<1>6. QED
  BY <1>1, <1>2, <1>3, <1>4, <1>5 DEF Next, Step

\* A request that does not move stays in order.
LEMMA OpenStay ==
    ASSUME OpenInv, [Next]_vars, NEW w \in Workers,
           pc'[w] = pc[w], passed'[w] = passed[w]
    PROVE  Safe(pc[w], passed[w], degraded)'
  BY ModesStay DEF OpenInv, Safe, config

\* A step of w moves w alone; it keeps OpenInv if w itself is still in order.
LEMMA OpenMove ==
    ASSUME OpenInv, [Next]_vars, NEW w \in Workers, NEW label, NEW limits,
           pc' = [pc EXCEPT ![w] = label], passed' = [passed EXCEPT ![w] = limits],
           back' \in [Workers -> {"phase2", "phase3", "next"}],
           limits \subseteq {"bucket", "global"},
           Safe(label, limits, degraded')
    PROVE  OpenInv'
<1>1. \A v \in Workers \ {w} : pc'[v] = pc[v] /\ passed'[v] = passed[v]
  BY DEF OpenInv
<1>2. pc'[w] = label /\ passed'[w] = limits
  BY DEF OpenInv
<1>3. Safe(pc[w], passed[w], degraded)'
  BY <1>2, ModesStay DEF Safe, config
<1>4. DOMAIN pc' = Workers /\ passed' \in [Workers -> SUBSET {"bucket", "global"}]
  BY DEF OpenInv
<1>5. QED
  BY <1>1, <1>3, <1>4, ModesStay, OpenStay DEF OpenInv

\* The same for a step that has let no new limit pass.
LEMMA OpenGoto ==
    ASSUME OpenInv, [Next]_vars, NEW w \in Workers, NEW label,
           Goto(w, label), UNCHANGED passed,
           back' \in [Workers -> {"phase2", "phase3", "next"}],
           Safe(label, passed[w], degraded')
    PROVE  OpenInv'
<1>1. passed' = [passed EXCEPT ![w] = passed[w]] /\ passed[w] \subseteq {"bucket", "global"}
  BY DEF OpenInv
<1>2. pc' = [pc EXCEPT ![w] = label]
  BY DEF Goto
<1>3. QED
  BY <1>1, <1>2, OpenMove

\* A step of w that goes on into the bucket, or is over.
LEMMA OpenRest ==
    ASSUME OpenInv, [Next]_vars, NEW w \in Workers, NEW label \in Checking,
           Goto(w, label), UNCHANGED passed,
           back' \in [Workers -> {"phase2", "phase3", "next"}]
    PROVE  OpenInv'
<1>1. Safe(label, passed[w], degraded')
  BY DEF Safe, Checking
<1>2. QED
  BY <1>1, OpenGoto

LEMMA OpenReturn ==
    ASSUME OpenInv, [Next]_vars, NEW w \in Workers, Return(w)
    PROVE  OpenInv'
<1>1. Safe("idle", {}, degraded')
  BY DEF Safe
<1>2. back' \in [Workers -> {"phase2", "phase3", "next"}]
  BY DEF Return, OpenInv
<1>3. QED
  BY <1>1, <1>2, OpenMove DEF Return, Goto

\* The three phases keep OpenInv.
LEMMA OpenPhases ==
    ASSUME OpenInv, [Next]_vars, NEW w \in Workers,
           Arrive(w) \/ Phase2(w) \/ Script(w) \/ Degrade(w) \/ Phase3(w) \/ Handled(w)
    PROVE  OpenInv'
<1> DEFINE labels == {"phase2", "phase3", "next"}
<1>1. ASSUME NEW label \in labels, CheckBucket(w, label), UNCHANGED passed
      PROVE  OpenInv'
  <2>1. back' \in [Workers -> labels]
    BY <1>1 DEF CheckBucket, OpenInv
  <2>2. QED
    BY <1>1, <2>1, OpenRest DEF CheckBucket, Checking
<1>2. UNCHANGED back => back' \in [Workers -> labels]
  BY DEF OpenInv
<1>3. Safe(pc[w], passed[w], degraded)
  BY DEF OpenInv
<1>4. CASE Arrive(w)
  <2>1. ~localEnabled => Safe("phase2", passed[w], degraded')
    BY DEF Safe
  <2>2. QED
    BY <1>1, <1>2, <1>4, <2>1, OpenGoto DEF Arrive
<1>5. CASE Phase2(w)
  <2>1. localEnabled => "bucket" \in passed[w]
    BY <1>3, <1>5 DEF Phase2, At, Safe, Checking
  <2>2. /\ Goto(w, IF degraded THEN "phase3" ELSE "script")
        /\ UNCHANGED <<degraded, passed, back>>
    BY <1>5 DEF Phase2
  <2>3. Safe(IF degraded THEN "phase3" ELSE "script", passed[w], degraded')
    BY <2>1, <2>2 DEF Safe
  <2>4. QED
    BY <1>2, <2>2, <2>3, OpenGoto
<1>6. CASE Script(w)
  <2>1. localEnabled => "bucket" \in passed[w]
    BY <1>3, <1>6 DEF Script, At, Safe, Checking
  <2>2. CASE /\ Goto(w, "phase3") /\ UNCHANGED <<passed, back>>
             /\ ~limited \/ degraded' = TRUE
    <3>1. Safe("phase3", passed[w], degraded')
      BY <2>1, <2>2 DEF Safe
    <3>2. QED
      BY <1>2, <2>2, <3>1, OpenGoto
  <2>3. CASE /\ Goto(w, "phase3") /\ UNCHANGED back
             /\ passed' = [passed EXCEPT ![w] = @ \cup {"global"}]
    <3>1. /\ Safe("phase3", passed[w] \cup {"global"}, degraded')
          /\ passed[w] \cup {"global"} \subseteq {"bucket", "global"}
      BY <2>1 DEF Safe, OpenInv
    <3>2. QED
      BY <1>2, <2>3, <3>1, OpenMove DEF Goto
  <2>4. CASE limited /\ Goto(w, "degrade") /\ UNCHANGED <<passed, back>>
    <3>1. Safe("degrade", passed[w], degraded')
      BY <2>1, <2>4 DEF Safe
    <3>2. QED
      BY <1>2, <2>4, <3>1, OpenGoto
  <2>5. QED
    BY <1>6, <2>2, <2>3, <2>4, OpenReturn DEF Script
<1>7. CASE Degrade(w)
  <2>1. localEnabled => "bucket" \in passed[w]
    BY <1>3, <1>7 DEF Degrade, At, Safe, Checking
  <2>2. Safe("phase3", passed[w], degraded')
    BY <1>7, <2>1 DEF Degrade, Safe
  <2>3. QED
    BY <1>1, <1>2, <1>7, <2>2, OpenGoto DEF Degrade
<1>8. CASE Phase3(w)
  <2>1. /\ localEnabled => "bucket" \in passed[w]
        /\ passed[w] = {} => degraded \/ ~limited
    BY <1>3, <1>8 DEF Phase3, At, Safe, Checking
  <2>2. ~(degraded /\ ~localEnabled) => Safe("next", passed[w], degraded)
    BY <2>1 DEF Safe
  <2>3. QED
    BY <1>1, <1>2, <1>8, <2>2, OpenGoto DEF Phase3
<1>9. CASE Handled(w)
  BY <1>9, OpenReturn DEF Handled
<1>10. QED
  BY <1>4, <1>5, <1>6, <1>7, <1>8, <1>9

\* Every step keeps OpenInv.
LEMMA OpenStep ==
    ASSUME OpenInv, [Next]_vars
    PROVE  OpenInv'
<1>1. CASE UNCHANGED vars \/ CleanupStale \/ Tick
  <2>1. UNCHANGED <<pc, passed, back>>
    BY <1>1 DEF CleanupStale, Tick, vars, locals
  <2>2. QED
    BY <2>1, ModesStay, OpenStay DEF OpenInv
<1>2. UNCHANGED back => back' \in [Workers -> {"phase2", "phase3", "next"}]
  BY DEF OpenInv
<1>3. ASSUME NEW w \in Workers, Lookup(w) \/ Lock(w) \/ Fill(w)
      PROVE  OpenInv'
  BY <1>2, <1>3, OpenRest DEF Lookup, Lock, Fill, Checking
<1>4. ASSUME NEW w \in Workers, Unlock(w) \/ Mark(w) \/ Reserve(w)
      PROVE  OpenInv'
  BY <1>2, <1>4, OpenRest DEF Unlock, Mark, Reserve, Checking
<1>5. ASSUME NEW w \in Workers, Allow(w)
      PROVE  OpenInv'
  <2>1. CASE Admitted(w)
    <3>1. back[w] \in {"phase2", "phase3", "next"}
      BY DEF OpenInv
    <3>2. /\ Safe(back[w], passed[w] \cup {"bucket"}, degraded')
          /\ passed[w] \cup {"bucket"} \subseteq {"bucket", "global"}
      BY <3>1 DEF Safe, OpenInv
    <3>3. back' \in [Workers -> {"phase2", "phase3", "next"}]
      BY <2>1 DEF Admitted, OpenInv
    <3>4. QED
      BY <2>1, <3>2, <3>3, OpenMove DEF Admitted, Goto
  <2>2. CASE ~Admitted(w)
    BY <1>2, <1>5, <2>2, OpenRest DEF Allow, Checking
  <2>3. QED
    BY <2>1, <2>2
<1>6. ASSUME NEW w \in Workers, Cancel(w)
      PROVE  OpenInv'
  BY <1>6, OpenReturn DEF Cancel
<1>7. QED
  BY <1>1, <1>3, <1>4, <1>5, <1>6, OpenPhases DEF Next, Step

\* A request that reaches the next handler has passed its bucket if the local
\* check is on, and otherwise a bucket or the global limit, whatever Redis answers
\* and whoever switches to degraded mode; only where neither limit is configured
\* and Redis has answered at the start has it passed none.
THEOREM FailsClosed == Spec => []NeverFailOpen
<1>1. OpenInv => NeverFailOpen
  BY DEF OpenInv, NeverFailOpen, Safe, Checking
<1>2. QED
  BY OpenInit, OpenStep, <1>1, PTL DEF Spec

(* --------------------------- the bucket in use -------------------------- *)

\* The bucket a request has got hold of is in the map, and cannot have been idle
\* for longer than the request itself and one that came before it may take:
\* the local check stores a time that was read before the locks were taken.
Fresh(w) ==
    /\ present
    /\ pc[w] \in Checking
    /\ sinceUsed <= MaxCheck + age[w]

HeldInv ==
    /\ DOMAIN pc = Workers /\ DOMAIN lim = Workers
    /\ age \in [Workers -> 0..MaxCheck]
    /\ sinceUsed \in Nat
    /\ \A w \in Workers : lim[w] # "old"
    /\ \A w \in Workers : lim[w] = "current" => Fresh(w)

LEMMA HeldInit == Init => HeldInv
  BY BoundsAssumption DEF Init, HeldInv

\* A step of w that leaves the map entry alone.
LEMMA HeldMove ==
    ASSUME HeldInv, NEW w \in Workers, NEW label,
           pc' = [pc EXCEPT ![w] = label],
           UNCHANGED <<present, sinceUsed, lim, age>>,
           lim[w] = "current" => label \in Checking
    PROVE  HeldInv'
<1>1. \A v \in Workers : v # w => pc'[v] = pc[v]
  BY DEF HeldInv
<1>2. pc'[w] = label /\ DOMAIN pc' = Workers
  BY DEF HeldInv
<1>3. QED
  BY <1>1, <1>2 DEF HeldInv, Fresh

\* A step by which w lets go of its limiter.
LEMMA HeldLeave ==
    ASSUME HeldInv, NEW w \in Workers, NEW label,
           pc' = [pc EXCEPT ![w] = label],
           lim' = [lim EXCEPT ![w] = "none"],
           age' = [age EXCEPT ![w] = 0],
           UNCHANGED <<present, sinceUsed>>
    PROVE  HeldInv'
<1>1. \A v \in Workers : v # w => pc'[v] = pc[v] /\ lim'[v] = lim[v] /\ age'[v] = age[v]
  BY DEF HeldInv
<1>2. lim'[w] = "none"
  BY DEF HeldInv
<1>3. DOMAIN pc' = Workers /\ DOMAIN lim' = Workers /\ age' \in [Workers -> 0..MaxCheck]
  BY BoundsAssumption DEF HeldInv
<1>4. QED
  BY <1>1, <1>2, <1>3 DEF HeldInv, Fresh

\* A step of w that gets hold of the bucket in the map and touches it.
LEMMA HeldTouch ==
    ASSUME HeldInv, NEW w \in Workers, NEW label \in Checking,
           pc' = [pc EXCEPT ![w] = label], lim' = [lim EXCEPT ![w] = "current"],
           present', Touch(w)
    PROVE  HeldInv'
<1>1. DOMAIN pc' = Workers /\ DOMAIN lim' = Workers /\ age' \in [Workers -> 0..MaxCheck]
  BY BoundsAssumption DEF HeldInv, Touch
<1>2. sinceUsed' \in 0..MaxCheck
  BY BoundsAssumption DEF HeldInv, Touch
<1>3. \A v \in Workers : sinceUsed' <= MaxCheck + age'[v]
  BY <1>1, <1>2, BoundsAssumption
<1>4. \A v \in Workers : lim'[v] # "old"
  BY DEF HeldInv
<1>5. \A v \in Workers : lim'[v] = "current" => pc'[v] \in Checking
  BY DEF HeldInv, Fresh
<1>6. QED
  BY <1>1, <1>2, <1>3, <1>4, <1>5 DEF HeldInv, Fresh

\* The cleanup finds no bucket that somebody has got hold of.
LEMMA HeldCleanup ==
    ASSUME HeldInv, CleanupStale
    PROVE  HeldInv'
<1>1. \A w \in Workers : lim[w] # "current"
  BY BoundsAssumption DEF HeldInv, Fresh, CleanupStale
<1>2. lim' = [w \in Workers |-> lim[w]]
  BY <1>1 DEF CleanupStale, Forget
<1>3. sinceUsed' \in Nat
  <2>1. sinceUsed' = 0 \/ sinceUsed' = sinceUsed
    BY DEF CleanupStale
  <2>2. QED
    BY <2>1 DEF HeldInv
<1>4. UNCHANGED <<pc, age>>
  BY DEF CleanupStale
<1>5. QED
  BY <1>1, <1>2, <1>3, <1>4 DEF HeldInv

\* A request and the idle time of its bucket grow old together.
LEMMA HeldTick ==
    ASSUME HeldInv, Tick
    PROVE  HeldInv'
<1>1. age' \in [Workers -> 0..MaxCheck]
  BY BoundsAssumption DEF Tick, HeldInv
<1>2. sinceUsed' \in Nat /\ (present => sinceUsed' <= sinceUsed + 1)
  BY BoundsAssumption DEF Tick, HeldInv, Older, AgeCap
<1>3. UNCHANGED <<present, pc, lim>>
  BY DEF Tick
<1>4. ASSUME NEW w \in Workers, lim[w] = "current"
      PROVE  Fresh(w)'
  <2>1. age'[w] = age[w] + 1
    BY <1>4 DEF Tick, HeldInv, Fresh
  <2>2. QED
    BY <1>2, <1>3, <1>4, <2>1, BoundsAssumption DEF HeldInv, Fresh
<1>5. QED
  BY <1>1, <1>2, <1>3, <1>4 DEF HeldInv

\* Every step keeps HeldInv.
LEMMA HeldStep ==
    ASSUME HeldInv, [Next]_vars
    PROVE  HeldInv'
<1>1. CASE UNCHANGED vars
  BY <1>1 DEF vars, entry, locals, HeldInv, Fresh
<1>2. ASSUME NEW w \in Workers,
             Arrive(w) \/ Phase2(w) \/ Script(w) \/ Degrade(w) \/ Phase3(w) \/ Handled(w)
      PROVE  HeldInv'
  <2>1. pc[w] \notin Checking /\ UNCHANGED <<lim, age, entry>>
    BY <1>2 DEF Arrive, Phase2, Script, Degrade, Phase3, Handled, At, Checking
  <2>2. \E label : pc' = [pc EXCEPT ![w] = label]
    BY <1>2 DEF Arrive, Phase2, Script, Degrade, Phase3, Handled, CheckBucket, Return, Goto
  <2>3. lim[w] # "current"
    BY <2>1 DEF HeldInv, Fresh
  <2>4. QED
    BY <2>1, <2>2, <2>3, HeldMove DEF entry
<1>3. ASSUME NEW w \in Workers, Lookup(w)
      PROVE  HeldInv'
  <2>1. CASE present
    BY <1>3, <2>1, HeldTouch DEF Lookup, Goto, Checking
  <2>2. CASE ~present
    BY <1>3, <2>2, HeldMove DEF Lookup, Goto, Checking
  <2>3. QED
    BY <2>1, <2>2
<1>4. ASSUME NEW w \in Workers, Fill(w)
      PROVE  HeldInv'
  BY <1>4, HeldTouch DEF Fill, Goto, Checking
<1>5. ASSUME NEW w \in Workers, Lock(w) \/ Unlock(w) \/ Mark(w) \/ Reserve(w)
      PROVE  HeldInv'
  BY <1>5, HeldMove DEF Lock, Unlock, Mark, Reserve, Goto, Checking, entry
<1>6. ASSUME NEW w \in Workers, Allow(w)
      PROVE  HeldInv'
  <2>1. CASE Admitted(w)
    BY <1>6, <2>1, HeldLeave DEF Allow, Admitted, Goto
  <2>2. CASE ~Admitted(w)
    BY <1>6, <2>2, HeldMove DEF Allow, Goto, Checking
  <2>3. QED
    BY <2>1, <2>2
<1>7. ASSUME NEW w \in Workers, Cancel(w)
      PROVE  HeldInv'
  BY <1>7, HeldLeave DEF Cancel, Return, Goto
<1>8. QED
  BY <1>1, <1>2, <1>3, <1>4, <1>5, <1>6, <1>7, HeldCleanup, HeldTick DEF Next, Step

\* The cleanup never takes a bucket away under a request that has got hold of it,
\* as long as LimiterTTL is long enough for two looks at the bucket.
THEOREM BucketStays == Spec => []HeldIsCurrent
<1>1. HeldInv => HeldIsCurrent
  BY DEF HeldInv, HeldIsCurrent
<1>2. QED
  BY HeldInit, HeldStep, <1>1, PTL DEF Spec

(* ------------------ one bucket's worth of admissions -------------------- *)

Deciding == {"unlock", "unlockAgain", "allow", "allowTwice", "mark", "reserve", "cancel"}

\* A reservation can give back a token that the ideal bucket has by then.
Owed(w) ==
    /\ pc[w] = "cancel" /\ ~blocked
    /\ due[w] >= 0 /\ due[w] <= -tokens
    /\ 1 - due[w] <= allowance

\* The bucket in the map never has more than the ideal one.  After an admission
\* the ideal one fills up before the bucket can become idle enough to be replaced
\* by a full one.
AccountInv ==
    /\ tokens \in Int /\ allowance \in 0..Burst
    /\ due \in [Workers -> Int]
    /\ back \in [Workers -> {"phase2", "phase3", "next"}]
    /\ \A w \in Workers : pc[w] \in Deciding => lim[w] = "current"
    /\ ~present => allowance = Burst
    /\ allowance = Burst \/ sinceUsed <= allowance + 2 * MaxCheck
    /\ present /\ ~blocked => tokens <= allowance
    /\ \A w \in Workers : due[w] # Past => Owed(w)
    /\ \A v, w \in Workers : v # w /\ due[v] # Past => due[v] # due[w]

LEMMA AccountInit == MCInit => AccountInv
  BY BoundsAssumption DEF MCInit, Init, AccountInv, Deciding, Past

\* Nobody but the goroutine that moves is admitted.
LEMMA OneAdmission ==
    ASSUME HeldInv, AccountInv, NEW w \in Workers,
           \A v \in Workers \ {w} : lim'[v] = lim[v]
    PROVE  Admits \subseteq {w}
  BY DEF AccountInv, Admits, Deciding

\* A step of w that does not ask the bucket.
LEMMA AccountMove ==
    ASSUME HeldInv, AccountInv, NEW w \in Workers, NEW label,
           pc' = [pc EXCEPT ![w] = label],
           pc[w] # "cancel",
           label \in Deciding => lim[w] = "current",
           back' \in [Workers -> {"phase2", "phase3", "next"}],
           UNCHANGED <<present, tokens, blocked, sinceUsed, lim, due, allowance>>
    PROVE  AccountInv'
<1>1. \A v \in Workers : v # w => pc'[v] = pc[v]
  BY DEF HeldInv
<1>2. pc'[w] = label
  BY DEF HeldInv
<1>3. due[w] = Past
  BY DEF AccountInv, Owed
<1>4. \A v \in Workers : due'[v] # Past => Owed(v)'
  BY <1>1, <1>3 DEF AccountInv, Owed
<1>5. QED
  BY <1>1, <1>2, <1>4 DEF AccountInv

\* A step of w that gets hold of the bucket: it may be a new, full one.
LEMMA AccountTouch ==
    ASSUME HeldInv, AccountInv, NEW w \in Workers, NEW label \in Deciding \ {"cancel"},
           pc[w] # "cancel",
           pc' = [pc EXCEPT ![w] = label], lim' = [lim EXCEPT ![w] = "current"],
           Touch(w), present',
           IF present THEN UNCHANGED <<tokens, blocked>> ELSE tokens' = Burst /\ ~blocked',
           UNCHANGED <<back, due, allowance>>
    PROVE  AccountInv'
<1>1. \A v \in Workers : v # w => pc'[v] = pc[v] /\ lim'[v] = lim[v]
  BY DEF HeldInv
<1>2. pc'[w] = label /\ lim'[w] = "current"
  BY DEF HeldInv
<1>3. due[w] = Past
  BY DEF AccountInv, Owed
<1>4. sinceUsed' <= allowance + 2 * MaxCheck
  BY BoundsAssumption DEF HeldInv, AccountInv, Touch
<1>5. tokens' \in Int /\ (~blocked' => tokens' <= allowance)
  BY BoundsAssumption DEF AccountInv
<1>6. ASSUME NEW v \in Workers, due[v] # Past
      PROVE  Owed(v)'
  <2>1. v # w /\ Owed(v)
    BY <1>3, <1>6 DEF AccountInv
  <2>2. present
    BY <1>6, <2>1 DEF AccountInv, Owed, HeldInv, Fresh, Deciding
  <2>3. QED
    BY <1>1, <2>1, <2>2 DEF Owed
<1>7. QED
  BY <1>1, <1>2, <1>4, <1>5, <1>6 DEF AccountInv

\* The cleanup finds nothing owed, and the ideal bucket full.
LEMMA AccountCleanup ==
    ASSUME HeldInv, AccountInv, CleanupStale, UNCHANGED allowance
    PROVE  AccountInv'
<1>1. \A w \in Workers : lim[w] # "current"
  BY BoundsAssumption DEF HeldInv, Fresh, CleanupStale
<1>2. \A w \in Workers : due[w] = Past
  BY <1>1 DEF AccountInv, Owed, Deciding
<1>3. allowance = Burst
  BY BoundsAssumption DEF HeldInv, AccountInv, CleanupStale
<1>4. UNCHANGED <<pc, back, due>> /\ tokens' = 0
  BY DEF CleanupStale
<1>5. \A w \in Workers : pc[w] \notin Deciding
  BY <1>1 DEF AccountInv
<1>6. QED
  BY <1>2, <1>3, <1>4, <1>5, BoundsAssumption DEF AccountInv

\* A token for both buckets, unless they are full, and what is owed comes nearer.
LEMMA AccountTick ==
    ASSUME HeldInv, AccountInv, Tick,
           allowance' = IF allowance < Burst THEN allowance + 1 ELSE Burst
    PROVE  AccountInv'
<1>1. UNCHANGED <<present, blocked, pc, back, lim>>
  BY DEF Tick
<1>2. tokens' \in Int /\ allowance' \in 0..Burst /\ due' \in [Workers -> Int]
  BY BoundsAssumption DEF Tick, AccountInv, Past
<1>3. allowance' = Burst \/ sinceUsed' <= allowance' + 2 * MaxCheck
  BY BoundsAssumption DEF Tick, AccountInv, HeldInv, Older, AgeCap
<1>4. present /\ ~blocked => tokens' <= allowance'
  <2> SUFFICES ASSUME present, ~blocked PROVE tokens' <= allowance'
    OBVIOUS
  <2>1. tokens' = IF tokens = Burst THEN tokens ELSE tokens + 1
    BY DEF Tick
  <2>2. tokens <= allowance /\ tokens \in Int /\ allowance \in 0..Burst
    BY DEF AccountInv
  <2>3. QED
    BY <2>1, <2>2, BoundsAssumption
<1>5. ASSUME NEW w \in Workers, due'[w] # Past
      PROVE  Owed(w)' /\ due[w] # Past /\ due'[w] = due[w] - 1
  <2>1. due[w] # Past /\ due'[w] = due[w] - 1
    BY <1>5 DEF Tick
  <2>2. Owed(w)
    BY <2>1 DEF AccountInv
  <2>3. present
    BY <2>2 DEF AccountInv, Owed, HeldInv, Fresh, Deciding
  <2>4. tokens' = tokens + 1
    BY <2>2, <2>3, BoundsAssumption DEF Tick, Owed, AccountInv
  <2>5. QED
    BY <1>1, <1>5, <2>1, <2>2, <2>4, BoundsAssumption DEF Owed, AccountInv, Past
<1>6. \A v, w \in Workers : v # w /\ due'[v] # Past => due'[v] # due'[w]
  <2> SUFFICES ASSUME NEW v \in Workers, NEW w \in Workers, v # w, due'[v] # Past,
                      due'[v] = due'[w]
               PROVE  FALSE
    OBVIOUS
  <2>1. due[v] # Past /\ due[v] - 1 = due[w] - 1
    BY <1>5
  <2>2. QED
    BY <2>1 DEF AccountInv
<1>7. ~present => allowance' = Burst
  BY BoundsAssumption DEF AccountInv
<1>8. QED
  BY <1>1, <1>2, <1>3, <1>4, <1>5, <1>6, <1>7 DEF AccountInv

\* The bucket admits: it had a token, so nothing is owed, and the request is
\* younger than what the ideal bucket needs to fill up again.
LEMMA AccountAdmit ==
    ASSUME HeldInv, AccountInv, NEW w \in Workers, Allow(w), Admitted(w),
           allowance' = allowance - 1
    PROVE  AccountInv'
<1>1. lim[w] = "current"
  BY DEF Allow, At, AccountInv, Deciding
<1>2. present /\ sinceUsed <= 2 * MaxCheck
  BY <1>1, BoundsAssumption DEF HeldInv, Fresh
<1>3. tokens >= 1 /\ ~blocked /\ tokens' = tokens - 1
  BY <1>1 DEF Allow, Admitted, HeldInv
<1>4. allowance >= 1
  BY <1>2, <1>3 DEF AccountInv
<1>5. \A v \in Workers : due[v] = Past
  BY <1>3 DEF AccountInv, Owed
<1>6. \A v \in Workers : v # w => pc'[v] = pc[v] /\ lim'[v] = lim[v]
  BY DEF HeldInv, Admitted, Goto
<1>7. pc'[w] \notin Deciding /\ back' \in [Workers -> {"phase2", "phase3", "next"}]
  BY DEF HeldInv, AccountInv, Admitted, Goto, Deciding
<1>8. UNCHANGED <<present, blocked, sinceUsed, due>>
  BY DEF Allow
<1>9. tokens' \in Int /\ allowance' \in 0..Burst /\ tokens' <= allowance'
  BY <1>2, <1>3, <1>4, BoundsAssumption DEF AccountInv
<1>10. sinceUsed' <= allowance' + 2 * MaxCheck
  BY <1>2, <1>4, <1>8, BoundsAssumption DEF AccountInv, HeldInv
<1>11. \A v \in Workers : pc'[v] \in Deciding => lim'[v] = "current"
  BY <1>6, <1>7 DEF AccountInv
<1>12. due' \in [Workers -> Int] /\ \A v \in Workers : due'[v] = Past
  BY <1>5, <1>8 DEF AccountInv
<1>13. QED
  BY <1>2, <1>7, <1>8, <1>9, <1>10, <1>11, <1>12 DEF AccountInv

\* A reservation owes the token after those that are owed already.
LEMMA AccountReserve ==
    ASSUME HeldInv, AccountInv, NEW w \in Workers, Reserve(w), UNCHANGED allowance
    PROVE  AccountInv'
<1>1. /\ pc[w] = "reserve" /\ pc' = [pc EXCEPT ![w] = "cancel"]
      /\ UNCHANGED <<present, blocked, sinceUsed, lim, back>>
  BY DEF Reserve, At, Goto
<1>2. lim[w] = "current" /\ due[w] = Past
  BY <1>1 DEF AccountInv, Owed, Deciding
<1>3. \A v \in Workers : v # w => pc'[v] = pc[v]
  BY <1>1 DEF HeldInv
<1>4. pc'[w] = "cancel"
  BY <1>1 DEF HeldInv
<1>5. CASE UNCHANGED <<tokens, due>>
  BY <1>1, <1>2, <1>3, <1>4, <1>5 DEF AccountInv, Owed, Deciding
<1>6. CASE /\ ~blocked /\ tokens' = tokens - 1
           /\ due' = [due EXCEPT ![w] = IF tokens > 1 THEN Past ELSE 1 - tokens]
  <2>1. \A v \in Workers : v # w => due'[v] = due[v]
    BY DEF AccountInv, Reserve
  <2>2. due'[w] = (IF tokens > 1 THEN Past ELSE 1 - tokens) /\ due' \in [Workers -> Int]
    BY <1>6 DEF AccountInv, Past
  <2>3. present
    BY <1>2 DEF HeldInv, Fresh
  <2>4. ASSUME NEW v \in Workers, due'[v] # Past
        PROVE  Owed(v)'
    BY <1>1, <1>3, <1>4, <1>6, <2>1, <2>2, <2>3, <2>4 DEF AccountInv, Owed, Past
  <2>5. ASSUME NEW u \in Workers, NEW v \in Workers, u # v, due'[u] # Past
        PROVE  due'[u] # due'[v]
    BY <1>6, <2>1, <2>2, <2>5 DEF AccountInv, Owed, Past
  <2>6. QED
    BY <1>1, <1>2, <1>3, <1>4, <1>6, <2>2, <2>4, <2>5 DEF AccountInv, Deciding
<1>7. QED
  BY <1>5, <1>6 DEF Reserve

\* A token given back is one the ideal bucket has.
LEMMA AccountCancel ==
    ASSUME HeldInv, AccountInv, NEW w \in Workers, Cancel(w), UNCHANGED allowance
    PROVE  AccountInv'
<1>1. /\ pc' = [pc EXCEPT ![w] = "idle"] /\ lim' = [lim EXCEPT ![w] = "none"]
      /\ due' = [due EXCEPT ![w] = Past] /\ back' = [back EXCEPT ![w] = "next"]
      /\ UNCHANGED <<present, blocked, sinceUsed>>
  BY DEF Cancel, Return, Goto
<1>2. \A v \in Workers : v # w => pc'[v] = pc[v] /\ lim'[v] = lim[v] /\ due'[v] = due[v]
  BY <1>1 DEF HeldInv, AccountInv
<1>3. /\ pc'[w] = "idle" /\ due'[w] = Past /\ due' \in [Workers -> Int]
      /\ back' \in [Workers -> {"phase2", "phase3", "next"}]
  BY <1>1 DEF HeldInv, AccountInv, Past
<1>4. CASE Restorable(w) /\ tokens' = tokens + 1
  <2>1. Owed(w) /\ due[w] = -tokens
    BY <1>4 DEF Restorable, AccountInv
  <2>2. ASSUME NEW v \in Workers, due'[v] # Past
        PROVE  Owed(v)'
    <3>1. v # w /\ due'[v] = due[v] /\ due[v] # due[w] /\ Owed(v)
      BY <1>2, <1>3, <2>2 DEF AccountInv
    <3>2. QED
      BY <1>1, <1>2, <1>4, <2>1, <3>1 DEF Owed, AccountInv
  <2>3. \A u, v \in Workers : u # v /\ due'[u] # Past => due'[u] # due'[v]
    BY <1>2, <1>3 DEF AccountInv
  <2>4. QED
    BY <1>1, <1>2, <1>3, <1>4, <2>1, <2>2, <2>3 DEF AccountInv, Deciding, Owed
<1>5. CASE UNCHANGED tokens
  BY <1>1, <1>2, <1>3, <1>5 DEF AccountInv, Owed, Deciding
<1>6. QED
  BY <1>4, <1>5 DEF Cancel

\* Every step keeps the account.
LEMMA AccountStep ==
    ASSUME HeldInv, AccountInv, [MCNext]_<<vars, allowance>>
    PROVE  AccountInv'
<1>1. CASE UNCHANGED <<vars, allowance>>
  BY <1>1 DEF vars, entry, locals, AccountInv, Owed
<1>2. CASE Tick /\ allowance' = IF allowance < Burst THEN allowance + 1 ELSE Burst
  BY <1>2, AccountTick
<1>3. ASSUME CleanupStale, allowance' = allowance - Cardinality(Admits)
      PROVE  AccountInv'
  <2>1. Admits = {}
    BY <1>3 DEF CleanupStale, Forget, Admits, AccountInv, Deciding
  <2>2. allowance' = allowance
    BY <1>3, <2>1, FS_EmptySet DEF AccountInv
  <2>3. QED
    BY <1>3, <2>2, AccountCleanup
<1>4. ASSUME NEW w \in Workers, Arrive(w) \/ Step(w),
             allowance' = allowance - Cardinality(Admits)
      PROVE  AccountInv'
  <2>1. \A v \in Workers \ {w} : lim'[v] = lim[v]
    BY <1>4
    DEF Arrive, Step, Phase2, Script, Degrade, Phase3, Handled, Lookup, Lock, Fill, Unlock,
        Allow, Admitted, Mark, Reserve, Cancel, HeldInv
  <2>2. Admits \subseteq {w}
    BY <2>1, OneAdmission
  <2>3. CASE Allow(w) /\ Admitted(w)
    <3>1. w \in Admits
      BY <2>3 DEF Admits, Allow, Admitted, At, HeldInv
    <3>2. Cardinality(Admits) = 1
      BY <2>2, <3>1, FS_Singleton
    <3>3. QED
      BY <1>4, <2>3, <3>2, AccountAdmit
  <2>4. CASE ~(Allow(w) /\ Admitted(w))
    <3>1. ~(pc[w] \in {"allow", "allowTwice"} /\ lim'[w] = "none")
      <4>1. CASE Allow(w)
        BY <2>4, <4>1 DEF Allow, At, AccountInv, Deciding
      <4>2. CASE ~Allow(w)
        BY <1>4, <4>2
        DEF Arrive, Step, Phase2, Script, Degrade, Phase3, Handled, Lookup, Lock, Fill,
            Unlock, Mark, Reserve, Cancel, At
      <4>3. QED
        BY <4>1, <4>2
    <3>2. allowance' = allowance
      <4>1. Admits = {}
        BY <2>2, <3>1 DEF Admits
      <4>2. QED
        BY <1>4, <4>1, FS_EmptySet DEF AccountInv
    <3>3. CASE Reserve(w) \/ Cancel(w)
      BY <3>2, <3>3, AccountReserve, AccountCancel
    <3>4. CASE (Lookup(w) /\ present) \/ Fill(w)
      BY <3>2, <3>4, AccountTouch DEF Lookup, Fill, Goto, At, Deciding
    <3>5. CASE \/ Arrive(w) \/ Phase2(w) \/ Script(w) \/ Degrade(w) \/ Phase3(w)
               \/ Handled(w) \/ (Lookup(w) /\ ~present) \/ Lock(w)
      <4>1. PICK label : pc' = [pc EXCEPT ![w] = label] /\ label \notin Deciding
        BY <3>5
        DEF Arrive, Phase2, Script, Degrade, Phase3, Handled, Lookup, Lock,
            CheckBucket, Return, Goto, Deciding
      <4>2. pc[w] # "cancel"
        BY <3>5 DEF Arrive, Phase2, Script, Degrade, Phase3, Handled, Lookup, Lock, At
      <4>3. back' \in [Workers -> {"phase2", "phase3", "next"}]
        BY <3>5
        DEF Arrive, Phase2, Script, Degrade, Phase3, Handled, Lookup, Lock,
            CheckBucket, Return, AccountInv
      <4>4. UNCHANGED <<present, tokens, blocked, sinceUsed, lim, due>>
        BY <3>5 DEF Arrive, Phase2, Script, Degrade, Phase3, Handled, Lookup, Lock, entry
      <4>5. QED
        BY <3>2, <4>1, <4>2, <4>3, <4>4, AccountMove
    <3>6. CASE Unlock(w) \/ Mark(w) \/ (Allow(w) /\ ~Admitted(w))
      <4>1. PICK label : pc' = [pc EXCEPT ![w] = label]
        BY <3>6 DEF Unlock, Mark, Allow, Goto
      <4>2. pc[w] \in Deciding \ {"cancel"} /\ lim[w] = "current"
        BY <3>6 DEF Unlock, Mark, Allow, At, Deciding, AccountInv
      <4>3. UNCHANGED <<present, tokens, blocked, sinceUsed, lim, due, back>>
        BY <3>6 DEF Unlock, Mark, Allow, entry
      <4>4. back' \in [Workers -> {"phase2", "phase3", "next"}]
        BY <4>3 DEF AccountInv
      <4>5. QED
        BY <3>2, <4>1, <4>2, <4>3, <4>4, AccountMove
    <3>7. QED
      BY <1>4, <2>4, <3>3, <3>4, <3>5, <3>6 DEF Step
  <2>5. QED
    BY <2>3, <2>4
<1>5. QED
  BY <1>1, <1>2, <1>3, <1>4 DEF MCNext

\* Admissions conform to one token bucket, for any number of goroutines and any
\* burst, however often the bucket is replaced and tokens are reserved.
THEOREM AdmissionsConform == MCSpec => []Conforms
<1>1. MCInit => HeldInv /\ AccountInv
  BY HeldInit, AccountInit DEF MCInit
<1>2. HeldInv /\ AccountInv /\ [MCNext]_<<vars, allowance>> => HeldInv' /\ AccountInv'
  <2>1. [MCNext]_<<vars, allowance>> => [Next]_vars
    BY DEF MCNext, Next
  <2>2. QED
    BY <2>1, HeldStep, AccountStep
<1>3. AccountInv => Conforms
  BY DEF AccountInv, Conforms
<1>4. QED
  BY <1>1, <1>2, <1>3, PTL DEF MCSpec
=============================================================================
