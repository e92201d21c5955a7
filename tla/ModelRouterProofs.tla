-------------------------- MODULE ModelRouterProofs --------------------------
(* Proofs about ModelRouter, for any calls, costs, thresholds and delays.  *)
EXTENDS ModelRouter, FiniteSetTheorems, WellFoundedInduction, TLAPS

\* What a cache or a call may hold.
LEMMA Constants ==
  /\ FailureThreshold \in Nat \ {0} /\ Cooldown \in Nat /\ StatusTTL \in Nat \ {0}
  /\ DegradeAt \in Nat \ {0} /\ HardStopAt \in Nat \ {0}
  /\ MaxLatency \in Nat /\ MaxFaults \in Nat /\ MaxClock \in Nat
  /\ Kind \in [Calls -> Kinds] /\ Cost \in [Kinds -> Nat]
  /\ Unlimited \in Status /\ \A u \in Nat : Flags(u) \in Status
BY RouterAssumption DEF Unlimited, Status, Flags

LEMMA DispatchType ==
  ASSUME TypeOK, NEW c \in Calls, NEW d \in BOOLEAN, Dispatch(c, d)
  PROVE  stage' \in [Calls -> Stage] /\ tier' \in [Calls -> Kinds]
<1>1. "local" \in Stage /\ "vendor" \in Stage
  BY DEF Stage, Waiting
<1>2. Kind[c] \in Kinds /\ "standard" \in Kinds
  BY Constants DEF Kinds
<1>. QED
  BY <1>1, <1>2 DEF Dispatch, Go, TypeOK

LEMMA DecideType ==
  ASSUME TypeOK, NEW c \in Calls, NEW s \in Status, Decide(c, s)
  PROVE  stage' \in [Calls -> Stage] /\ tier' \in [Calls -> Kinds]
<1>1. CASE Go(c, "exhausted") /\ UNCHANGED tier
  BY <1>1 DEF Go, TypeOK, Stage, Over
<1>2. CASE Dispatch(c, s.degraded_mode)
  BY <1>2, DispatchType DEF Status
<1>. QED
  BY <1>1, <1>2 DEF Decide

LEMMA FaultType ==
  ASSUME TypeOK, Fault PROVE faults' \in 0 .. MaxFaults
BY Constants DEF Fault, TypeOK

LEMMA TypeStep ==
  ASSUME TypeOK, [Next]_vars
  PROVE  TypeOK'
<1>. USE Constants
<1>1. ASSUME NEW c \in Calls, Begin(c) PROVE TypeOK'
  <2>1. stage' \in [Calls -> Stage] /\ tier' \in [Calls -> Kinds]
    <3>1. CASE Go(c, "select_stop") /\ UNCHANGED tier
      BY <3>1 DEF Go, TypeOK, Stage
    <3>. QED
      BY <1>1, <3>1, DecideType DEF Begin, TypeOK
  <2>. QED
    BY <1>1, <2>1 DEF Begin, TypeOK, budget, breaker
<1>2. ASSUME NEW c \in Calls, Select(c) PROVE TypeOK'
  <2>1. stage' \in [Calls -> Stage]
    BY <1>2 DEF Select, Go, TypeOK, Stage, Reading
  <2>2. Flags(used) \in Status
    BY DEF TypeOK
  <2>3. read' \in [Calls -> [status : Status, at : 0 .. MaxClock]]
    BY <1>2, <2>2 DEF Select, TypeOK
  <2>. QED
    BY <1>2, <2>1, <2>3 DEF Select, TypeOK, budget, breaker
<1>3. ASSUME NEW c \in Calls, Remember(c) PROVE TypeOK'
  <2>1. read[c].status \in Status /\ read[c].status.degraded_mode \in BOOLEAN
    BY DEF TypeOK, Status
  <2>2. stage' \in [Calls -> Stage] /\ tier' \in [Calls -> Kinds]
    BY <1>3, <2>1, DecideType, DispatchType DEF Remember
  <2>3. cache' \in [status : Status, cached_at : -1 .. MaxClock]
    BY <1>3, <2>1 DEF Remember, TypeOK
  <2>. QED
    BY <1>3, <2>2, <2>3 DEF Remember, TypeOK, budget, breaker
<1>4. ASSUME NEW c \in Calls, SelectFails(c) PROVE TypeOK'
  <2>1. cache.status.degraded_mode \in BOOLEAN
    BY DEF TypeOK, Status
  <2>2. stage' \in [Calls -> Stage] /\ tier' \in [Calls -> Kinds]
    <3>1. CASE Go(c, "select_degraded") /\ UNCHANGED tier
      BY <3>1 DEF Go, TypeOK, Stage
    <3>. QED
      BY <1>4, <2>1, <3>1, DispatchType DEF SelectFails
  <2>. QED
    BY <1>4, <2>2, FaultType DEF SelectFails, TypeOK, budget, breaker
<1>5. ASSUME NEW c \in Calls, VendorAnswers(c) \/ VendorFails(c) PROVE TypeOK'
  <2>1. stage' \in [Calls -> Stage]
    BY <1>5 DEF VendorAnswers, VendorFails, Go, TypeOK, Stage, Waiting
  <2>2. /\ consecutive_failures' \in Nat /\ open_until' \in Nat
        /\ failedAt' \in 0 .. MaxClock
    BY <1>5 DEF VendorAnswers, VendorFails, TypeOK, breaker
  <2>. QED
    BY <1>5, <2>1, <2>2 DEF VendorAnswers, VendorFails, TypeOK, budget, breaker
<1>6. ASSUME NEW c \in Calls, ChargeCommits(c) PROVE TypeOK'
  <2>1. stage' \in [Calls -> Stage]
    BY <1>6 DEF ChargeCommits, Go, TypeOK, Stage, Reading
  <2>2. tier[c] \in Kinds /\ Cost[tier[c]] \in Nat
    BY DEF TypeOK
  <2>3. used' \in Nat /\ Flags(used') \in Status
    BY <1>6, <2>2 DEF ChargeCommits, Charge, TypeOK
  <2>4. read' \in [Calls -> [status : Status, at : 0 .. MaxClock]]
    BY <1>6, <2>3 DEF ChargeCommits, TypeOK
  <2>5. credit_usage_log' \subseteq [call : Calls, tier : Kinds]
    BY <1>6, <2>2 DEF ChargeCommits, Charge, TypeOK
  <2>6. {degradedAt', stoppedAt'} \subseteq (0 .. MaxClock) \cup {Never}
    BY <1>6 DEF ChargeCommits, Charge, TypeOK
  <2>. QED
    BY <1>6, <2>1, <2>3, <2>4, <2>5, <2>6 DEF ChargeCommits, TypeOK, breaker
<1>7. ASSUME NEW c \in Calls, ChargeReturns(c) PROVE TypeOK'
  <2>1. stage' \in [Calls -> Stage]
    BY <1>7 DEF ChargeReturns, Go, TypeOK, Stage, Over
  <2>2. cache' \in [status : Status, cached_at : -1 .. MaxClock]
    BY <1>7 DEF ChargeReturns, TypeOK
  <2>. QED
    BY <1>7, <2>1, <2>2 DEF ChargeReturns, TypeOK, budget, breaker
<1>8. ASSUME NEW c \in Calls, ChargeFails(c) \/ LocalReturns(c) PROVE TypeOK'
  <2>1. stage' \in [Calls -> Stage]
    BY <1>8 DEF ChargeFails, LocalReturns, Go, TypeOK, Stage, Over
  <2>2. faults' \in 0 .. MaxFaults
    BY <1>8, FaultType DEF ChargeFails, LocalReturns, TypeOK
  <2>. QED
    BY <1>8, <2>1, <2>2 DEF ChargeFails, LocalReturns, TypeOK, budget, breaker
<1>9. CASE Tick
  BY <1>9 DEF Tick, TypeOK, budget, breaker
<1>10. CASE UNCHANGED vars
  BY <1>10 DEF vars, TypeOK, budget, breaker
<1>. QED
  BY <1>1, <1>2, <1>3, <1>4, <1>5, <1>6, <1>7, <1>8, <1>9, <1>10 DEF Next
\* Every variable keeps its type: no negative failure count, no status without an
\* age, in any interleaving of calls (model_router.py, budget.py).
THEOREM TypeCorrect == Spec => []TypeOK
<1>1. Init => TypeOK
  BY Constants DEF Init, TypeOK, Stage, NoStatus, Never
<1>2. TypeOK /\ [Next]_vars => TypeOK'
  BY TypeStep
<1>. QED
  BY <1>1, <1>2, PTL DEF Spec

-----------------------------------------------------------------------------
(* What a status says, and for how long.                                   *)

\* Credits are only used, and each threshold is reached once.
LEMMA BudgetGrows ==
  ASSUME TypeOK, [Next]_vars
  PROVE  /\ used <= used' /\ clock <= clock'
         /\ degradedAt' \in {degradedAt, clock} /\ stoppedAt' \in {stoppedAt, clock}
<1>1. ASSUME NEW c \in Calls, ChargeCommits(c)
      PROVE  /\ used <= used' /\ clock' = clock
             /\ degradedAt' \in {degradedAt, clock} /\ stoppedAt' \in {stoppedAt, clock}
  <2>1. Cost[tier[c]] \in Nat /\ used \in Nat
    BY Constants DEF TypeOK
  <2>. QED
    BY <1>1, <2>1 DEF ChargeCommits, Charge
<1>2. CASE Tick
  BY <1>2 DEF Tick, budget, TypeOK
<1>3. ASSUME UNCHANGED <<used, degradedAt, stoppedAt, clock>>
      PROVE  /\ used <= used' /\ clock <= clock'
             /\ degradedAt' \in {degradedAt, clock} /\ stoppedAt' \in {stoppedAt, clock}
  BY <1>3 DEF TypeOK
<1>4. ASSUME NEW c \in Calls,
             \/ Begin(c) \/ Select(c) \/ Remember(c) \/ SelectFails(c) \/ VendorAnswers(c)
             \/ VendorFails(c) \/ ChargeReturns(c) \/ ChargeFails(c) \/ LocalReturns(c)
      PROVE  UNCHANGED <<used, degradedAt, stoppedAt, clock>>
  BY <1>4 DEF Begin, Select, Remember, SelectFails, VendorAnswers, VendorFails,
     ChargeReturns, ChargeFails, LocalReturns, budget
<1>5. CASE UNCHANGED vars
  BY <1>3, <1>5 DEF vars, budget
<1>. QED
  BY <1>1, <1>2, <1>3, <1>4, <1>5 DEF Next, TypeOK

LEMMA NotYetStep ==
  ASSUME TypeOK, TypeOK', NotYet, [Next]_vars
  PROVE  NotYet'
<1>1. ASSUME NEW c \in Calls, ChargeCommits(c) PROVE NotYet'
  BY <1>1, BudgetGrows, Constants DEF ChargeCommits, Charge, NotYet, TypeOK
<1>2. CASE UNCHANGED budget
  BY <1>2 DEF budget, NotYet
<1>3. ASSUME NEW c \in Calls,
             \/ Begin(c) \/ Select(c) \/ Remember(c) \/ SelectFails(c) \/ VendorAnswers(c)
             \/ VendorFails(c) \/ ChargeReturns(c) \/ ChargeFails(c) \/ LocalReturns(c)
      PROVE  UNCHANGED budget
  BY <1>3 DEF Begin, Select, Remember, SelectFails, VendorAnswers, VendorFails,
     ChargeReturns, ChargeFails, LocalReturns
<1>4. CASE Tick \/ UNCHANGED vars
  BY <1>2, <1>4 DEF Tick, vars
<1>. QED
  BY <1>1, <1>2, <1>3, <1>4 DEF Next

\* What a status tells stays so.
LEMMA TruthLasts ==
  ASSUME TypeOK, TypeOK', [Next]_vars
  PROVE  \A st \in Status, u \in Int : u <= clock /\ Truthful(st, u) => Truthful(st, u)'
<1>1. /\ used \in Nat /\ used' \in Nat /\ clock \in Nat
      /\ {degradedAt, stoppedAt, degradedAt', stoppedAt'} \subseteq Int
  BY Constants DEF TypeOK, Never
<1>. QED
  BY <1>1, BudgetGrows, Constants DEF Truthful

\* The flags of a statement tell the truth when the database returns them.
LEMMA FlagsTell ==
  ASSUME TypeOK, NotYet
  PROVE  Truthful(Flags(used), clock)
<1>1. /\ Flags(used).degraded_mode = (used >= DegradeAt)
      /\ Flags(used).hard_stopped = (used >= HardStopAt)
  BY DEF Flags
<1>2. clock <= Never /\ Never \in Int /\ used \in Nat
  BY Constants DEF TypeOK, Never
<1>3. /\ ~ (used >= DegradeAt) => degradedAt = Never
      /\ ~ (used >= HardStopAt) => stoppedAt = Never
  BY <1>2, Constants DEF NotYet
<1>. QED
  BY <1>1, <1>2, <1>3 DEF Truthful

\* A truth about a moment is one about any earlier moment.
LEMMA TruthfulBefore ==
  ASSUME TypeOK, NEW st \in Status, NEW u \in Int, NEW v \in Int, v <= u, Truthful(st, u)
  PROVE  Truthful(st, v)
<1>1. {degradedAt, stoppedAt} \subseteq Int
  BY Constants DEF TypeOK, Never
<1>. QED
  BY <1>1 DEF Truthful
-----------------------------------------------------------------------------
(* The invariant.                                                          *)

\* A status on its way to the cache was asked for before the step, or just now.
LEMMA ReadsComeFrom ==
  ASSUME TypeOK, [Next]_vars, NEW d \in Calls, stage'[d] \in Reading
  PROVE  \/ /\ stage[d] \in Reading /\ read'[d] = read[d]
            /\ clock' # clock => clock' = clock + 1 /\ clock < read[d].at + MaxLatency
         \/ read'[d] = [status |-> Flags(used'), at |-> clock] /\ clock' = clock
<1> USE DEF TypeOK, Go, At
<1>1. ASSUME NEW c \in Calls, Select(c) \/ ChargeCommits(c)
      PROVE  IF d = c THEN read'[d] = [status |-> Flags(used'), at |-> clock] /\ clock' = clock
             ELSE stage'[d] = stage[d] /\ read'[d] = read[d] /\ clock' = clock
  BY <1>1 DEF Select, ChargeCommits, budget
<1>2. ASSUME NEW c \in Calls,
             \/ Begin(c) \/ Remember(c) \/ SelectFails(c) \/ VendorAnswers(c)
             \/ VendorFails(c) \/ ChargeReturns(c) \/ ChargeFails(c) \/ LocalReturns(c)
      PROVE  stage[d] \in Reading /\ read'[d] = read[d] /\ clock' = clock
  <2>1. read' = read /\ clock' = clock
    BY <1>2 DEF Begin, Remember, SelectFails, VendorAnswers, VendorFails, ChargeReturns,
       ChargeFails, LocalReturns
  <2>2. \E n \in {"select_stop", "select_degraded"} \cup Waiting \cup Over :
          stage' = [stage EXCEPT ![c] = n]
    BY <1>2 DEF Begin, Remember, SelectFails, Decide, Dispatch, VendorAnswers, VendorFails,
       ChargeReturns, ChargeFails, LocalReturns, Waiting, Over
  <2>. QED
    BY <2>1, <2>2 DEF Reading, Waiting, Over
<1>3. CASE Tick
  BY <1>3 DEF Tick
<1>4. CASE UNCHANGED vars
  BY <1>4 DEF vars
<1>. QED
  BY <1>1, <1>2, <1>3, <1>4 DEF Next

LEMMA ReadsStep ==
  ASSUME RouterInv, TypeOK', NotYet', [Next]_vars
  PROVE  ReadsAreRecent'
<1>1. SUFFICES ASSUME NEW d \in Calls, stage'[d] \in Reading
               PROVE  (/\ read[d].at <= clock /\ clock <= read[d].at + MaxLatency
                       /\ Truthful(read[d].status, read[d].at))'
  BY DEF ReadsAreRecent
<1>2. CASE stage[d] \in Reading /\ read'[d] = read[d]
           /\ (clock' # clock => clock' = clock + 1 /\ clock < read[d].at + MaxLatency)
  <2>1. PICK st \in Status, u \in Int : st = read[d].status /\ u = read[d].at
    BY DEF RouterInv, TypeOK
  <2>2. u <= clock /\ clock <= u + MaxLatency /\ Truthful(st, u)
    BY <1>2, <2>1 DEF RouterInv, ReadsAreRecent
  <2>3. Truthful(st, u)'
    BY <2>2, TruthLasts DEF RouterInv
  <2>4. Truthful(read[d].status, read[d].at)'
    BY <1>2, <2>1, <2>3
  <2>5. clock \in Int /\ MaxLatency \in Int
    BY Constants DEF RouterInv, TypeOK
  <2>. QED
    BY <1>2, <2>1, <2>2, <2>4, <2>5
<1>3. CASE read'[d] = [status |-> Flags(used'), at |-> clock] /\ clock' = clock
  <2>1. Truthful(Flags(used), clock)'
    BY FlagsTell, PTL
  <2>2. Truthful(read[d].status, read[d].at)'
    BY <1>3, <2>1
  <2>3. clock \in Int /\ MaxLatency \in Nat
    BY Constants DEF RouterInv, TypeOK
  <2>. QED
    BY <1>3, <2>2, <2>3
<1>. QED
  BY <1>1, <1>2, <1>3, ReadsComeFrom DEF RouterInv

LEMMA CacheStep ==
  ASSUME RouterInv, TypeOK', [Next]_vars
  PROVE  CacheIsRecent'
<1>1. CASE cache' = cache
  <2>1. SUFFICES ASSUME cache # NoStatus
                 PROVE  (/\ cache.cached_at <= clock
                         /\ Truthful(cache.status, cache.cached_at - MaxLatency))'
    BY <1>1 DEF CacheIsRecent
  <2>2. PICK st \in Status, u \in Int : st = cache.status /\ u = cache.cached_at
    BY DEF RouterInv, TypeOK
  <2>3. u <= clock /\ Truthful(st, u - MaxLatency)
    BY <2>1, <2>2 DEF RouterInv, CacheIsRecent
  <2>4. /\ u - MaxLatency \in Int /\ u - MaxLatency <= clock
        /\ clock \in Int /\ clock' \in Int /\ clock <= clock'
    BY <2>3, BudgetGrows, Constants DEF RouterInv, TypeOK
  <2>5. Truthful(st, u - MaxLatency)'
    BY <2>3, <2>4, TruthLasts DEF RouterInv
  <2>. QED
    BY <1>1, <2>2, <2>3, <2>4, <2>5
<1>2. ASSUME NEW c \in Calls, Remember(c) \/ ChargeReturns(c)
      PROVE  CacheIsRecent'
  <2>1. /\ stage[c] \in Reading /\ clock' = clock
        /\ cache' = [status |-> read[c].status, cached_at |-> clock]
    BY <1>2 DEF Remember, ChargeReturns, At, Reading
  <2>2. PICK st \in Status, u \in Int, now \in Int :
          st = read[c].status /\ u = read[c].at /\ now = clock
    BY DEF RouterInv, TypeOK
  <2>3. u <= now /\ now <= u + MaxLatency /\ Truthful(st, u) /\ MaxLatency \in Nat
    BY <2>1, <2>2, Constants DEF RouterInv, ReadsAreRecent
  <2>4. now - MaxLatency \in Int /\ now - MaxLatency <= u /\ now - MaxLatency <= clock
    BY <2>2, <2>3
  <2>5. Truthful(st, now - MaxLatency)
    BY <2>3, <2>4, TruthfulBefore DEF RouterInv
  <2>6. Truthful(st, now - MaxLatency)'
    BY <2>4, <2>5, TruthLasts DEF RouterInv
  <2>7. (/\ cache.cached_at <= clock
         /\ Truthful(cache.status, cache.cached_at - MaxLatency))'
    BY <2>1, <2>2, <2>6
  <2>. QED
    BY <2>7 DEF CacheIsRecent
<1>3. ASSUME NEW c \in Calls,
             \/ Begin(c) \/ Select(c) \/ SelectFails(c) \/ VendorAnswers(c)
             \/ VendorFails(c) \/ ChargeCommits(c) \/ ChargeFails(c) \/ LocalReturns(c)
      PROVE  cache' = cache
  BY <1>3 DEF Begin, Select, SelectFails, VendorAnswers, VendorFails, ChargeCommits,
     ChargeFails, LocalReturns
<1>4. CASE Tick \/ UNCHANGED vars
  BY <1>1, <1>4 DEF Tick, vars
<1>. QED
  BY <1>1, <1>2, <1>3, <1>4 DEF Next
\* Where a decision is made, and on which status.
LEMMA Decisions ==
  ASSUME [Next]_vars, NEW d \in Calls, TypeOK
  PROVE  \/ UNCHANGED <<stage[d], tier[d]>>
         \/ At(d, "new") /\ Fresh /\ Decide(d, cache.status) /\ UNCHANGED blind
         \/ At(d, "stop_read") /\ Decide(d, read[d].status) /\ UNCHANGED blind
         \/ At(d, "degraded_read") /\ Dispatch(d, read[d].status.degraded_mode)
              /\ UNCHANGED blind
         \/ Fresh /\ Dispatch(d, cache.status.degraded_mode) /\ d \in blind'
         \/ Kind[d] = "vision" /\ Dispatch(d, cache.status.degraded_mode) /\ d \in blind'
         \/ Dispatch(d, FALSE) /\ d \in blind'
         \/ /\ UNCHANGED tier[d] /\ stage'[d] \notin {"vendor", "exhausted"}
            /\ stage'[d] = "select_degraded" => d \in blind'
            /\ stage'[d] = "degraded_read" => stage[d] = "select_degraded"
<1> USE DEF TypeOK, Go, At
<1>1. CASE Begin(d) \/ Remember(d) \/ SelectFails(d)
  BY <1>1 DEF Begin, Remember, SelectFails
<1>2. CASE \/ Select(d) \/ VendorAnswers(d) \/ VendorFails(d) \/ ChargeCommits(d)
           \/ ChargeReturns(d) \/ ChargeFails(d) \/ LocalReturns(d)
  BY <1>2 DEF Select, VendorAnswers, VendorFails, ChargeCommits, ChargeReturns,
     ChargeFails, LocalReturns
<1>3. ASSUME NEW c \in Calls \ {d},
             \/ Begin(c) \/ Select(c) \/ Remember(c) \/ SelectFails(c) \/ VendorAnswers(c)
             \/ VendorFails(c) \/ ChargeCommits(c) \/ ChargeReturns(c) \/ ChargeFails(c)
             \/ LocalReturns(c)
      PROVE  UNCHANGED <<stage[d], tier[d]>>
  <2>1. CASE Begin(c) \/ Remember(c) \/ SelectFails(c)
    BY <2>1 DEF Begin, Remember, SelectFails, Decide, Dispatch
  <2>2. CASE \/ Select(c) \/ VendorAnswers(c) \/ VendorFails(c) \/ ChargeCommits(c)
             \/ ChargeReturns(c) \/ ChargeFails(c) \/ LocalReturns(c)
    BY <2>2 DEF Select, VendorAnswers, VendorFails, ChargeCommits, ChargeReturns,
       ChargeFails, LocalReturns
  <2>. QED
    BY <1>3, <2>1, <2>2
<1>4. CASE Tick \/ UNCHANGED vars
  BY <1>4 DEF Tick, vars
<1>. QED
  BY <1>1, <1>2, <1>3, <1>4 DEF Next

\* Calls once blind stay so.
LEMMA BlindStays ==
  ASSUME [Next]_vars PROVE blind \subseteq blind'
<1>1. ASSUME NEW c \in Calls,
             \/ Begin(c) \/ Select(c) \/ Remember(c) \/ SelectFails(c) \/ VendorAnswers(c)
             \/ VendorFails(c) \/ ChargeCommits(c) \/ ChargeReturns(c) \/ ChargeFails(c)
             \/ LocalReturns(c)
      PROVE  blind \subseteq blind'
  BY <1>1 DEF Begin, Select, Remember, SelectFails, VendorAnswers, VendorFails,
     ChargeCommits, ChargeReturns, ChargeFails, LocalReturns
<1>. QED
  BY <1>1 DEF Next, Tick, vars

LEMMA AsksTwiceStep ==
  ASSUME RouterInv, [Next]_vars PROVE AsksTwiceIfBlind'
<1>1. SUFFICES ASSUME NEW d \in Calls, stage'[d] \in {"select_degraded", "degraded_read"}
               PROVE  d \in blind'
  BY DEF AsksTwiceIfBlind
<1>2. ASSUME NEW b, Dispatch(d, b) PROVE FALSE
  BY <1>1, <1>2 DEF Dispatch, Go, RouterInv, TypeOK
<1>3. ASSUME NEW st, Decide(d, st) PROVE FALSE
  BY <1>1, <1>2, <1>3 DEF Decide, Go, RouterInv, TypeOK
<1>. QED
  BY <1>1, <1>2, <1>3, Decisions, BlindStays DEF RouterInv, AsksTwiceIfBlind

LEMMA CauseStep ==
  ASSUME RouterInv, TypeOK', [Next]_vars PROVE RefusedForCause'
<1>1. used \in Nat /\ used' \in Nat /\ used <= used'
  BY BudgetGrows DEF RouterInv, TypeOK
<1>2. Fresh => /\ cache.status.hard_stopped => used >= HardStopAt
               /\ cache.status.degraded_mode => used >= DegradeAt
  BY DEF Fresh, RouterInv, CacheIsRecent, Truthful
<1>3. ASSUME NEW d \in Calls, stage[d] \in Reading
      PROVE  /\ read[d].status.hard_stopped => used >= HardStopAt
             /\ read[d].status.degraded_mode => used >= DegradeAt
  BY <1>3 DEF RouterInv, ReadsAreRecent, Truthful
<1>4. ASSUME NEW d \in Calls, NEW b, Dispatch(d, b), b /\ Kind[d] = "advanced" => used >= DegradeAt
      PROVE  stage'[d] # "exhausted" /\ (tier'[d] # Kind[d] => used >= DegradeAt)
  BY <1>4 DEF Dispatch, Go, RouterInv, TypeOK
<1>5. ASSUME NEW d \in Calls, NEW st, Decide(d, st),
             st.hard_stopped => used >= HardStopAt, st.degraded_mode => used >= DegradeAt
      PROVE  /\ stage'[d] = "exhausted" => used >= HardStopAt
             /\ tier'[d] # Kind[d] => tier[d] # Kind[d] \/ used >= DegradeAt
  BY <1>4, <1>5 DEF Decide
<1>6. ASSUME NEW d \in Calls
      PROVE  /\ stage'[d] = "exhausted" => stage[d] = "exhausted" \/ used >= HardStopAt
             /\ tier'[d] # Kind[d] => tier[d] # Kind[d] \/ used >= DegradeAt
  <2>1. /\ At(d, "stop_read") => stage[d] \in Reading
        /\ At(d, "degraded_read") => stage[d] \in Reading
    BY DEF At, Reading
  <2>2. CASE At(d, "new") /\ Fresh /\ Decide(d, cache.status)
    BY <1>2, <1>5, <2>2
  <2>3. CASE At(d, "stop_read") /\ Decide(d, read[d].status)
    BY <1>3, <1>5, <2>1, <2>3
  <2>4. CASE At(d, "degraded_read") /\ Dispatch(d, read[d].status.degraded_mode)
    BY <1>3, <1>4, <2>1, <2>4
  <2>5. CASE (Fresh \/ Kind[d] = "vision") /\ Dispatch(d, cache.status.degraded_mode)
    BY <1>2, <1>4, <2>5
  <2>6. CASE Dispatch(d, FALSE)
    BY <1>4, <2>6
  <2>. QED
    BY <2>2, <2>3, <2>4, <2>5, <2>6, Decisions DEF RouterInv
<1>. QED
  BY <1>1, <1>6, Constants DEF RouterInv, RefusedForCause, At

LEMMA BreakerStep ==
  ASSUME RouterInv, TypeOK', [Next]_vars PROVE BreakerCoolsDown'
<1> USE Constants DEF RouterInv, BreakerCoolsDown
<1>1. ASSUME NEW c \in Calls, VendorAnswers(c) PROVE BreakerCoolsDown'
  BY <1>1 DEF VendorAnswers
<1>2. ASSUME NEW c \in Calls, VendorFails(c) PROVE BreakerCoolsDown'
  BY <1>2 DEF VendorFails, breaker, TypeOK
<1>3. ASSUME NEW c \in Calls,
             \/ Begin(c) \/ Select(c) \/ Remember(c) \/ SelectFails(c)
             \/ ChargeCommits(c) \/ ChargeReturns(c) \/ ChargeFails(c) \/ LocalReturns(c)
      PROVE  UNCHANGED breaker
  BY <1>3 DEF Begin, Select, Remember, SelectFails, ChargeCommits, ChargeReturns,
     ChargeFails, LocalReturns
<1>4. CASE Tick \/ UNCHANGED vars
  BY <1>4 DEF Tick, vars, breaker
<1>. QED
  BY <1>1, <1>2, <1>3, <1>4 DEF Next, breaker
-----------------------------------------------------------------------------
(* The theorems.                                                           *)

\* For any calls and any interleaving of their statements: what is cached or about
\* to be was true at most MaxLatency before, and a failing vendor's breaker stays
\* open for Cooldown after the last failure counted.
THEOREM RouterInvHolds == Spec => []RouterInv
<1>1. Init => RouterInv
  <2> SUFFICES ASSUME Init PROVE RouterInv
    OBVIOUS
  <2>1. TypeOK
    BY Constants DEF Init, TypeOK, Stage, NoStatus, Never
  <2>2. NotYet /\ CacheIsRecent /\ BreakerCoolsDown
    BY Constants DEF Init, NotYet, CacheIsRecent, BreakerCoolsDown
  <2>. QED
    BY <2>1, <2>2 DEF Init, RouterInv, ReadsAreRecent, Reading, AsksTwiceIfBlind,
       RefusedForCause, At
<1>2. RouterInv /\ [Next]_vars => RouterInv'
  <2> SUFFICES ASSUME RouterInv, [Next]_vars PROVE RouterInv'
    OBVIOUS
  <2>1. TypeOK'
    BY TypeStep DEF RouterInv
  <2>2. NotYet'
    BY <2>1, NotYetStep DEF RouterInv
  <2>. QED
    BY <2>1, <2>2, ReadsStep, CacheStep, AsksTwiceStep, BreakerStep, CauseStep DEF RouterInv
<1>. QED
  BY <1>1, <1>2, PTL DEF Spec

\* Calls are refused and downgraded only when the credits are used.
THEOREM RefusedForCauseHolds == Spec => []RefusedForCause
<1>1. RouterInv => RefusedForCause
  BY DEF RouterInv
<1>. QED
  BY <1>1, RouterInvHolds, PTL

\* Once the thresholds are reached, it takes StatusTTL and one statement until no
\* call that could read the budget asks the vendor for what it no longer may.
THEOREM BudgetHeededHolds == Spec => BudgetHeeded
<1> DEFINE Heeds(c) ==
      /\ tier'[c] # "standard" => clock < stoppedAt + MaxLatency + StatusTTL
      /\ tier'[c] = "advanced" => clock < degradedAt + MaxLatency + StatusTTL
<1>1. ASSUME RouterInv, NEW c \in Calls, NEW st \in Status,
             clock < stoppedAt + MaxLatency + StatusTTL \/ st.hard_stopped,
             clock < degradedAt + MaxLatency + StatusTTL \/ st.degraded_mode,
             stage'[c] = "vendor", Decide(c, st)
      PROVE  Heeds(c)
  <2>1. ~ (st.hard_stopped /\ Kind[c] # "standard") /\ Dispatch(c, st.degraded_mode)
    BY <1>1 DEF Decide, Go, RouterInv, TypeOK
  <2>2. tier'[c] = IF Kind[c] = "advanced" /\ st.degraded_mode THEN "standard" ELSE Kind[c]
    <3>1. tier \in [Calls -> Kinds]
      BY <1>1 DEF RouterInv, TypeOK
    <3>. QED
      BY <2>1, <3>1 DEF Dispatch
  <2>. QED
    BY <1>1, <2>1, <2>2
<1>2. ASSUME RouterInv, [Next]_vars, NEW c \in Calls, Asks(c), c \notin blind'
      PROVE  Heeds(c)
  <2>1. /\ {clock, stoppedAt, degradedAt, MaxLatency, cache.cached_at, read[c].at} \subseteq Int
        /\ StatusTTL \in Nat \ {0} /\ cache.status \in Status /\ read[c].status \in Status
    BY <1>2, Constants DEF RouterInv, TypeOK, Never
  <2>2. CASE At(c, "new") /\ Fresh /\ Decide(c, cache.status)
    <3>1. Truthful(cache.status, cache.cached_at - MaxLatency)
          /\ clock - cache.cached_at < StatusTTL
      BY <2>2, <1>2 DEF Fresh, RouterInv, CacheIsRecent
    <3>2. /\ clock < stoppedAt + MaxLatency + StatusTTL \/ cache.status.hard_stopped
          /\ clock < degradedAt + MaxLatency + StatusTTL \/ cache.status.degraded_mode
      BY <2>1, <3>1 DEF Truthful
    <3>. QED
      BY <1>1, <1>2, <2>1, <2>2, <3>2 DEF Asks
  <2>3. CASE At(c, "stop_read") /\ Decide(c, read[c].status)
    <3>1. Truthful(read[c].status, read[c].at) /\ clock <= read[c].at + MaxLatency
      BY <2>3, <1>2 DEF RouterInv, ReadsAreRecent, At, Reading
    <3>2. /\ clock < stoppedAt + MaxLatency + StatusTTL \/ read[c].status.hard_stopped
          /\ clock < degradedAt + MaxLatency + StatusTTL \/ read[c].status.degraded_mode
      BY <2>1, <3>1 DEF Truthful
    <3>. QED
      BY <1>1, <1>2, <2>1, <2>3, <3>2 DEF Asks
  <2>4. CASE At(c, "degraded_read")
    BY <1>2, <2>4, BlindStays DEF RouterInv, AsksTwiceIfBlind, At
  <2>5. ~ UNCHANGED <<stage[c], tier[c]>>
    BY <1>2 DEF Asks, At
  <2>. QED
    BY <1>2, <2>2, <2>3, <2>4, <2>5, Decisions DEF RouterInv, Asks
<1>3. RouterInv /\ [Next]_vars =>
        [\A c \in Calls : Asks(c) /\ c \notin blind' => Heeds(c)]_vars
  BY <1>2
<1>. QED
  BY <1>3, RouterInvHolds, PTL DEF Spec, BudgetHeeded

\* After a series of failures the vendor is left alone for the whole cooldown,
\* counted from the last failure, with any number of calls in flight.
THEOREM DownVendorLeftAloneHolds == Spec => DownVendorLeftAlone
<1>1. ASSUME RouterInv, [Next]_vars, NEW c \in Calls, Asks(c), Kind[c] # "vision",
             consecutive_failures >= FailureThreshold
      PROVE  clock >= failedAt + Cooldown
  <2>1. ASSUME NEW b, Dispatch(c, b) PROVE ~ (clock < open_until)
    BY <1>1, <2>1 DEF Asks, Dispatch, Go, BreakerIsOpen, RouterInv, TypeOK
  <2>2. ASSUME NEW st, Decide(c, st) PROVE ~ (clock < open_until)
    BY <1>1, <2>1, <2>2 DEF Asks, Decide, Go, RouterInv, TypeOK
  <2>3. ~ UNCHANGED <<stage[c], tier[c]>>
    BY <1>1 DEF Asks, At
  <2>4. ~ (clock < open_until)
    BY <1>1, <2>1, <2>2, <2>3, Decisions DEF RouterInv, Asks
  <2>. QED
    BY <1>1, <2>4, Constants DEF RouterInv, BreakerCoolsDown, TypeOK
<1>2. RouterInv /\ [Next]_vars =>
        [\A c \in Calls :
           Asks(c) /\ Kind[c] # "vision" /\ consecutive_failures >= FailureThreshold
             => clock >= failedAt + Cooldown]_vars
  BY <1>1
<1>. QED
  BY <1>2, RouterInvHolds, PTL DEF Spec, DownVendorLeftAlone

-----------------------------------------------------------------------------
(* Adding up the log.                                                      *)

\* Natural numbers one after the other.
LEMMA AllNats ==
  ASSUME NEW T \in SUBSET Nat, 0 \in T, \A n \in T : n + 1 \in T
  PROVE  T = Nat
<1>1. SUFFICES ASSUME Nat \ T # {} PROVE FALSE
  OBVIOUS
<1>2. PICK n \in Nat \ T : \A m \in Nat \ T : ~ (<<m, n>> \in OpToRel(<, Nat))
  BY <1>1, NatLessThanWellFounded, WFMin
<1>3. n # 0 /\ n - 1 \in Nat
  OBVIOUS
<1>4. ASSUME n - 1 \notin T PROVE FALSE
  <2>1. <<n - 1, n>> \in OpToRel(<, Nat)
    BY <1>3 DEF OpToRel
  <2>. QED
    BY <1>2, <1>3, <1>4, <2>1
<1>5. n - 1 + 1 = n
  OBVIOUS
<1>. QED
  BY <1>3, <1>4, <1>5

\* What MapThenSumSet adds up of rows S, and its recursive function.
Price(r) == Cost[r.tier]
First(s) == CHOOSE r \in s : TRUE
Sums(g, S) ==
  g = [s \in SUBSET S |-> IF s = {} THEN 0 ELSE Price(First(s)) + g[s \ {First(s)}]]
Total(S) == (CHOOSE g : Sums(g, S))[S]

LEMMA TotalIs ==
  ASSUME NEW S
  PROVE  MapThenSumSet(LAMBDA r : Cost[r.tier], S) = Total(S)
BY DEF MapThenSumSet, MapThenFoldSet, Total, Sums, Price, First

LEMMA FirstIn == ASSUME NEW s, s # {} PROVE First(s) \in s
BY DEF First

LEMMA SumsExist ==
  ASSUME NEW S, IsFiniteSet(S)
  PROVE  \E g : Sums(g, S)
<1> DEFINE Body(g, s) == IF s = {} THEN 0 ELSE Price(First(s)) + g[s \ {First(s)}]
           Upto(g, n) == \A s \in SUBSET S : Cardinality(s) <= n => g[s] = Body(g, s)
           T == {n \in Nat : \E g : Upto(g, n)}
<1>1. \A s \in SUBSET S : /\ Cardinality(s) \in Nat /\ Cardinality(s) <= Cardinality(S)
                          /\ Cardinality(s) = 0 <=> s = {}
  BY FS_Subset, FS_CardinalityType, FS_EmptySet
<1>2. \A s \in SUBSET S : s # {} => /\ s \ {First(s)} \in SUBSET S
                                    /\ Cardinality(s \ {First(s)}) = Cardinality(s) - 1
  BY FS_Subset, FS_RemoveElement, FirstIn
<1>3. 0 \in T
  <2>1. Upto([s \in SUBSET S |-> 0], 0)
    BY <1>1
  <2>. QED
    BY <2>1
<1>4. ASSUME NEW n \in T PROVE n + 1 \in T
  <2>1. PICK g : Upto(g, n)
    BY <1>4
  <2> DEFINE h == [s \in SUBSET S |-> IF Cardinality(s) <= n THEN g[s] ELSE Body(g, s)]
  <2>2. ASSUME NEW s \in SUBSET S, Cardinality(s) <= n + 1 PROVE h[s] = Body(h, s)
    <3>1. CASE s = {}
      BY <1>1, <2>1, <3>1
    <3>2. CASE s # {}
      <4>1. h[s] = Body(g, s)
        BY <2>1
      <4>2. s \ {First(s)} \in SUBSET S /\ Cardinality(s \ {First(s)}) <= n
        BY <1>1, <1>2, <2>2, <3>2
      <4>. QED
        BY <4>1, <4>2
    <3>. QED
      BY <3>1, <3>2
  <2>. HIDE DEF h
  <2>. QED
    BY <2>2
<1>5. T = Nat
  <2>. HIDE DEF T
  <2>. QED
    BY <1>3, <1>4, AllNats DEF T
<1>6. PICK g : Upto(g, Cardinality(S))
  BY <1>1, <1>5
<1>7. Sums([s \in SUBSET S |-> g[s]], S)
  BY <1>1, <1>2, <1>6 DEF Sums
<1>. QED
  BY <1>7

\* A sum of some rows, as the recursive function has it.
LEMMA SumsEquation ==
  ASSUME NEW S, NEW g, Sums(g, S), NEW s \in SUBSET S
  PROVE  /\ s = {} => g[s] = 0
         /\ s # {} => g[s] = Price(First(s)) + g[s \ {First(s)}]
BY DEF Sums

\* The rows may be added in any order.
LEMMA AnyOrder ==
  ASSUME NEW S, IsFiniteSet(S), NEW g, Sums(g, S), \A r \in S : Price(r) \in Nat
  PROVE  \A s \in SUBSET S : g[s] \in Nat /\ \A r \in s : g[s] = Price(r) + g[s \ {r}]
<1> DEFINE Ok(s) == g[s] \in Nat /\ \A r \in s : g[s] = Price(r) + g[s \ {r}]
           T == {n \in Nat : \A s \in SUBSET S : Cardinality(s) <= n => Ok(s)}
<1>1. \A s \in SUBSET S : Cardinality(s) \in Nat /\ (Cardinality(s) = 0 <=> s = {})
  BY FS_Subset, FS_CardinalityType, FS_EmptySet
<1>2. \A s \in SUBSET S : \A r \in s :
        s \ {r} \in SUBSET S /\ Cardinality(s \ {r}) = Cardinality(s) - 1
  BY FS_Subset, FS_RemoveElement
<1>3. 0 \in T
  <2>1. \A s \in SUBSET S : Cardinality(s) <= 0 => s = {}
    BY <1>1
  <2>2. g[{}] = 0
    BY SumsEquation
  <2>. QED
    BY <2>1, <2>2
<1>4. ASSUME NEW n \in T PROVE n + 1 \in T
  <2>1. \A s \in SUBSET S : Cardinality(s) <= n => Ok(s)
    BY <1>4
  <2>2. SUFFICES ASSUME NEW s \in SUBSET S, Cardinality(s) = n + 1 PROVE Ok(s)
    BY <1>1, <1>4
  <2>3. s # {} /\ First(s) \in s /\ n \in Nat
    BY <1>1, <1>4, <2>2, FirstIn
  <2>4. ASSUME NEW r \in s PROVE s \ {r} \in SUBSET S /\ Ok(s \ {r}) /\ Price(r) \in Nat
    BY <1>2, <2>1, <2>2, <2>3, <2>4
  <2>5. g[s] = Price(First(s)) + g[s \ {First(s)}] /\ g[s] \in Nat
    <3>1. g[s] = Price(First(s)) + g[s \ {First(s)}]
      BY <2>3, SumsEquation
    <3>2. Price(First(s)) \in Nat /\ g[s \ {First(s)}] \in Nat
      BY <2>3, <2>4
    <3>. QED
      BY <3>1, <3>2
  <2>6. ASSUME NEW r \in s, r # First(s) PROVE g[s] = Price(r) + g[s \ {r}]
    <3>1. (s \ {r}) \ {First(s)} = (s \ {First(s)}) \ {r}
      OBVIOUS
    <3>2. g[s \ {First(s)}] = Price(r) + g[(s \ {First(s)}) \ {r}]
      BY <2>3, <2>4, <2>6
    <3>3. g[s \ {r}] = Price(First(s)) + g[(s \ {r}) \ {First(s)}]
      BY <2>3, <2>4, <2>6
    <3>4. (s \ {r}) \ {First(s)} \in SUBSET S /\ g[(s \ {r}) \ {First(s)}] \in Nat
      <4>1. PICK u \in SUBSET S : u = s \ {r}
        BY <2>4
      <4>2. First(s) \in u /\ Cardinality(u) = n
        BY <1>2, <2>2, <2>3, <2>6, <4>1
      <4>3. u \ {First(s)} \in SUBSET S /\ Cardinality(u \ {First(s)}) <= n
        BY <1>2, <2>3, <4>2
      <4>. QED
        BY <2>1, <4>1, <4>3
    <3>. QED
      BY <2>3, <2>4, <2>5, <2>6, <3>1, <3>2, <3>3, <3>4
  <2>. QED
    BY <2>5, <2>6
<1>5. T = Nat
  <2>. HIDE DEF T
  <2>. QED
    BY <1>3, <1>4, AllNats DEF T
<1>. QED
  BY <1>1, <1>5

\* The same rows have the same sum among fewer rows and among more.
LEMMA SumsAgree ==
  ASSUME NEW S, IsFiniteSet(S), NEW R, S \subseteq R, NEW g, NEW h, Sums(g, S), Sums(h, R)
  PROVE  g[S] = h[S]
<1> DEFINE T == {n \in Nat : \A s \in SUBSET S : Cardinality(s) = n => g[s] = h[s]}
<1>1. \A s \in SUBSET S : Cardinality(s) \in Nat /\ (Cardinality(s) = 0 <=> s = {})
  BY FS_Subset, FS_CardinalityType, FS_EmptySet
<1>2. \A s \in SUBSET S : s # {} => /\ s \ {First(s)} \in SUBSET S
                                    /\ Cardinality(s \ {First(s)}) = Cardinality(s) - 1
  BY FS_Subset, FS_RemoveElement, FirstIn
<1>3. \A s \in SUBSET S : s \in SUBSET R
  OBVIOUS
<1>4. 0 \in T
  BY <1>1, <1>3, SumsEquation
<1>5. ASSUME NEW n \in T PROVE n + 1 \in T
  <2>1. SUFFICES ASSUME NEW s \in SUBSET S, Cardinality(s) = n + 1 PROVE g[s] = h[s]
    BY <1>5
  <2>2. s # {} /\ s \ {First(s)} \in SUBSET S /\ Cardinality(s \ {First(s)}) = n
    BY <1>1, <1>2, <1>5, <2>1
  <2>3. g[s \ {First(s)}] = h[s \ {First(s)}]
    BY <1>5, <2>2
  <2>. QED
    BY <1>3, <2>2, <2>3, SumsEquation
<1>6. T = Nat
  <2>. HIDE DEF T
  <2>. QED
    BY <1>4, <1>5, AllNats DEF T
<1>. QED
  BY <1>1, <1>6

\* A new row adds its price to the total.
LEMMA TotalGrows ==
  ASSUME NEW S, IsFiniteSet(S), NEW x, x \notin S, \A r \in S \cup {x} : Price(r) \in Nat
  PROVE  Total(S) \in Nat /\ Total(S \cup {x}) = Total(S) + Price(x)
<1> DEFINE R == S \cup {x}
<1>1. IsFiniteSet(R) /\ x \in R /\ R \ {x} = S /\ S \subseteq R
  BY FS_AddElement
<1>. HIDE DEF R
<1>2. PICK g : Sums(g, S) /\ Total(S) = g[S]
  BY SumsExist DEF Total
<1>3. PICK h : Sums(h, R) /\ Total(R) = h[R]
  BY <1>1, SumsExist DEF Total
<1>4. h[R] = Price(x) + h[S] /\ h[S] \in Nat
  BY <1>1, <1>3, AnyOrder DEF R
<1>5. g[S] = h[S]
  BY <1>1, <1>2, <1>3, SumsAgree
<1>6. Price(x) \in Nat
  OBVIOUS
<1>. QED
  BY <1>2, <1>3, <1>4, <1>5, <1>6 DEF R

LEMMA TotalEmpty == Total({}) = 0
<1>1. PICK g : Sums(g, {}) /\ Total({}) = g[{}]
  BY SumsExist, FS_EmptySet DEF Total
<1>. QED
  BY <1>1, SumsEquation

-----------------------------------------------------------------------------
(* The books.                                                              *)

\* A step that leaves the budget alone: calls that are charged stay charged.
LEMMA BooksStay ==
  ASSUME BooksInv, TypeOK, UNCHANGED budget,
         \A c \in Calls :
           /\ stage[c] \in {"charged", "answered", "failed"} =>
                stage'[c] \in {"charged", "answered", "failed"}
           /\ stage'[c] \in {"charged", "answered"} =>
                stage[c] \in {"charged", "answered"} /\ tier'[c] = tier[c]
  PROVE  BooksInv'
<1>1. used' = used /\ credit_usage_log' = credit_usage_log
  BY DEF budget
<1>2. \A r \in credit_usage_log : r.call \in Calls
  BY DEF TypeOK
<1>3. (used = MapThenSumSet(LAMBDA r : Cost[r.tier], credit_usage_log))'
        <=> used' = Total(credit_usage_log')
  BY DEF MapThenSumSet, MapThenFoldSet, Total, Sums, Price, First
<1>4. used = MapThenSumSet(LAMBDA r : Cost[r.tier], credit_usage_log)
        <=> used = Total(credit_usage_log)
  BY DEF MapThenSumSet, MapThenFoldSet, Total, Sums, Price, First
<1>. QED
  BY <1>1, <1>2, <1>3, <1>4 DEF BooksInv, BooksBalance, ChargedIsLogged, At

\* The charge adds its row, which is new, and the price of it.
LEMMA BooksCharged ==
  ASSUME BooksInv, TypeOK, NEW c \in Calls, ChargeCommits(c)
  PROVE  BooksInv'
<1> DEFINE row == [call |-> c, tier |-> tier[c]]
<1>1. /\ used' = used + Cost[tier[c]] /\ credit_usage_log' = credit_usage_log \cup {row}
      /\ stage[c] = "charging" /\ tier' = tier /\ tier[c] \in Kinds
      /\ stage' = [stage EXCEPT ![c] = "charged"] /\ stage \in [Calls -> Stage]
  BY DEF ChargeCommits, Charge, At, Go, TypeOK
<1>2. row \notin credit_usage_log
  <2>1. \A r \in credit_usage_log : stage[r.call] # "charging"
    BY DEF BooksInv, BooksBalance
  <2>. QED
    BY <1>1, <2>1
<1>3. \A r \in credit_usage_log \cup {row} : Price(r) \in Nat
  <2>1. \A r \in credit_usage_log \cup {row} : r.tier \in Kinds
    BY <1>1 DEF TypeOK
  <2>. QED
    BY <2>1, Constants DEF Price
<1>4. used = Total(credit_usage_log)
  BY DEF BooksInv, BooksBalance, MapThenSumSet, MapThenFoldSet, Total, Sums, Price, First
<1>5. Price(row) = Cost[tier[c]]
  BY DEF Price
<1>6. IsFiniteSet(credit_usage_log) /\ IsFiniteSet(credit_usage_log')
  BY <1>1, FS_AddElement DEF BooksInv
<1>7. used' = Total(credit_usage_log')
  <2>. HIDE DEF row
  <2>1. Total(credit_usage_log \cup {row}) = Total(credit_usage_log) + Price(row)
    BY <1>2, <1>3, <1>6, TotalGrows
  <2>. QED
    BY <1>1, <1>4, <1>5, <2>1
<1>8. (used = MapThenSumSet(LAMBDA r : Cost[r.tier], credit_usage_log))'
  BY <1>7 DEF MapThenSumSet, MapThenFoldSet, Total, Sums, Price, First
<1>9. \A d \in Calls : At(d, "answered")' \/ At(d, "charged")' =>
        [call |-> d, tier |-> tier'[d]] \in credit_usage_log'
  BY <1>1 DEF BooksInv, BooksBalance, ChargedIsLogged, At
<1>10. \A r \in credit_usage_log' : stage'[r.call] \in {"charged", "answered", "failed"}
  <2>1. \A r \in credit_usage_log : r.call \in Calls
    BY DEF TypeOK
  <2>. QED
    BY <1>1, <2>1 DEF BooksInv, BooksBalance
<1>. QED
  BY <1>6, <1>8, <1>9, <1>10 DEF BooksInv, BooksBalance, ChargedIsLogged

LEMMA BooksStep ==
  ASSUME BooksInv, TypeOK, [Next]_vars
  PROVE  BooksInv'
<1> DEFINE Settled == {"charged", "answered", "failed"}
<1>1. ASSUME NEW c \in Calls,
             \/ Begin(c) \/ Remember(c) \/ SelectFails(c) \/ Select(c) \/ VendorAnswers(c)
             \/ VendorFails(c) \/ LocalReturns(c)
      PROVE  /\ UNCHANGED budget /\ stage[c] \notin Settled /\ stage'[c] \notin Settled
             /\ \A d \in Calls \ {c} : UNCHANGED <<stage[d], tier[d]>>
  <2>1. CASE Begin(c) \/ Remember(c) \/ SelectFails(c)
    BY <2>1 DEF Begin, Remember, SelectFails, Decide, Dispatch, Go, At, TypeOK
  <2>2. CASE Select(c) \/ VendorAnswers(c) \/ VendorFails(c) \/ LocalReturns(c)
    BY <2>2 DEF Select, VendorAnswers, VendorFails, LocalReturns, Go, At, TypeOK
  <2>. QED
    BY <1>1, <2>1, <2>2
<1>2. ASSUME NEW c \in Calls, ChargeReturns(c) \/ ChargeFails(c)
      PROVE  /\ UNCHANGED <<budget, tier>> /\ stage'[c] \in {"answered", "failed"}
             /\ stage'[c] = "answered" => stage[c] = "charged"
             /\ \A d \in Calls \ {c} : stage'[d] = stage[d]
  BY <1>2 DEF ChargeReturns, ChargeFails, Go, At, TypeOK
<1>3. CASE Tick \/ UNCHANGED vars
  <2>1. UNCHANGED <<stage, tier, budget>>
    BY <1>3 DEF Tick, vars
  <2>. QED
    BY <2>1, BooksStay
<1>4. ASSUME NEW c \in Calls,
             \/ Begin(c) \/ Remember(c) \/ SelectFails(c) \/ Select(c) \/ VendorAnswers(c)
             \/ VendorFails(c) \/ LocalReturns(c)
      PROVE  BooksInv'
  BY <1>1, <1>4, BooksStay
<1>5. ASSUME NEW c \in Calls, ChargeReturns(c) \/ ChargeFails(c) PROVE BooksInv'
  <2>1. \A d \in Calls : stage[d] \in Settled => stage'[d] \in Settled
    BY <1>2, <1>5
  <2>2. \A d \in Calls : stage'[d] \in {"charged", "answered"} =>
          stage[d] \in {"charged", "answered"} /\ tier'[d] = tier[d]
    BY <1>2, <1>5
  <2>. QED
    BY <1>2, <1>5, <2>1, <2>2, BooksStay
<1>. QED
  BY <1>3, <1>4, <1>5, BooksCharged DEF Next

\* The inductive invariant of the books: finitely many rows, each of a call that was
\* charged, and every charged call among them.
THEOREM BooksInvHolds == Spec => []BooksInv
<1>1. Init => BooksInv
  <2> SUFFICES ASSUME Init PROVE BooksInv
    OBVIOUS
  <2>1. used = 0 /\ credit_usage_log = {} /\ \A c \in Calls : stage[c] = "new"
    BY DEF Init
  <2>2. used = Total(credit_usage_log)
    BY <2>1, TotalEmpty
  <2>3. used = MapThenSumSet(LAMBDA r : Cost[r.tier], credit_usage_log)
    BY <2>2 DEF MapThenSumSet, MapThenFoldSet, Total, Sums, Price, First
  <2>. QED
    BY <2>1, <2>3, FS_EmptySet DEF BooksInv, BooksBalance, ChargedIsLogged, At
<1>2. BooksInv /\ TypeOK /\ [Next]_vars => BooksInv'
  BY BooksStep
<1>. QED
  BY <1>1, <1>2, TypeCorrect, PTL DEF Spec

\* For any calls, costs and errors the credits used are those of the log; an answer of
\* the vendor that reached a user is in it, and no call that was refused or answered by
\* the local model is (route_completion, charge_credits).
THEOREM BooksBalanceHolds == Spec => []BooksBalance
<1>1. BooksInv => BooksBalance
  BY DEF BooksInv
<1>. QED
  BY <1>1, BooksInvHolds, PTL
=============================================================================
