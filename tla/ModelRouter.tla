----------------------------- MODULE ModelRouter -----------------------------
(***************************************************************************)
(* Calls to the paid model vendor: route_completion and                    *)
(* route_vision_completion of services/orchestrator/model_router.py with   *)
(* the credit budget of shared/guardrails/budget.py.  Calls are asyncio    *)
(* tasks of one process.  They share the circuit breaker and a cached      *)
(* status of the budget, both in memory, and the row of credit_budget.     *)
(* An action is the code between two awaits.  Time is an integer clock;    *)
(* a statement's result comes back at most MaxLatency after the database   *)
(* took it, answers of the vendor may take any time.                       *)
(***************************************************************************)
EXTENDS Integers, FiniteSetsExt

CONSTANTS
  Calls,
  Kind,              \* Kind[c]: the tier asked for, or "vision"
  Cost,              \* Cost[k]: the credits of a call of kind k
  DegradeAt,         \* credits used from which degraded_mode is set
  HardStopAt,        \* credits used from which hard_stopped is set
  FailureThreshold, Cooldown,   \* of the breaker
  StatusTTL,         \* how long a cached status is used
  MaxLatency,        \* environment: age of a statement's result on arrival
  MaxFaults,         \* bound: database errors
  MaxClock           \* bound: time

Kinds == {"standard", "advanced", "vision"}

ASSUME RouterAssumption ==
  /\ Kind \in [Calls -> Kinds] /\ Cost \in [Kinds -> Nat]
  /\ DegradeAt \in Nat \ {0} /\ HardStopAt \in Nat \ {0}
  /\ FailureThreshold \in Nat \ {0} /\ Cooldown \in Nat
  /\ StatusTTL \in Nat \ {0}
  /\ {MaxLatency, MaxFaults, MaxClock} \subseteq Nat

VARIABLES
  clock,
  stage,                 \* how far a call has come
  tier,                  \* effective_tier, or "vision"
  read,                  \* the status a call's statement returned, and when
  used,                  \* credit_budget.used; the flags follow from it
  credit_usage_log,      \* rows: the call and the tier it was charged for
  cache,                 \* _status_cache of the vendor
  consecutive_failures, open_until,   \* _breaker_state
  faults,
  blind,                 \* history: calls that could not read the status
  degradedAt, stoppedAt, \* history: when used reached the thresholds
  failedAt               \* history: when a failure was last recorded

budget == <<used, credit_usage_log, degradedAt, stoppedAt>>
breaker == <<consecutive_failures, open_until, failedAt>>
vars == <<clock, stage, tier, read, budget, cache, breaker, faults, blind>>

Reading == {"stop_read", "degraded_read", "charged"}
Waiting == {"vendor", "charging", "local"}
Over == {"answered", "answered_locally", "exhausted", "unavailable", "failed"}
Stage == {"new", "select_stop", "select_degraded"} \cup Reading \cup Waiting \cup Over

Status == [degraded_mode : BOOLEAN, hard_stopped : BOOLEAN]
Unlimited == [degraded_mode |-> FALSE, hard_stopped |-> FALSE]
NoStatus == [status |-> Unlimited, cached_at |-> -1]

Never == MaxClock + 1

Init ==
  /\ clock = 0
  /\ stage = [c \in Calls |-> "new"]
  /\ tier = Kind
  /\ read = [c \in Calls |-> [status |-> Unlimited, at |-> 0]]
  /\ used = 0 /\ credit_usage_log = {}
  /\ degradedAt = Never /\ stoppedAt = Never
  /\ cache = NoStatus
  /\ consecutive_failures = 0 /\ open_until = 0 /\ failedAt = 0
  /\ faults = 0 /\ blind = {}

-----------------------------------------------------------------------------
(* Deciding what becomes of a call.                                        *)

\* The two flags as charge_credits computes them.
Flags(credits) ==
  [degraded_mode |-> credits >= DegradeAt, hard_stopped |-> credits >= HardStopAt]

\* Deliberately wrong variant: a cached status never expires.
EverFresh == cache # NoStatus

Fresh == cache # NoStatus /\ clock - cache.cached_at < StatusTTL

BreakerIsOpen == clock < open_until

At(c, s) == stage[c] = s
Go(c, s) == stage' = [stage EXCEPT ![c] = s]

\* Past the budget: the vendor, or the local model while the breaker is open,
\* which pictures do not ask.
Dispatch(c, degraded) ==
  /\ tier' = [tier EXCEPT ![c] =
       IF Kind[c] = "advanced" /\ degraded THEN "standard" ELSE Kind[c]]
  /\ Go(c, IF Kind[c] # "vision" /\ BreakerIsOpen THEN "local" ELSE "vendor")

\* Deliberately wrong variant: a degraded budget refuses what a spent one should.
DecideStrictly(c, status) ==
  IF status.degraded_mode /\ Kind[c] # "standard"
    THEN Go(c, "exhausted") /\ UNCHANGED tier
    ELSE Dispatch(c, status.degraded_mode)

\* Both questions are answered by the same status.
Decide(c, status) ==
  IF status.hard_stopped /\ Kind[c] # "standard"
    THEN Go(c, "exhausted") /\ UNCHANGED tier
    ELSE Dispatch(c, status.degraded_mode)

Fault == faults < MaxFaults /\ faults' = faults + 1

-----------------------------------------------------------------------------
(* is_hard_stopped and is_degraded.                                        *)

Begin(c) ==
  /\ At(c, "new")
  /\ IF Fresh THEN Decide(c, cache.status)
              ELSE Go(c, "select_stop") /\ UNCHANGED tier
  /\ UNCHANGED <<clock, read, budget, cache, breaker, faults, blind>>

\* The database takes the SELECT of get_budget_status.
Select(c) ==
  /\ \/ At(c, "select_stop") /\ Go(c, "stop_read")
     \/ At(c, "select_degraded") /\ Go(c, "degraded_read")
  /\ read' = [read EXCEPT ![c] = [status |-> Flags(used), at |-> clock]]
  /\ UNCHANGED <<clock, tier, budget, cache, breaker, faults, blind>>

\* Its row arrives and is cached, over whatever was cached meanwhile.
Remember(c) ==
  /\ cache' = [status |-> read[c].status, cached_at |-> clock]
  /\ \/ At(c, "stop_read") /\ Decide(c, read[c].status)
     \/ At(c, "degraded_read") /\ Dispatch(c, read[c].status.degraded_mode)
  /\ UNCHANGED <<clock, read, budget, breaker, faults, blind>>

\* Deliberately wrong variant: what stands for an unreadable status is cached.
SelectFailsCached(c) ==
  /\ Fault /\ blind' = blind \cup {c}
  /\ stage[c] \in {"select_stop", "stop_read", "select_degraded", "degraded_read"}
  /\ cache' = [status |-> Unlimited, cached_at |-> clock]
  /\ Dispatch(c, FALSE)
  /\ UNCHANGED <<clock, read, budget, breaker>>

\* An error reads as a budget without limits, and is not cached: the second
\* question asks the cache again and then the database.
SelectFails(c) ==
  /\ Fault /\ blind' = blind \cup {c}
  /\ \/ /\ stage[c] \in {"select_stop", "stop_read"}
        /\ IF Fresh \/ Kind[c] = "vision"
             THEN Dispatch(c, cache.status.degraded_mode)
             ELSE Go(c, "select_degraded") /\ UNCHANGED tier
     \/ /\ stage[c] \in {"select_degraded", "degraded_read"}
        /\ Dispatch(c, FALSE)
  /\ UNCHANGED <<clock, read, budget, cache, breaker>>

-----------------------------------------------------------------------------
(* The vendor, the charge and the local model.                             *)

VendorAnswers(c) ==
  /\ At(c, "vendor") /\ Go(c, "charging")
  /\ IF Kind[c] = "vision" THEN UNCHANGED <<consecutive_failures, open_until>>
       ELSE consecutive_failures' = 0 /\ open_until' = 0
  /\ UNCHANGED <<clock, tier, read, budget, cache, failedAt, faults, blind>>

\* Deliberately wrong variant: one failure more is waited for.
VendorFailsLate(c) ==
  /\ At(c, "vendor") /\ Go(c, "local")
  /\ IF Kind[c] = "vision" THEN UNCHANGED breaker
       ELSE /\ consecutive_failures' = consecutive_failures + 1
            /\ open_until' = IF consecutive_failures >= FailureThreshold
                               THEN clock + Cooldown ELSE open_until
            /\ failedAt' = clock
  /\ UNCHANGED <<clock, tier, read, budget, cache, faults, blind>>

\* An error or a timeout; for pictures, an empty answer too, and not counted.
VendorFails(c) ==
  /\ At(c, "vendor") /\ Go(c, "local")
  /\ IF Kind[c] = "vision" THEN UNCHANGED breaker
       ELSE /\ consecutive_failures' = consecutive_failures + 1
            /\ open_until' = IF consecutive_failures' >= FailureThreshold
                               THEN clock + Cooldown ELSE open_until
            /\ failedAt' = clock
  /\ UNCHANGED <<clock, tier, read, budget, cache, faults, blind>>

\* Deliberately wrong variant: a downgraded call is charged as the call asked for.
ChargeAsAsked(c) ==
  /\ used' = used + Cost[Kind[c]]
  /\ credit_usage_log' = credit_usage_log \cup {[call |-> c, tier |-> tier[c]]}
  /\ degradedAt' = IF used' >= DegradeAt /\ degradedAt = Never THEN clock ELSE degradedAt
  /\ stoppedAt' = IF used' >= HardStopAt /\ stoppedAt = Never THEN clock ELSE stoppedAt

\* charge_credits up to its commit: the row of the vendor and the log.
Charge(c) ==
  /\ used' = used + Cost[tier[c]]
  /\ credit_usage_log' = credit_usage_log \cup {[call |-> c, tier |-> tier[c]]}
  /\ degradedAt' = IF used' >= DegradeAt /\ degradedAt = Never THEN clock ELSE degradedAt
  /\ stoppedAt' = IF used' >= HardStopAt /\ stoppedAt = Never THEN clock ELSE stoppedAt

ChargeCommits(c) ==
  /\ At(c, "charging") /\ Go(c, "charged")
  /\ Charge(c)
  /\ read' = [read EXCEPT ![c] = [status |-> Flags(used'), at |-> clock]]
  /\ UNCHANGED <<clock, tier, cache, breaker, faults, blind>>

\* The status after the charge is cached and the answer returned.
ChargeReturns(c) ==
  /\ At(c, "charged") /\ Go(c, "answered")
  /\ cache' = [status |-> read[c].status, cached_at |-> clock]
  /\ UNCHANGED <<clock, tier, read, budget, breaker, faults, blind>>

\* An error of the charge, or a lost answer to its commit, loses the vendor's
\* answer: route_completion raises it.
ChargeFails(c) ==
  /\ Fault /\ Go(c, "failed")
  /\ stage[c] \in {"charging", "charged"}
  /\ UNCHANGED <<clock, tier, read, budget, cache, breaker, blind>>

\* The local model answers, fails, or is not there.
LocalReturns(c) ==
  /\ At(c, "local")
  /\ Go(c, "answered_locally") \/ Go(c, "unavailable")
  /\ UNCHANGED <<clock, tier, read, budget, cache, breaker, faults, blind>>

Tick ==
  /\ clock < MaxClock /\ clock' = clock + 1
  /\ \A c \in Calls : stage[c] \in Reading => clock < read[c].at + MaxLatency
  /\ UNCHANGED <<stage, tier, read, budget, cache, breaker, faults, blind>>

Next ==
  \/ \E c \in Calls :
       \/ Begin(c) \/ Select(c) \/ Remember(c) \/ SelectFails(c)
       \/ VendorAnswers(c) \/ VendorFails(c)
       \/ ChargeCommits(c) \/ ChargeReturns(c) \/ ChargeFails(c)
       \/ LocalReturns(c)
  \/ Tick

Spec == Init /\ [][Next]_vars
-----------------------------------------------------------------------------
(* Properties.                                                             *)

TypeOK ==
  /\ clock \in 0 .. MaxClock
  /\ stage \in [Calls -> Stage]
  /\ tier \in [Calls -> Kinds]
  /\ read \in [Calls -> [status : Status, at : 0 .. MaxClock]]
  /\ used \in Nat
  /\ credit_usage_log \subseteq [call : Calls, tier : Kinds]
  /\ cache \in [status : Status, cached_at : -1 .. MaxClock]
  /\ consecutive_failures \in Nat /\ open_until \in Nat
  /\ faults \in 0 .. MaxFaults
  /\ blind \subseteq Calls
  /\ {degradedAt, stoppedAt} \subseteq (0 .. MaxClock) \cup {Never}
  /\ failedAt \in 0 .. MaxClock

\* The step asks the vendor, on behalf of call c.
Asks(c) == ~ At(c, "vendor") /\ stage'[c] = "vendor"

\* A budget that is used up is found out about: StatusTTL and one statement after
\* the thresholds were reached no picture and no advanced call goes to the vendor,
\* and after the first threshold none goes as advanced, whatever statuses were
\* cached late or out of order; calls that could not read the budget excepted
\* (get_budget_status, charge_credits).
BudgetHeeded ==
  [][\A c \in Calls : Asks(c) /\ c \notin blind' =>
       /\ tier'[c] # "standard" => clock < stoppedAt + MaxLatency + StatusTTL
       /\ tier'[c] = "advanced" => clock < degradedAt + MaxLatency + StatusTTL]_vars

\* Calls are refused and downgraded only once the credits really are used.
RefusedForCause ==
  \A c \in Calls :
    /\ At(c, "exhausted") => used >= HardStopAt
    /\ tier[c] # Kind[c] => used >= DegradeAt

\* The credits used are those of the log.  An answer of the vendor that reached a
\* user is in it, at the price of the tier that gave it, and no call that was
\* refused or fell back to the local model is (route_completion, charge_credits).
BooksBalance ==
  /\ used = MapThenSumSet(LAMBDA r : Cost[r.tier], credit_usage_log)
  /\ \A c \in Calls : At(c, "answered") => [call |-> c, tier |-> tier[c]] \in credit_usage_log
  /\ \A r \in credit_usage_log : stage[r.call] \in {"charged", "answered", "failed"}

\* After FailureThreshold failures in a row the vendor is left alone for Cooldown
\* from the last of them, however many calls were in flight when the breaker
\* opened and whenever those fail (_record_sarvam_failure).  A late answer to one
\* of them ends the series.
DownVendorLeftAlone ==
  [][\A c \in Calls :
       Asks(c) /\ Kind[c] # "vision" /\ consecutive_failures >= FailureThreshold
         => clock >= failedAt + Cooldown]_vars

\* Why they hold.  A status that is about to be cached is at most MaxLatency old,
\* a cached one was when it was cached; the flags say what was used at the time.
NotYet ==
  /\ used < DegradeAt => degradedAt = Never
  /\ used < HardStopAt => stoppedAt = Never

\* What the status says was so until `until` at least, and is if it says so.
Truthful(status, until) ==
  /\ IF status.degraded_mode THEN used >= DegradeAt ELSE until <= degradedAt
  /\ IF status.hard_stopped THEN used >= HardStopAt ELSE until <= stoppedAt

ReadsAreRecent ==
  \A c \in Calls : stage[c] \in Reading =>
    /\ read[c].at <= clock /\ clock <= read[c].at + MaxLatency
    /\ Truthful(read[c].status, read[c].at)

CacheIsRecent ==
  cache # NoStatus =>
    /\ cache.cached_at <= clock
    /\ Truthful(cache.status, cache.cached_at - MaxLatency)

BreakerCoolsDown ==
  consecutive_failures >= FailureThreshold => open_until = failedAt + Cooldown

\* Only after an error is the database asked a second time.
AsksTwiceIfBlind ==
  \A c \in Calls : stage[c] \in {"select_degraded", "degraded_read"} => c \in blind

\* A call is in the log from its charge on, and its tier stays what it was.
ChargedIsLogged ==
  \A c \in Calls : At(c, "charged") => [call |-> c, tier |-> tier[c]] \in credit_usage_log

BooksInv == IsFiniteSet(credit_usage_log) /\ BooksBalance /\ ChargedIsLogged

RouterInv ==
  /\ TypeOK /\ NotYet /\ ReadsAreRecent /\ CacheIsRecent /\ AsksTwiceIfBlind
  /\ BreakerCoolsDown
  /\ RefusedForCause
=============================================================================
