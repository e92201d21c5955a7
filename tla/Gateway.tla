------------------------------- MODULE Gateway -------------------------------
(***************************************************************************)
(* The webhook of services/gateway/main.py and the two tables it guards    *)
(* itself with (shared/db/dedup.py): the platform delivers a message, and  *)
(* delivers it again when it likes; each delivery is one asyncio task that *)
(* awaits the dedup insert, then the rate-limit upsert, then hands the     *)
(* turn to a fire-and-forget background task.  The process may crash; the  *)
(* tables survive.  A cron job prunes both tables (0008_dedup_retention,   *)
(* scripts/cleanup_dedup.py).                                              *)
(*                                                                         *)
(* A delivery is a pair <<message, attempt>>.  Time is counted in hours:   *)
(* an instant is known up to the hour it lies in.                          *)
(***************************************************************************)
EXTENDS Integers, FiniteSets

CONSTANTS
  Messages, Phones, Sender,
  Attempts,        \* delivery attempts the platform makes of one message
  Refused,         \* messages whose payload the handler refuses unread
  Unsupported,     \* messages of a type the dispatcher has no branch for
  MaxPerHour,      \* settings.max_messages_per_hour
  MaxHour,         \* bound: the model's clock stops here
  RetryWindow,     \* hours after a delivery in which the platform retries it
  MaxLatency,      \* hours a request handler may take up to its last commit
  DedupRetention,  \* hours a webhook_dedup row is kept
  RateRetention,   \* hours a rate_limit_counters row is kept
  MaxFaults,       \* bound: errors of the database and of the sender
  MaxCrashes       \* bound: process crashes

Deliveries == Messages \X Attempts
Hours == 0 .. MaxHour
Absent == MaxHour + 1

ASSUME GatewayAssumption ==
  /\ IsFiniteSet(Messages) /\ IsFiniteSet(Attempts)
  /\ Sender \in [Messages -> Phones]
  /\ Refused \subseteq Messages
  /\ Unsupported \subseteq Messages
  /\ {MaxPerHour, MaxHour, MaxFaults, MaxCrashes} \subseteq Nat
  /\ {RetryWindow, MaxLatency, DedupRetention, RateRetention} \subseteq Nat

\* The timing the deduplication rests on: retries of a message end, and the
\* handlers of those retries are done, before its dedup row may be pruned.
ASSUME RetentionAssumption ==
  /\ RetryWindow + MaxLatency < DedupRetention
  /\ MaxLatency < RateRetention

VARIABLES
  now,                  \* the hour it is
  stage,                \* stage[d]: how far delivery d has come
  arrived,              \* arrived[d]: the hour the request came in
  bucket,               \* bucket[d]: the hour_bucket the handler computed
  webhook_dedup,        \* webhook_dedup[m]: created_at of the row, or Absent
  rate_limit_counters,  \* message_count by <<phone, bucket>>, 0 for no row
  fresh,                \* history: deliveries mark_seen_or_skip answered True
  admitted,             \* history: deliveries handed to the background task
  faults, crashes

vars == <<now, stage, arrived, bucket, webhook_dedup, rate_limit_counters,
          fresh, admitted, faults, crashes>>

dbVars == <<webhook_dedup, rate_limit_counters>>

Handling == {"received", "inserted"}
InTurn == {"queued", "running"}
\* dropped: gone without a row of its own; swallowed: gone, the row committed.
Stage == Handling \cup InTurn \cup
           {"unsent", "ignored", "dropped", "swallowed",
            "answered", "unanswered", "silent", "lost"}

Init ==
  /\ now = 0
  /\ stage = [d \in Deliveries |-> "unsent"]
  /\ arrived = [d \in Deliveries |-> 0]
  /\ bucket = [d \in Deliveries |-> 0]
  /\ webhook_dedup = [m \in Messages |-> Absent]
  /\ rate_limit_counters = [b \in Phones \X Hours |-> 0]
  /\ fresh = {} /\ admitted = {}
  /\ faults = 0 /\ crashes = 0

Advance(d, to) == stage' = [stage EXCEPT ![d] = to]

Fault == faults < MaxFaults /\ faults' = faults + 1

-----------------------------------------------------------------------------
(* The request handler, receive_message.                                   *)

\* A POST arrives.  Oversized, badly signed, unparsable and badly numbered
\* payloads leave before the first database call.
Receive(d) ==
  /\ stage[d] = "unsent"
  /\ \A a \in Attempts :
       stage[<<d[1], a>>] # "unsent" =>
         now <= arrived[<<d[1], a>>] + RetryWindow
  /\ Advance(d, IF d[1] \in Refused THEN "ignored" ELSE "received")
  /\ arrived' = [arrived EXCEPT ![d] = now]
  /\ UNCHANGED <<now, bucket, dbVars, fresh, admitted, faults, crashes>>

\* Deliberately wrong variant: ON CONFLICT DO NOTHING instead of a plain INSERT,
\* so that a second delivery is not told apart from the first.
MarkSeenUpserting(d) ==
  /\ stage[d] = "received"
  /\ webhook_dedup' = [webhook_dedup EXCEPT ![d[1]] = now]
  /\ bucket' = [bucket EXCEPT ![d] = now]
  /\ fresh' = fresh \cup {d}
  /\ Advance(d, "inserted")
  /\ UNCHANGED <<now, arrived, rate_limit_counters, admitted, faults, crashes>>

\* INSERT INTO webhook_dedup answers True for the first delivery only; the
\* handler then computes hour_bucket before it waits for the database again.
MarkSeen(d) ==
  /\ stage[d] = "received"
  /\ IF webhook_dedup[d[1]] = Absent
       THEN /\ webhook_dedup' = [webhook_dedup EXCEPT ![d[1]] = now]
            /\ bucket' = [bucket EXCEPT ![d] = now]
            /\ fresh' = fresh \cup {d}
            /\ Advance(d, "inserted")
       ELSE /\ Advance(d, "ignored")
            /\ UNCHANGED <<webhook_dedup, bucket, fresh>>
  /\ UNCHANGED <<now, arrived, rate_limit_counters, admitted, faults, crashes>>

\* Deliberately wrong variant: the dedup check fails open.
MarkSeenFailsOpen(d) ==
  /\ stage[d] = "received"
  /\ Fault
  /\ admitted' = admitted \cup {d}
  /\ Advance(d, "queued")
  /\ UNCHANGED <<now, arrived, bucket, webhook_dedup, rate_limit_counters,
                 fresh, crashes>>

\* Any exception is read as "already seen": the delivery is dropped with a
\* 200.  The row may have been committed before the error came back.
MarkSeenFails(d) ==
  /\ stage[d] = "received"
  /\ Fault
  /\ \/ UNCHANGED webhook_dedup /\ Advance(d, "dropped")
     \/ /\ webhook_dedup[d[1]] = Absent
        /\ webhook_dedup' = [webhook_dedup EXCEPT ![d[1]] = now]
        /\ Advance(d, "swallowed")
  /\ UNCHANGED <<now, arrived, bucket, rate_limit_counters, fresh, admitted,
                 crashes>>

Charge(d) ==
  [rate_limit_counters EXCEPT ![<<Sender[d[1]], bucket[d]>>] = @ + 1]

\* Deliberately wrong variants: the limit is compared with the count before the
\* upsert, and the last message of the quota is refused.
CountMessageLate(d) ==
  /\ stage[d] = "inserted"
  /\ rate_limit_counters' = Charge(d)
  /\ IF rate_limit_counters[<<Sender[d[1]], bucket[d]>>] <= MaxPerHour
       THEN admitted' = admitted \cup {d} /\ Advance(d, "queued")
       ELSE UNCHANGED admitted /\ Advance(d, "ignored")
  /\ UNCHANGED <<now, arrived, bucket, webhook_dedup, fresh, faults, crashes>>

CountMessageStrict(d) ==
  /\ stage[d] = "inserted"
  /\ rate_limit_counters' = Charge(d)
  /\ IF Charge(d)[<<Sender[d[1]], bucket[d]>>] < MaxPerHour
       THEN admitted' = admitted \cup {d} /\ Advance(d, "queued")
       ELSE UNCHANGED admitted /\ Advance(d, "ignored")
  /\ UNCHANGED <<now, arrived, bucket, webhook_dedup, fresh, faults, crashes>>

\* The upsert counts the message even when it is over the limit; only a
\* message within the limit reaches the background task.
CountMessage(d) ==
  /\ stage[d] = "inserted"
  /\ rate_limit_counters' = Charge(d)
  /\ IF Charge(d)[<<Sender[d[1]], bucket[d]>>] <= MaxPerHour
       THEN /\ admitted' = admitted \cup {d}
            /\ Advance(d, "queued")
       ELSE /\ UNCHANGED admitted
            /\ Advance(d, "ignored")
  /\ UNCHANGED <<now, arrived, bucket, webhook_dedup, fresh, faults, crashes>>

\* A database error here escapes to the handler's catch-all, which answers
\* 200; the message stays marked as seen.
CountMessageFails(d) ==
  /\ stage[d] = "inserted"
  /\ Fault
  /\ rate_limit_counters' \in {rate_limit_counters, Charge(d)}
  /\ Advance(d, "swallowed")
  /\ UNCHANGED <<now, arrived, bucket, webhook_dedup, fresh, admitted, crashes>>

-----------------------------------------------------------------------------
(* The background task, _dispatch_to_orchestrator.                         *)

\* A message type without a branch returns before any turn and any reply.
StartTurn(d) ==
  /\ stage[d] = "queued"
  /\ Advance(d, IF d[1] \in Unsupported THEN "silent" ELSE "running")
  /\ UNCHANGED <<now, arrived, bucket, dbVars, fresh, admitted, faults, crashes>>

\* The turn ran, or failed in the media download, the transcription or the
\* graph: every one of these paths ends in sending the sender something ...
FinishTurn(d) ==
  /\ stage[d] = "running"
  /\ Advance(d, "answered")
  /\ UNCHANGED <<now, arrived, bucket, dbVars, fresh, admitted, faults, crashes>>

\* ... which may fail: the error of an answer is caught and logged, that of an
\* apology ends the background task.  Nothing sends it again.
FinishTurnUnsent(d) ==
  /\ stage[d] = "running"
  /\ Fault
  /\ Advance(d, "unanswered")
  /\ UNCHANGED <<now, arrived, bucket, dbVars, fresh, admitted, crashes>>

-----------------------------------------------------------------------------
(* The surroundings: the process, the clock and the cron job.              *)

\* Handlers and background tasks live in the one process and die with it.
Crash ==
  /\ crashes < MaxCrashes
  /\ crashes' = crashes + 1
  /\ stage' = [d \in Deliveries |->
                 CASE stage[d] = "received" -> "dropped"
                   [] stage[d] \in {"inserted"} \cup InTurn -> "lost"
                   [] OTHER -> stage[d]]
  /\ UNCHANGED <<now, arrived, bucket, dbVars, fresh, admitted, faults>>

Tick ==
  /\ now < MaxHour
  /\ \A d \in Deliveries : stage[d] \in Handling => now < arrived[d] + MaxLatency
  /\ now' = now + 1
  /\ UNCHANGED <<stage, arrived, bucket, dbVars, fresh, admitted, faults, crashes>>

\* Deliberately wrong variant: the pruning job empties both tables.
PruneAll ==
  /\ webhook_dedup' = [m \in Messages |-> Absent]
  /\ rate_limit_counters' = [b \in Phones \X Hours |-> 0]
  /\ UNCHANGED <<now, stage, arrived, bucket, fresh, admitted, faults, crashes>>

\* Rows older than the retention go.  A row exactly the retention old, in
\* hours, may be on either side of the cutoff instant.
Prune ==
  \E m0 \in SUBSET {m \in Messages : webhook_dedup[m] + DedupRetention = now},
     b0 \in SUBSET {b \in Phones \X Hours : b[2] + RateRetention = now} :
    /\ webhook_dedup' = [m \in Messages |->
         IF m \in m0 \/ webhook_dedup[m] + DedupRetention < now
           THEN Absent ELSE webhook_dedup[m]]
    /\ rate_limit_counters' = [b \in Phones \X Hours |->
         IF b \in b0 \/ b[2] + RateRetention < now
           THEN 0 ELSE rate_limit_counters[b]]
    /\ UNCHANGED <<now, stage, arrived, bucket, fresh, admitted, faults, crashes>>

Handle(d) ==
  \/ MarkSeen(d) \/ MarkSeenFails(d)
  \/ CountMessage(d) \/ CountMessageFails(d)
  \/ StartTurn(d) \/ FinishTurn(d) \/ FinishTurnUnsent(d)

Next ==
  \/ \E d \in Deliveries : Receive(d) \/ Handle(d)
  \/ Crash \/ Tick \/ Prune

Spec == Init /\ [][Next]_vars

\* The event loop runs every ready task: no handler or background task waits
\* for ever.  Nothing is assumed of the platform, the clock or the cron job.
FairSpec == Spec /\ \A d \in Deliveries : WF_vars(Handle(d))

-----------------------------------------------------------------------------
(* Properties.                                                             *)

TypeOK ==
  /\ now \in Hours
  /\ stage \in [Deliveries -> Stage]
  /\ arrived \in [Deliveries -> Hours]
  /\ bucket \in [Deliveries -> Hours]
  /\ webhook_dedup \in [Messages -> Hours \cup {Absent}]
  /\ rate_limit_counters \in [Phones \X Hours -> Nat]
  /\ fresh \subseteq Deliveries
  /\ admitted \subseteq Deliveries
  /\ faults \in 0 .. MaxFaults
  /\ crashes \in 0 .. MaxCrashes

AdmittedIn(b) == {d \in admitted : <<Sender[d[1]], bucket[d]>> = b}

\* A message starts at most one turn, however often and however long after
\* the platform redelivers it, across crashes, database errors and pruning
\* (mark_seen_or_skip; docs/security.md "Idempotency").
AtMostOneTurn ==
  \A d1, d2 \in admitted : d1[1] = d2[1] => d1 = d2

\* No phone starts more than MaxPerHour turns in one hour bucket, also when
\* handlers of different hours and the pruning job interleave
\* (check_and_increment_rate_limit; docs/security.md "Per-number rate limiting").
RateBound ==
  \A b \in Phones \X Hours : Cardinality(AdmittedIn(b)) <= MaxPerHour

\* Why AtMostOneTurn holds.  The retries of a message and the handlers of those
\* retries are confined to a window after its first delivery (Timely), a fresh
\* delivery's row stays at least that long (RowOutlivesRetries), so no second
\* delivery can be fresh (FreshIsUnique).
Timely ==
  /\ \A d \in Deliveries : arrived[d] <= now
  /\ \A d \in Deliveries :
       stage[d] \in Handling => now <= arrived[d] + MaxLatency
  /\ \A d1, d2 \in Deliveries :
       d1[1] = d2[1] /\ stage[d1] # "unsent" /\ stage[d2] # "unsent"
         => arrived[d1] <= arrived[d2] + RetryWindow

RowOutlivesRetries ==
  \A d \in fresh :
    /\ stage[d] \notin {"unsent", "received"}
    /\ arrived[d] <= bucket[d] /\ bucket[d] <= now
    /\ \/ webhook_dedup[d[1]] = bucket[d]
       \/ bucket[d] + DedupRetention <= now

FreshIsUnique == \A d1, d2 \in fresh : d1[1] = d2[1] => d1 = d2

\* Why RateBound holds.  The counter of a bucket is never behind the turns
\* admitted in it until the row may be pruned, and no handler still holds so
\* old a bucket.
CounterCovers ==
  /\ \A b \in Phones \X Hours :
       \/ Cardinality(AdmittedIn(b)) <= rate_limit_counters[b]
       \/ b[2] + RateRetention <= now
  /\ admitted \subseteq fresh
  /\ \A d \in Deliveries :
       stage[d] = "inserted" => d \in fresh /\ d \notin admitted

IInv ==
  /\ TypeOK /\ Timely /\ RowOutlivesRetries /\ FreshIsUnique
  /\ CounterCovers /\ RateBound

\* The webhook implements Admission: statusOf and quotaUsed are the abstract
\* state as the gateway's tasks and history show it.
HasStage(m, S) == \E a \in Attempts : <<m, a>> \in admitted /\ stage[<<m, a>>] \in S

statusOf ==
  [m \in Messages |->
     IF HasStage(m, InTurn) THEN "admitted"
     ELSE IF HasStage(m, {"answered"}) THEN "answered"
     ELSE IF HasStage(m, {"unanswered"}) THEN "unanswered"
     ELSE IF HasStage(m, {"silent"}) THEN "silent"
     ELSE IF HasStage(m, {"lost"}) THEN "lost"
     ELSE "new"]

quotaUsed == [b \in Phones \X Hours |-> Cardinality(AdmittedIn(b))]

A == INSTANCE Admission WITH status <- statusOf, quota <- quotaUsed

ImplementsAdmission == A!ASpec

OverLimit(p) ==
  \E h \in Hours : rate_limit_counters[<<p, h>>] > MaxPerHour

\* Once a delivery of a message gets past the payload checks, the message is
\* answered (or its type is one the dispatcher ignores), unless its phone is over
\* the limit in some hour, or an error or a crash struck the one of its deliveries
\* that has the row, or struck before any of them had one.  What strikes another
\* message, or one delivery of several without a row, costs this message nothing;
\* nor do redeliveries racing the first one.
DeliveredIsAnswered ==
  \A m \in Messages :
    (\E a \in Attempts : stage[<<m, a>>] = "received")
      ~> \/ HasStage(m, {"answered", "silent"})
         \/ OverLimit(Sender[m])
         \/ \E a \in Attempts : stage[<<m, a>>] \in {"swallowed", "unanswered", "lost"}
         \/ \A a \in Attempts : stage[<<m, a>>] \in {"unsent", "dropped"}
=============================================================================
