---------------------------- MODULE GatewayProofs ----------------------------
(***************************************************************************)
(* Proofs about Gateway, for any finite sets of messages and attempts and  *)
(* any bounds that satisfy the assumptions of Gateway.                     *)
(***************************************************************************)
EXTENDS Gateway, FiniteSetTheorems, TLAPS

\* The database only ever sees deliveries of a finite set.
LEMMA DeliveriesFinite == IsFiniteSet(Deliveries)
  BY GatewayAssumption, FS_Product DEF Deliveries

\* The turns charged to a bucket can be counted.
LEMMA AdmittedInFinite ==
  ASSUME admitted \subseteq Deliveries, NEW b
  PROVE  IsFiniteSet(AdmittedIn(b)) /\ Cardinality(AdmittedIn(b)) \in Nat
<1>1. AdmittedIn(b) \in SUBSET Deliveries
  BY DEF AdmittedIn
<1>. QED
  BY <1>1, DeliveriesFinite, FS_Subset, FS_CardinalityType

-----------------------------------------------------------------------------
(* Type correctness.                                                       *)

\* Every variable keeps its type: hours stay on the clock, counters are
\* naturals, and only a delivery that inserted its own dedup row is admitted.
THEOREM TypeCorrect == Spec => []TypeOK
<1>1. Init => TypeOK
  BY GatewayAssumption DEF Init, TypeOK, Hours, Absent, Stage
<1>2. TypeOK /\ [Next]_vars => TypeOK'
  <2> SUFFICES ASSUME TypeOK, [Next]_vars PROVE TypeOK'
    OBVIOUS
  <2> USE GatewayAssumption DEF TypeOK
  <2>1. ASSUME NEW d \in Deliveries, Receive(d) PROVE TypeOK'
    BY <2>1 DEF Receive, Advance, Stage, Handling, dbVars
  <2>2. ASSUME NEW d \in Deliveries, MarkSeen(d) PROVE TypeOK'
    BY <2>2 DEF MarkSeen, Advance, Stage, Handling, Deliveries
  <2>3. ASSUME NEW d \in Deliveries, MarkSeenFails(d) PROVE TypeOK'
    BY <2>3 DEF MarkSeenFails, Fault, Advance, Stage, Deliveries
  <2>4. ASSUME NEW d \in Deliveries PROVE Charge(d) \in [Phones \X Hours -> Nat]
    BY DEF Charge, Deliveries
  <2>5. ASSUME NEW d \in Deliveries, CountMessage(d) PROVE TypeOK'
    BY <2>4, <2>5 DEF CountMessage, Advance, Stage, InTurn
  <2>6. ASSUME NEW d \in Deliveries, CountMessageFails(d) PROVE TypeOK'
    BY <2>4, <2>6 DEF CountMessageFails, Fault, Advance, Stage
  <2>7. ASSUME NEW d \in Deliveries, StartTurn(d) PROVE TypeOK'
    BY <2>7 DEF StartTurn, Advance, Stage, InTurn, dbVars
  <2>8. ASSUME NEW d \in Deliveries, FinishTurn(d) \/ FinishTurnUnsent(d) PROVE TypeOK'
    BY <2>8 DEF FinishTurn, FinishTurnUnsent, Fault, Advance, Stage, dbVars
  <2>9. CASE Crash
    BY <2>9 DEF Crash, Stage, dbVars
  <2>10. CASE Tick
    BY <2>10 DEF Tick, Hours, dbVars
  <2>11. CASE Prune
    BY <2>11 DEF Prune
  <2>12. CASE UNCHANGED vars
    BY <2>12 DEF vars
  <2>. QED
    BY <2>1, <2>2, <2>3, <2>5, <2>6, <2>7, <2>8, <2>9, <2>10, <2>11, <2>12
       DEF Next, Handle
<1>. QED
  BY <1>1, <1>2, PTL DEF Spec

-----------------------------------------------------------------------------
(* The inductive invariant, part by part.  Each lemma shows that one part  *)
(* survives a step from a state that satisfies all of them.                *)

LEMMA InitIInv == Init => IInv
<1> SUFFICES ASSUME Init PROVE IInv
  OBVIOUS
<1>1. TypeOK
  BY GatewayAssumption DEF Init, TypeOK, Hours, Absent, Stage
<1>2. Timely /\ RowOutlivesRetries /\ FreshIsUnique
  BY GatewayAssumption
     DEF Init, Timely, RowOutlivesRetries, FreshIsUnique, Handling
<1>3. \A b : Cardinality(AdmittedIn(b)) = 0
  BY FS_EmptySet DEF Init, AdmittedIn
<1>4. CounterCovers /\ RateBound
  BY <1>3, GatewayAssumption DEF Init, CounterCovers, RateBound
<1>. QED
  BY <1>1, <1>2, <1>4 DEF IInv

\* The platform's retries and the handlers they start stay in their window.
LEMMA TimelyStep ==
  ASSUME TypeOK, TypeOK', Timely, [Next]_vars
  PROVE  Timely'
<1> USE GatewayAssumption DEF TypeOK, Timely, Hours
<1>1. ASSUME NEW d \in Deliveries, Receive(d) PROVE Timely'
  <2>1. \A a \in Attempts : <<d[1], a>> \in Deliveries
    BY DEF Deliveries
  <2>2. \A e \in Deliveries : e[1] = d[1] => e[2] \in Attempts /\ e = <<d[1], e[2]>>
    BY DEF Deliveries
  <2>3. \A e \in Deliveries :
          e[1] = d[1] /\ stage[e] # "unsent" => now <= arrived[e] + RetryWindow
    BY <1>1, <2>2 DEF Receive
  <2>4. \A e \in Deliveries \ {d} : stage'[e] = stage[e] /\ arrived'[e] = arrived[e]
    BY <1>1 DEF Receive, Advance
  <2>5. arrived'[d] = now /\ now' = now
    BY <1>1 DEF Receive
  <2>6. \A d1, d2 \in Deliveries :
          d1[1] = d2[1] /\ stage'[d1] # "unsent" /\ stage'[d2] # "unsent"
            => arrived'[d1] <= arrived'[d2] + RetryWindow
    BY <2>3, <2>4, <2>5, Zenon, SMT
  <2>. QED
    BY <2>4, <2>5, <2>6, SMTT(40)
<1>2. ASSUME NEW d \in Deliveries, Handle(d) PROVE Timely'
  BY <1>2 DEF Handle, MarkSeen, MarkSeenFails, CountMessage, CountMessageFails,
              StartTurn, FinishTurn, FinishTurnUnsent, Advance, Handling
<1>3. CASE Crash
  BY <1>3 DEF Crash, Handling, InTurn
<1>4. CASE Tick
  BY <1>4 DEF Tick, Handling
<1>5. CASE Prune
  BY <1>5 DEF Prune
<1>6. CASE UNCHANGED vars
  BY <1>6 DEF vars
<1>. QED
  BY <1>1, <1>2, <1>3, <1>4, <1>5, <1>6 DEF Next

\* A row is not pruned while a retry of its message could still come in.
LEMMA RowStep ==
  ASSUME TypeOK, TypeOK', Timely, RowOutlivesRetries, [Next]_vars
  PROVE  RowOutlivesRetries'
<1> USE GatewayAssumption DEF TypeOK, RowOutlivesRetries, Hours, Absent
<1>1. ASSUME NEW d \in Deliveries, Receive(d) PROVE RowOutlivesRetries'
  BY <1>1 DEF Receive, Advance, dbVars
<1>2. ASSUME NEW d \in Deliveries, MarkSeen(d) PROVE RowOutlivesRetries'
  <2>1. CASE webhook_dedup[d[1]] # Absent
    BY <1>2, <2>1 DEF MarkSeen, Advance
  <2>2. CASE webhook_dedup[d[1]] = Absent
    <3>1. d[1] \in Messages /\ now # Absent
      BY DEF Deliveries
    <3>2. \A e \in fresh : e # d /\ e[1] \in Messages
      BY <1>2 DEF MarkSeen, Deliveries
    <3>3. \A e \in fresh :
            webhook_dedup[e[1]] = bucket[e] => webhook_dedup'[e[1]] = bucket[e]
      BY <1>2, <2>2, <3>1, <3>2 DEF MarkSeen
    <3>4. \A e \in fresh : stage'[e] = stage[e] /\ bucket'[e] = bucket[e]
      BY <1>2, <2>2, <3>2 DEF MarkSeen, Advance
    <3>5. /\ fresh' = fresh \cup {d} /\ now' = now /\ arrived' = arrived
          /\ stage'[d] = "inserted" /\ bucket'[d] = now /\ webhook_dedup'[d[1]] = now
      BY <1>2, <2>2, <3>1 DEF MarkSeen, Advance
    <3>6. arrived[d] <= now
      BY DEF Timely
    <3>7. ASSUME NEW e \in fresh
          PROVE  /\ stage'[e] \notin {"unsent", "received"}
                 /\ arrived'[e] <= bucket'[e] /\ bucket'[e] <= now'
                 /\ \/ webhook_dedup'[e[1]] = bucket'[e]
                    \/ bucket'[e] + DedupRetention <= now'
      BY <3>3, <3>4, <3>5
    <3>8. /\ stage'[d] \notin {"unsent", "received"}
          /\ arrived'[d] <= bucket'[d] /\ bucket'[d] <= now'
          /\ webhook_dedup'[d[1]] = bucket'[d]
      BY <3>1, <3>5, <3>6
    <3>9. \A e \in fresh' : e = d \/ e \in fresh
      BY <3>5
    <3>. QED
      BY <3>7, <3>8, <3>9, Zenon
  <2>. QED
    BY <2>1, <2>2
<1>3. ASSUME NEW d \in Deliveries, MarkSeenFails(d) PROVE RowOutlivesRetries'
  BY <1>3 DEF MarkSeenFails, Advance, Deliveries
<1>4. ASSUME NEW d \in Deliveries, CountMessage(d) \/ CountMessageFails(d)
      PROVE  RowOutlivesRetries'
  BY <1>4 DEF CountMessage, CountMessageFails, Advance
<1>5. ASSUME NEW d \in Deliveries, StartTurn(d) \/ FinishTurn(d) \/ FinishTurnUnsent(d)
      PROVE  RowOutlivesRetries'
  BY <1>5 DEF StartTurn, FinishTurn, FinishTurnUnsent, Advance, dbVars
<1>6. CASE Crash
  BY <1>6 DEF Crash, dbVars, Handling, InTurn
<1>7. CASE Tick
  BY <1>7 DEF Tick, dbVars
<1>8. CASE Prune
  <2>1. \A m \in Messages :
          \/ webhook_dedup'[m] = webhook_dedup[m]
          \/ webhook_dedup[m] + DedupRetention <= now
    BY <1>8 DEF Prune
  <2>2. \A e \in fresh : e[1] \in Messages
    BY DEF Deliveries
  <2>3. UNCHANGED <<now, stage, arrived, bucket, fresh>>
    BY <1>8 DEF Prune
  <2>. QED
    BY <2>1, <2>2, <2>3
<1>9. CASE UNCHANGED vars
  BY <1>9 DEF vars
<1>. QED
  BY <1>1, <1>2, <1>3, <1>4, <1>5, <1>6, <1>7, <1>8, <1>9 DEF Next, Handle

\* A delivery that finds no row is the first of its message: were there an
\* earlier one, its row would be too young to have been pruned.
LEMMA FreshStep ==
  ASSUME TypeOK, Timely, RowOutlivesRetries, FreshIsUnique, [Next]_vars
  PROVE  FreshIsUnique'
<1> USE DEF FreshIsUnique
<1>1. ASSUME NEW d \in Deliveries, MarkSeen(d) PROVE FreshIsUnique'
  <2>1. CASE webhook_dedup[d[1]] # Absent
    BY <1>1, <2>1 DEF MarkSeen
  <2>2. CASE webhook_dedup[d[1]] = Absent
    <3>1. ASSUME NEW e \in fresh, e[1] = d[1] PROVE FALSE
      <4>1. e \in Deliveries
        BY <3>1 DEF TypeOK
      <4>2. bucket[e] + DedupRetention <= now
        BY <2>2, <3>1, <4>1, GatewayAssumption
           DEF RowOutlivesRetries, TypeOK, Hours, Absent
      <4>3. arrived[d] <= arrived[e] + RetryWindow /\ arrived[e] <= bucket[e]
        BY <1>1, <3>1, <4>1 DEF MarkSeen, Timely, RowOutlivesRetries
      <4>4. now <= arrived[d] + MaxLatency
        BY <1>1 DEF MarkSeen, Timely, Handling
      <4>5. /\ {now, arrived[d], arrived[e], bucket[e]} \subseteq Nat
            /\ {RetryWindow, MaxLatency, DedupRetention} \subseteq Nat
        BY <4>1, GatewayAssumption DEF TypeOK, Hours
      <4>. QED
        BY <4>2, <4>3, <4>4, <4>5, RetentionAssumption
    <3>2. fresh' = fresh \cup {d}
      BY <1>1, <2>2 DEF MarkSeen
    <3>. QED
      BY <3>1, <3>2
  <2>. QED
    BY <2>1, <2>2
<1>2. CASE UNCHANGED fresh
  BY <1>2
<1>. QED
  BY <1>1, <1>2
     DEF Next, Handle, Receive, MarkSeenFails, CountMessage, CountMessageFails,
         StartTurn, FinishTurn, FinishTurnUnsent, Crash, Tick, Prune, vars

\* Counting a message charges its own bucket, which is too recent to have been
\* pruned, so the counter keeps up with the turns admitted in the bucket.
LEMMA CounterStep ==
  ASSUME TypeOK, TypeOK', Timely, RowOutlivesRetries, CounterCovers, RateBound,
         [Next]_vars
  PROVE  CounterCovers' /\ RateBound'
<1> USE DEF CounterCovers, RateBound
<1>1. \A b : Cardinality(AdmittedIn(b)) \in Nat
  BY AdmittedInFinite DEF TypeOK
<1>2. ASSUME NEW d \in Deliveries, CountMessage(d) PROVE CounterCovers' /\ RateBound'
  <2> DEFINE own == <<Sender[d[1]], bucket[d]>>
  <2>1. own \in Phones \X Hours
    BY GatewayAssumption DEF Deliveries, TypeOK
  <2>2. d \in fresh /\ d \notin admitted /\ now' = now /\ bucket' = bucket
    BY <1>2 DEF CountMessage
  <2>3. rate_limit_counters' = [rate_limit_counters EXCEPT ![own] = @ + 1]
    BY <1>2 DEF CountMessage, Charge
  <2>4. Cardinality(AdmittedIn(own)) <= rate_limit_counters[own]
    <3>1. now <= arrived[d] + MaxLatency /\ arrived[d] <= bucket[d]
      BY <1>2, <2>2 DEF CountMessage, Timely, Handling, RowOutlivesRetries
    <3>2. {now, arrived[d], bucket[d], MaxLatency, RateRetention} \subseteq Nat
      BY GatewayAssumption DEF TypeOK, Hours
    <3>3. ~(own[2] + RateRetention <= now)
      BY <3>1, <3>2, RetentionAssumption
    <3>. QED
      BY <2>1, <3>3
  <2>5. CASE rate_limit_counters[own] + 1 <= MaxPerHour
    <3>1. admitted' = admitted \cup {d} /\ stage' = [stage EXCEPT ![d] = "queued"]
      BY <1>2, <2>1, <2>5 DEF CountMessage, Charge, Advance, TypeOK
    <3>2. AdmittedIn(own)' = AdmittedIn(own) \cup {d}
      BY <2>2, <3>1 DEF AdmittedIn
    <3>3. \A b \in (Phones \X Hours) \ {own} : AdmittedIn(b)' = AdmittedIn(b)
      BY <2>2, <3>1 DEF AdmittedIn
    <3>4. Cardinality(AdmittedIn(own)') = Cardinality(AdmittedIn(own)) + 1
      <4>1. d \notin AdmittedIn(own)
        BY <2>2 DEF AdmittedIn
      <4>. QED
        BY <3>2, <4>1, FS_AddElement, AdmittedInFinite DEF TypeOK
    <3>5. rate_limit_counters'[own] = rate_limit_counters[own] + 1
      BY <2>1, <2>3 DEF TypeOK
    <3>6. \A b \in (Phones \X Hours) \ {own} :
            rate_limit_counters'[b] = rate_limit_counters[b]
      BY <2>3 DEF TypeOK
    <3>7. {MaxPerHour, rate_limit_counters[own]} \subseteq Nat
      BY <2>1, GatewayAssumption DEF TypeOK
    <3>. DEFINE Turns(b) == AdmittedIn(b)'
    <3>8. \A b \in Phones \X Hours :
            /\ \/ Cardinality(Turns(b)) <= rate_limit_counters'[b]
               \/ b[2] + RateRetention <= now'
            /\ Cardinality(Turns(b)) <= MaxPerHour
      <4>1. \A b \in (Phones \X Hours) \ {own} :
              /\ \/ Cardinality(Turns(b)) <= rate_limit_counters'[b]
                 \/ b[2] + RateRetention <= now'
              /\ Cardinality(Turns(b)) <= MaxPerHour
        BY <2>2, <3>3, <3>6
      <4>2. /\ Cardinality(Turns(own)) <= rate_limit_counters'[own]
            /\ Cardinality(Turns(own)) <= MaxPerHour
        BY <1>1, <2>4, <2>5, <3>4, <3>5, <3>7
      <4>. HIDE DEF Turns, own
      <4>. QED
        BY <4>1, <4>2
    <3>9. /\ admitted' \subseteq fresh'
          /\ \A e \in Deliveries :
               stage'[e] = "inserted" => e \in fresh' /\ e \notin admitted'
      BY <1>2, <2>2, <3>1 DEF CountMessage, TypeOK
    <3>. QED
      BY <3>8, <3>9
  <2>6. CASE ~(rate_limit_counters[own] + 1 <= MaxPerHour)
    <3>1. admitted' = admitted /\ stage' = [stage EXCEPT ![d] = "ignored"]
      BY <1>2, <2>1, <2>6 DEF CountMessage, Charge, Advance, TypeOK
    <3>2. \A b : AdmittedIn(b)' = AdmittedIn(b)
      BY <2>2, <3>1 DEF AdmittedIn
    <3>3. \A b \in Phones \X Hours : rate_limit_counters'[b] >= rate_limit_counters[b]
      BY <2>1, <2>3 DEF TypeOK
    <3>. QED
      BY <1>1, <1>2, <2>2, <3>1, <3>2, <3>3 DEF CountMessage, TypeOK
  <2>. QED
    BY <2>5, <2>6
<1>3. ASSUME UNCHANGED <<admitted, bucket>>
      PROVE  \A b : AdmittedIn(b)' = AdmittedIn(b)
  BY <1>3 DEF AdmittedIn
<1>4. ASSUME NEW d \in Deliveries, MarkSeen(d) PROVE CounterCovers' /\ RateBound'
  <2>1. d \notin admitted
    BY <1>4 DEF MarkSeen, RowOutlivesRetries
  <2>2. \A b : AdmittedIn(b)' = AdmittedIn(b)
    BY <1>4, <2>1 DEF MarkSeen, AdmittedIn, TypeOK
  <2>. QED
    BY SMTT(30), <1>4, <2>1, <2>2 DEF MarkSeen, Advance, TypeOK
<1>5. ASSUME NEW d \in Deliveries, CountMessageFails(d)
      PROVE  CounterCovers' /\ RateBound'
  <2>1. \A b : AdmittedIn(b)' = AdmittedIn(b)
    BY <1>3, <1>5 DEF CountMessageFails
  <2>2. \A b \in Phones \X Hours : rate_limit_counters'[b] >= rate_limit_counters[b]
    BY <1>5, GatewayAssumption DEF CountMessageFails, Charge, TypeOK, Deliveries
  <2>. QED
    BY <1>1, <1>5, <2>1, <2>2 DEF CountMessageFails, Advance, TypeOK
<1>6. ASSUME NEW d \in Deliveries,
             \/ Receive(d) \/ MarkSeenFails(d)
             \/ StartTurn(d) \/ FinishTurn(d) \/ FinishTurnUnsent(d)
      PROVE  CounterCovers' /\ RateBound'
  BY <1>3, <1>6 DEF Receive, MarkSeenFails, StartTurn, FinishTurn, FinishTurnUnsent,
                    Advance, dbVars, TypeOK
<1>7. CASE Crash
  BY <1>3, <1>7 DEF Crash, dbVars, TypeOK
<1>8. CASE Tick
  <2>1. now' = now + 1 /\ now \in Nat /\ RateRetention \in Nat
    BY <1>8, GatewayAssumption DEF Tick, TypeOK, Hours
  <2>2. \A b \in Phones \X Hours :
          b[2] + RateRetention <= now => b[2] + RateRetention <= now'
    BY <2>1 DEF Hours
  <2>. QED
    BY <1>3, <1>8, <2>2 DEF Tick, dbVars
<1>9. CASE Prune
  <2>1. \A b \in Phones \X Hours :
          \/ rate_limit_counters'[b] = rate_limit_counters[b]
          \/ b[2] + RateRetention <= now'
    BY <1>9, GatewayAssumption DEF Prune, TypeOK, Hours
  <2>. QED
    BY <1>3, <1>9, <2>1 DEF Prune
<1>10. CASE UNCHANGED vars
  BY <1>3, <1>10 DEF vars
<1>. QED
  BY <1>2, <1>4, <1>5, <1>6, <1>7, <1>8, <1>9, <1>10 DEF Next, Handle

-----------------------------------------------------------------------------
(* The theorems.                                                           *)

\* The parts together are an invariant of every behaviour of the webhook.
THEOREM Inductive == Spec => []IInv
<1>1. Init => IInv
  BY InitIInv
<1>2. TypeOK' /\ IInv /\ [Next]_vars => IInv'
  BY TimelyStep, RowStep, FreshStep, CounterStep DEF IInv
<1>. QED
  BY <1>1, <1>2, TypeCorrect, PTL DEF Spec

\* However the platform redelivers, the process crashes, the database errs and
\* the pruning job runs, no message starts two turns.
THEOREM AtMostOneTurnHolds == Spec => []AtMostOneTurn
<1>1. IInv => AtMostOneTurn
  BY DEF IInv, CounterCovers, FreshIsUnique, AtMostOneTurn
<1>. QED
  BY <1>1, Inductive, PTL

\* No phone starts more than MaxPerHour turns in one hour bucket.
THEOREM RateBoundHolds == Spec => []RateBound
<1>1. IInv => RateBound
  BY DEF IInv
<1>. QED
  BY <1>1, Inductive, PTL

-----------------------------------------------------------------------------
(* Gateway implements Admission.                                           *)

\* Only an admitted delivery is in a turn, and it stays in one until the turn
\* ends or is lost.
Ended == {"answered", "unanswered", "silent", "lost"}
TurnsAreAdmitted ==
  \A d \in Deliveries :
    /\ stage[d] \in InTurn => d \in admitted
    /\ d \in admitted => stage[d] \in InTurn \cup Ended

LEMMA TurnsAreAdmittedHolds == Spec => []TurnsAreAdmitted
<1>1. Init => TurnsAreAdmitted
  BY DEF Init, TurnsAreAdmitted, InTurn
<1>2. TypeOK /\ TurnsAreAdmitted /\ [Next]_vars => TurnsAreAdmitted'
  <2> SUFFICES ASSUME TypeOK, TurnsAreAdmitted, [Next]_vars PROVE TurnsAreAdmitted'
    OBVIOUS
  <2> USE DEF TypeOK, TurnsAreAdmitted, InTurn, Ended
  <2>1. ASSUME NEW d \in Deliveries, Receive(d) \/ MarkSeen(d) \/ MarkSeenFails(d)
        PROVE  TurnsAreAdmitted'
    BY <2>1 DEF Receive, MarkSeen, MarkSeenFails, Advance
  <2>2. ASSUME NEW d \in Deliveries, CountMessage(d) \/ CountMessageFails(d)
        PROVE  TurnsAreAdmitted'
    BY <2>2 DEF CountMessage, CountMessageFails, Advance
  <2>3. ASSUME NEW d \in Deliveries, StartTurn(d) \/ FinishTurn(d) \/ FinishTurnUnsent(d)
        PROVE  TurnsAreAdmitted'
    BY <2>3 DEF StartTurn, FinishTurn, FinishTurnUnsent, Advance
  <2>4. CASE Crash
    BY <2>4 DEF Crash, Handling
  <2>5. CASE Tick \/ Prune \/ UNCHANGED vars
    BY <2>5 DEF Tick, Prune, vars
  <2>. QED
    BY <2>1, <2>2, <2>3, <2>4, <2>5 DEF Next, Handle
<1>. QED
  BY <1>1, <1>2, TypeCorrect, PTL DEF Spec

\* What the invariant says of the turns, of a message's stages st and the
\* admitted deliveries ad alone.
Sound(st, ad) ==
  /\ ad \subseteq Deliveries
  /\ \A d1, d2 \in ad : d1[1] = d2[1] => d1 = d2
  /\ \A d \in ad : st[d] \in InTurn \cup Ended

At(st, ad, m, S) == \E a \in Attempts : <<m, a>> \in ad /\ st[<<m, a>>] \in S

StatusAt(st, ad, m) ==
  IF At(st, ad, m, InTurn) THEN "admitted"
  ELSE IF At(st, ad, m, {"answered"}) THEN "answered"
  ELSE IF At(st, ad, m, {"unanswered"}) THEN "unanswered"
  ELSE IF At(st, ad, m, {"silent"}) THEN "silent"
  ELSE IF At(st, ad, m, {"lost"}) THEN "lost"
  ELSE "new"

LEMMA StatusByStage ==
  /\ statusOf = [m \in Messages |-> StatusAt(stage, admitted, m)]
  /\ statusOf' = [m \in Messages |-> StatusAt(stage', admitted', m)]
  BY DEF statusOf, HasStage, StatusAt, At

\* The status of a message is the stage of its admitted delivery.
LEMMA StatusOfAdmitted ==
  ASSUME NEW st, NEW ad, Sound(st, ad), NEW d \in ad
  PROVE  StatusAt(st, ad, d[1]) = IF st[d] \in InTurn THEN "admitted" ELSE st[d]
<1>1. d = <<d[1], d[2]>> /\ d[2] \in Attempts
  BY DEF Sound, Deliveries
<1>2. \A a \in Attempts : <<d[1], a>> \in ad => <<d[1], a>> = d
  BY <1>1 DEF Sound
<1>3. \A S : At(st, ad, d[1], S) <=> st[d] \in S
  BY <1>1, <1>2 DEF At
<1>. QED
  BY <1>3 DEF StatusAt, Sound, InTurn, Ended

LEMMA StatusOfOthers ==
  ASSUME NEW st, NEW ad, NEW m, \A d \in ad : d[1] # m
  PROVE  StatusAt(st, ad, m) = "new"
<1>1. \A S : ~ At(st, ad, m, S)
  BY DEF At
<1>. QED
  BY <1>1 DEF StatusAt


LEMMA SoundOf ==
  /\ IInv /\ TurnsAreAdmitted => Sound(stage, admitted)
  /\ IInv' /\ TurnsAreAdmitted' => Sound(stage', admitted')
  BY DEF IInv, TypeOK, CounterCovers, FreshIsUnique, TurnsAreAdmitted, Sound

\* Where neither the admitted deliveries nor their stages and buckets change,
\* nothing changes for Admission.
LEMMA Stutters ==
  ASSUME IInv, TurnsAreAdmitted, admitted' = admitted,
         \A d \in admitted : stage'[d] = stage[d] /\ bucket'[d] = bucket[d]
  PROVE  UNCHANGED <<statusOf, quotaUsed>>
<1>1. \A m \in Messages : StatusAt(stage', admitted', m) = StatusAt(stage, admitted, m)
  <2> TAKE m \in Messages
  <2>1. \A S : At(stage', admitted', m, S) <=> At(stage, admitted, m, S)
    BY DEF At
  <2>. QED
    BY <2>1 DEF StatusAt
<1>2. \A b : AdmittedIn(b)' = AdmittedIn(b)
  BY DEF AdmittedIn
<1>. QED
  BY <1>1, <1>2, StatusByStage DEF quotaUsed

\* A turn that goes from one stage to another changes the status of its message,
\* and of no other.
LEMMA OneTurnMoves ==
  ASSUME IInv, TurnsAreAdmitted, IInv', TurnsAreAdmitted',
         NEW d \in admitted, admitted' = admitted, bucket' = bucket,
         NEW s, stage' = [stage EXCEPT ![d] = s]
  PROVE  /\ statusOf' = [statusOf EXCEPT ![d[1]] = IF s \in InTurn THEN "admitted" ELSE s]
         /\ statusOf[d[1]] = IF stage[d] \in InTurn THEN "admitted" ELSE stage[d]
         /\ UNCHANGED quotaUsed
<1> DEFINE to == IF s \in InTurn THEN "admitted" ELSE s
           Now(m) == StatusAt(stage, admitted, m)
           Then(m) == StatusAt(stage', admitted', m)
<1>1. d \in Deliveries /\ d[1] \in Messages /\ Sound(stage, admitted)
      /\ Sound(stage', admitted') /\ stage \in [Deliveries -> Stage]
  BY SoundOf DEF Sound, Deliveries, IInv, TypeOK
<1>2. stage'[d] = s /\ \A e \in admitted : e # d => stage'[e] = stage[e] /\ e \in Deliveries
  BY <1>1 DEF Sound
<1>3. Then(d[1]) = to
  BY <1>1, <1>2, StatusOfAdmitted
<1>4. ASSUME NEW m \in Messages, m # d[1] PROVE Then(m) = Now(m)
  <2>1. CASE \E e \in admitted : e[1] = m
    <3>1. PICK e \in admitted : e[1] = m
      BY <2>1
    <3>2. stage'[e] = stage[e]
      BY <1>2, <1>4, <3>1
    <3>3. Now(m) = IF stage[e] \in InTurn THEN "admitted" ELSE stage[e]
      BY <1>1, <3>1, StatusOfAdmitted
    <3>4. Then(m) = IF stage'[e] \in InTurn THEN "admitted" ELSE stage'[e]
      BY <1>1, <3>1, StatusOfAdmitted
    <3>. QED
      BY <3>2, <3>3, <3>4
  <2>2. CASE \A e \in admitted : e[1] # m
    BY <2>2, StatusOfOthers
  <2>. QED
    BY <2>1, <2>2
<1>5. statusOf = [m \in Messages |-> Now(m)] /\ statusOf' = [m \in Messages |-> Then(m)]
  BY StatusByStage
<1>6. Now(d[1]) = IF stage[d] \in InTurn THEN "admitted" ELSE stage[d]
  BY <1>1, StatusOfAdmitted
<1>7. UNCHANGED quotaUsed
  BY DEF quotaUsed, AdmittedIn
<1>. HIDE DEF Now, Then, to
<1>8. statusOf' = [statusOf EXCEPT ![d[1]] = to] /\ statusOf[d[1]] = Now(d[1])
  BY <1>1, <1>3, <1>4, <1>5
<1>. QED
  BY <1>6, <1>7, <1>8 DEF to

LEMMA RefinedInit == Init => A!AInit
<1> SUFFICES ASSUME Init PROVE A!AInit
  OBVIOUS
<1>1. \A m : StatusAt(stage, admitted, m) = "new"
  BY StatusOfOthers DEF Init
<1>2. \A b : Cardinality(AdmittedIn(b)) = 0
  BY FS_EmptySet DEF Init, AdmittedIn
<1>. QED
  BY <1>1, <1>2, StatusByStage DEF A!AInit, quotaUsed

\* Every step of the webhook is a step of Admission, or none.
LEMMA RefinedStep ==
  ASSUME IInv, TurnsAreAdmitted, IInv', TurnsAreAdmitted', [Next]_vars
  PROVE  [A!ANext]_(A!avars)
<1> USE DEF A!avars
<1>1. TypeOK /\ Sound(stage, admitted) /\ Sound(stage', admitted')
      /\ CounterCovers /\ RateBound /\ RateBound'
  BY SoundOf DEF IInv
<1>2. ASSUME NEW d \in Deliveries, CountMessage(d) PROVE [A!ANext]_(A!avars)
  <2> DEFINE own == <<Sender[d[1]], bucket[d]>>
             Now(m) == StatusAt(stage, admitted, m)
             Then(m) == StatusAt(stage', admitted', m)
             Used(b) == Cardinality(AdmittedIn(b))
             In(b) == {e \in admitted' : <<Sender[e[1]], bucket'[e]>> = b}
             UsedThen(b) == Cardinality(In(b))
  <2>1. own \in Phones \X Hours /\ d[1] \in Messages /\ bucket[d] \in Hours
    BY <1>1, GatewayAssumption DEF Deliveries, TypeOK
  <2>2. d \in fresh /\ d \notin admitted
    BY <1>1, <1>2 DEF CountMessage, CounterCovers
  <2>3. \A e \in admitted : e[1] # d[1]
    BY <2>2 DEF IInv, CounterCovers, FreshIsUnique
  <2>4. \A e \in admitted : e \in Deliveries /\ stage'[e] = stage[e] /\ bucket'[e] = bucket[e]
    BY <1>1, <1>2, <2>2 DEF CountMessage, Advance, TypeOK
  <2>5. CASE admitted' = admitted
    BY <2>4, <2>5, Stutters
  <2>6. CASE admitted' # admitted
    <3>1. /\ admitted' = admitted \cup {d} /\ bucket' = bucket
          /\ stage' = [stage EXCEPT ![d] = "queued"]
      BY <1>2, <2>6 DEF CountMessage, Advance
    <3>2. stage'[d] = "queued" /\ d \in admitted'
      BY <1>1, <3>1 DEF TypeOK
    <3>3. Now(d[1]) = "new"
      BY <2>3, StatusOfOthers
    <3>4. Then(d[1]) = "admitted"
      BY <1>1, <3>2, StatusOfAdmitted DEF InTurn
    <3>5. ASSUME NEW m \in Messages, m # d[1] PROVE Then(m) = Now(m)
      <4>1. \A S : At(stage', admitted', m, S) <=> At(stage, admitted, m, S)
        BY <2>4, <3>1, <3>5 DEF At
      <4>. QED
        BY <4>1 DEF StatusAt
    <3>6. In(own) = AdmittedIn(own) \cup {d} /\ d \notin AdmittedIn(own)
      BY <2>2, <3>1 DEF AdmittedIn
    <3>7. \A b : b # own => In(b) = AdmittedIn(b)
      BY <3>1 DEF AdmittedIn
    <3>8. UsedThen(own) = Used(own) + 1 /\ Used(own) \in Nat
      BY <1>1, <3>6, FS_AddElement, AdmittedInFinite DEF TypeOK
    <3>9. UsedThen(own) <= MaxPerHour /\ MaxPerHour \in Nat
      BY <1>1, <2>1, GatewayAssumption DEF RateBound, AdmittedIn
    <3>10. /\ statusOf = [m \in Messages |-> Now(m)]
           /\ statusOf' = [m \in Messages |-> Then(m)]
      BY StatusByStage
    <3>11. \A b : b # own => UsedThen(b) = Used(b)
      BY <3>7
    <3>12. /\ quotaUsed = [b \in Phones \X Hours |-> Used(b)]
           /\ quotaUsed' = [b \in Phones \X Hours |-> UsedThen(b)]
      BY DEF quotaUsed, AdmittedIn
    <3>. HIDE DEF Now, Then, Used, In, UsedThen
    <3>13. statusOf[d[1]] = "new" /\ statusOf' = [statusOf EXCEPT ![d[1]] = "admitted"]
      BY <2>1, <3>3, <3>4, <3>5, <3>10
    <3>14. quotaUsed[own] < MaxPerHour
           /\ quotaUsed' = [quotaUsed EXCEPT ![own] = @ + 1]
      <4>1. quotaUsed[own] = Used(own)
        BY <2>1, <3>12
      <4>. HIDE DEF own
      <4>2. quotaUsed' = [quotaUsed EXCEPT ![own] = Used(own) + 1]
        BY <2>1, <3>8, <3>11, <3>12
      <4>. QED
        BY <3>8, <3>9, <4>1, <4>2
    <3>15. A!Admit(d[1], bucket[d])
      BY <3>13, <3>14 DEF A!Admit
    <3>. QED
      BY <2>1, <3>15 DEF A!ANext
  <2>. QED
    BY <2>5, <2>6
<1>3. ASSUME NEW d \in Deliveries, StartTurn(d) \/ FinishTurn(d) \/ FinishTurnUnsent(d)
      PROVE  [A!ANext]_(A!avars)
  <2>1. d \in admitted /\ d[1] \in Messages /\ stage[d] \in InTurn
    BY <1>3 DEF StartTurn, FinishTurn, FinishTurnUnsent, TurnsAreAdmitted, InTurn, Deliveries
  <2>2. admitted' = admitted /\ bucket' = bucket
    BY <1>3 DEF StartTurn, FinishTurn, FinishTurnUnsent
  <2>3. PICK s \in {"running", "silent", "answered", "unanswered"} :
          stage' = [stage EXCEPT ![d] = s]
    BY <1>3 DEF StartTurn, FinishTurn, FinishTurnUnsent, Advance
  <2>4. /\ statusOf' = [statusOf EXCEPT ![d[1]] = IF s \in InTurn THEN "admitted" ELSE s]
        /\ statusOf[d[1]] = "admitted" /\ UNCHANGED quotaUsed
    BY <2>1, <2>2, <2>3, OneTurnMoves
  <2>5. CASE s = "running"
    <3>1. statusOf' = statusOf
      BY <2>4, <2>5, StatusByStage DEF InTurn
    <3>. QED
      BY <2>4, <3>1
  <2>6. CASE s \in {"silent", "answered", "unanswered"}
    BY <2>1, <2>4, <2>6 DEF A!ANext, A!End, InTurn
  <2>. QED
    BY <2>3, <2>5, <2>6
<1>4. CASE Crash
  <2> DEFINE Now(m) == StatusAt(stage, admitted, m)
             Then(m) == StatusAt(stage', admitted', m)
  <2>1. admitted' = admitted /\ bucket' = bucket
    BY <1>4 DEF Crash
  <2>2. \A e \in admitted :
          stage'[e] = IF stage[e] \in InTurn THEN "lost" ELSE stage[e]
    BY <1>1, <1>4 DEF Crash, Sound, Ended, Handling, InTurn
  <2>3. ASSUME NEW m \in Messages
        PROVE  Then(m) = IF Now(m) = "admitted" THEN "lost" ELSE Now(m)
    <3>1. CASE \E e \in admitted : e[1] = m
      <4>1. PICK e \in admitted : e[1] = m
        BY <3>1
      <4>2. Now(m) = IF stage[e] \in InTurn THEN "admitted" ELSE stage[e]
        BY <1>1, <4>1, StatusOfAdmitted
      <4>3. Then(m) = IF stage'[e] \in InTurn THEN "admitted" ELSE stage'[e]
        BY <1>1, <2>1, <4>1, StatusOfAdmitted
      <4>4. stage[e] \in InTurn \cup Ended
        BY <1>1 DEF Sound
      <4>. QED
        BY <2>2, <4>2, <4>3, <4>4 DEF InTurn, Ended
    <3>2. CASE \A e \in admitted : e[1] # m
      BY <2>1, <3>2, StatusOfOthers
    <3>. QED
      BY <3>1, <3>2
  <2>4. /\ statusOf = [m \in Messages |-> Now(m)]
        /\ statusOf' = [m \in Messages |-> Then(m)]
    BY StatusByStage
  <2>5. UNCHANGED quotaUsed
    BY <2>1 DEF quotaUsed, AdmittedIn
  <2>. HIDE DEF Now, Then
  <2>6. A!LoseAll
    BY <2>3, <2>4, <2>5 DEF A!LoseAll
  <2>. QED
    BY <2>6 DEF A!ANext
<1>5. ASSUME NEW d \in Deliveries,
             \/ Receive(d) \/ MarkSeen(d) \/ MarkSeenFails(d) \/ CountMessageFails(d)
      PROVE  [A!ANext]_(A!avars)
  <2>1. stage[d] \notin InTurn \cup Ended
    BY <1>5 DEF Receive, MarkSeen, MarkSeenFails, CountMessageFails, InTurn, Ended
  <2>2. d \notin admitted
    BY <1>1, <2>1 DEF Sound
  <2>3. admitted' = admitted
    BY <1>5 DEF Receive, MarkSeen, MarkSeenFails, CountMessageFails
  <2>4. \A e \in admitted : stage'[e] = stage[e] /\ bucket'[e] = bucket[e]
    BY <1>1, <1>5, <2>2
       DEF Receive, MarkSeen, MarkSeenFails, CountMessageFails, Advance, Sound, TypeOK
  <2>. QED
    BY <2>3, <2>4, Stutters
<1>6. CASE Tick \/ Prune \/ UNCHANGED vars
  BY <1>6, Stutters DEF Tick, Prune, vars
<1>. QED
  BY <1>2, <1>3, <1>4, <1>5, <1>6 DEF Next, Handle

\* The webhook implements Admission, for every number of messages, deliveries,
\* crashes and errors: a message that gets in is one turn, which is charged to one
\* bucket of its phone and ends once.
THEOREM ImplementsAdmissionHolds == Spec => ImplementsAdmission
<1>1. Init => A!AInit
  BY RefinedInit
<1>2. IInv /\ TurnsAreAdmitted /\ (IInv /\ TurnsAreAdmitted)' /\ [Next]_vars
        => [A!ANext]_(A!avars)
  BY RefinedStep
<1>. QED
  BY <1>1, <1>2, Inductive, TurnsAreAdmittedHolds, PTL DEF Spec, ImplementsAdmission, A!ASpec
=============================================================================
