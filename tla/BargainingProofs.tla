--------------------------- MODULE BargainingProofs ---------------------------
(* Proofs about Bargaining, for any words, profiles, turns and errors.     *)
EXTENDS Bargaining, FiniteSetTheorems, TLAPS

-----------------------------------------------------------------------------
(* Prices.                                                                 *)

LEMMA FloorIsNat ==
  ASSUME NEW p \in Profiles
  PROVE  FloorOf(p) \in Nat
<1> DEFINE cost == NotBelow(0, p.production_cost)
           margin == NotBelow(0, IF p.preferred_margin = 0 THEN 300 ELSE p.preferred_margin)
           base == (cost * (1000 + margin) + 500) \div 1000
           minimum == NotBelow(0, p.minimum_price)
<1>1. p.production_cost \in Int /\ p.preferred_margin \in Int /\ p.minimum_price \in Int
  BY BargainingAssumption
<1>2. cost \in Int /\ margin \in Int /\ minimum \in Int /\ minimum >= 0
  BY <1>1 DEF NotBelow
<1>3. base \in Int
  <2>. HIDE DEF cost, margin
  <2>1. cost * (1000 + margin) \in Int
    BY <1>2
  <2>. QED
    BY <2>1
<1>4. NotBelow(minimum, NotBelow(cost, base)) \in Nat
  <2>. HIDE DEF cost, base, minimum
  <2>. QED
    BY <1>2, <1>3 DEF NotBelow
<1>. QED
  BY <1>4 DEF FloorOf, Recommend

LEMMA CounterAtFloor ==
  ASSUME NEW f \in Nat, NEW o \in Nat, NEW n \in Nat
  PROVE  ComputeCounterOffer(f, o, n) \in Nat /\ ComputeCounterOffer(f, o, n) >= f
BY DEF ComputeCounterOffer, NotBelow

LEMMA ChatPrices ==
  ASSUME NEW f \in Nat, NEW p \in Nat
  PROVE  /\ Lowered(f, p) \in Nat /\ Lowered(f, p) >= f
         /\ Raised(p) \in Nat /\ Raised(p) >= p
BY DEF Lowered, Raised, NotBelow

LEMMA OfferType ==
  ASSUME NEW s \in ConversationState
  PROVE  OfferIn(s) \in Nat \cup {NoOffer}
<1>1. Offer[s.raw_input_text] \in Nat \cup {NoOffer}
  BY BargainingAssumption DEF ConversationState
<1>. QED
  BY <1>1 DEF OfferIn, Rupee

-----------------------------------------------------------------------------
(* What a step must do to keep the invariant.                              *)

\* Floors and answers that are there stay, so what rests on them does.
LEMMA SoundGrows ==
  ASSUME NEW s \in ConversationState,
         NEW f, NEW a, NEW g, NEW b,
         \A u \in Turns : f[u] # 0 => g[u] = f[u],
         \A u \in Turns : a[u] # Nothing => b[u] = a[u],
         SoundCopy(s, f, a)
  PROVE  SoundCopy(s, g, b)
<1>1. \A says \in Says \ {"nothing"} : \A price, opened :
        Told(a, says, price, opened) => Told(b, says, price, opened)
  BY DEF Told, Nothing
<1>2. \A price : Covered(price, f) => Covered(price, g)
  BY DEF Covered
<1>. QED
  BY <1>1, <1>2 DEF SoundCopy, Says

\* A node that computes no floor and gives no answer.
LEMMA QuietStep ==
  ASSUME BargainInv, NEW t \in Turns, NEW next \in Node, NEW s \in ConversationState,
         Proceed(t, next, s), SoundCopy(s, floor_read, outbound),
         next \in Unanswered => node[t] \in Unanswered,
         next \in Unread => node[t] \in Unread,
         UNCHANGED <<floor_read, outbound, seller_profile>>,
         faults' \in Nat, changes' \in Nat,
         catalog_creations' \subseteq attempts',
         \A c \in attempts' : c \in attempts \/
            /\ c \in [turn : Turns, picture : Turns, price : Nat, poster : BOOLEAN]
            /\ c.price # 0 => Covered(c.price, floor_read)
  PROVE  BargainInv'
<1>. USE DEF BargainInv
<1>1. TypeOK'
  BY DEF TypeOK, Proceed
<1>2. AnswersLater'
  BY DEF AnswersLater, Proceed, TypeOK
<1>3. CopiesSound'
  BY DEF CopiesSound, Proceed, TypeOK
<1>4. NoDealBelowFloor' /\ SettledWasNamed'
  BY DEF NoDealBelowFloor, SettledWasNamed
<1>5. PriceCoversCost'
  BY DEF PriceCoversCost
<1>. QED
  BY <1>1, <1>2, <1>3, <1>4, <1>5

\* A node that gives an answer.
LEMMA AnswerStep ==
  ASSUME BargainInv, NEW t \in Turns, node[t] \in Unanswered,
         NEW next \in {"done", "catalog"}, NEW s \in ConversationState,
         NEW says \in Says, NEW price \in Nat, NEW opened \in 0 .. MaxTurns,
         Proceed(t, next, s), Tell(t, says, price, opened),
         SoundCopy(s, floor_read, outbound'),
         UNCHANGED <<seller_profile, floor_read, attempts, catalog_creations, faults, changes>>,
         says \in {"counter", "accepted", "finalized", "hold_firm"} =>
           /\ opened # 0 /\ floor_read[opened] # 0 /\ price >= floor_read[opened],
         says \in {"proposed", "settled"} => Covered(price, floor_read),
         says = "finalized" => Told(outbound, "counter", price, opened),
         says = "settled" => Told(outbound, "proposed", price, 0)
  PROVE  BargainInv'
<1>. USE DEF BargainInv
<1> DEFINE answer == [says |-> says, price |-> price, opened |-> opened]
<1>1. next \in Node /\ next \notin Unanswered /\ next \notin Unread
  BY DEF Node, InGraph, Unanswered, Unread
<1>2. /\ outbound' = [outbound EXCEPT ![t] = answer]
      /\ outbound' \in [Turns -> Answer]
      /\ outbound'[t] = answer
      /\ \A u \in Turns \ {t} : outbound'[u] = outbound[u]
  BY DEF Tell, TypeOK, Answer
<1>3. outbound[t] = Nothing
  BY DEF AnswersLater
<1>4. \A u \in Turns : outbound[u] # Nothing => outbound'[u] = outbound[u]
  BY <1>2, <1>3
<1>5. \A q \in {"counter", "proposed"} : \A p, o : Told(outbound, q, p, o) => Told(outbound', q, p, o)
  BY <1>4 DEF Told, Nothing
<1>6. TypeOK'
  BY <1>1, <1>2 DEF TypeOK, Proceed
<1>7. AnswersLater'
  BY <1>1, <1>2 DEF AnswersLater, Proceed, TypeOK
<1>8. CopiesSound'
  <2>1. \A r \in ConversationState :
          SoundCopy(r, floor_read, outbound) => SoundCopy(r, floor_read, outbound')
    BY <1>4, SoundGrows
  <2>2. \A u \in Turns : state'[u] = IF u = t THEN s ELSE state[u]
    BY DEF Proceed, TypeOK
  <2>. QED
    BY <2>1, <2>2 DEF CopiesSound, Proceed, TypeOK
<1>9. NoDealBelowFloor'
  BY <1>2 DEF NoDealBelowFloor
<1>10. PriceCoversCost'
  BY <1>2 DEF PriceCoversCost
<1>11. SettledWasNamed'
  BY <1>2, <1>5 DEF SettledWasNamed
<1>. QED
  BY <1>6, <1>7, <1>8, <1>9, <1>10, <1>11

-----------------------------------------------------------------------------
(* Steps.                                                                  *)

\* What is known of a turn's copy.
LEMMA CopyFacts ==
  ASSUME BargainInv, NEW t \in Turns
  PROVE  /\ state[t] \in ConversationState /\ SoundCopy(state[t], floor_read, outbound)
         /\ state[t].pending_negotiation \in Negotiation
         /\ state[t].pending_price_chat \in PriceChat
         /\ state[t].agreed_price \in Nat
         /\ floor_read[t] \in Nat
BY DEF BargainInv, TypeOK, CopiesSound, ConversationState

\* A copy whose prices are not touched stays sound.
LEMMA SamePrices ==
  ASSUME NEW s, NEW r, NEW f, NEW a, SoundCopy(s, f, a),
         r.pending_negotiation = s.pending_negotiation,
         r.pending_price_chat = s.pending_price_chat,
         r.agreed_price = s.agreed_price
  PROVE  SoundCopy(r, f, a)
BY DEF SoundCopy

LEMMA InitHolds == Init => BargainInv
<1>. SUFFICES ASSUME Init PROVE BargainInv
  OBVIOUS
<1>1. EmptyState \in ConversationState
  BY BargainingAssumption DEF EmptyState, ConversationState, Negotiation, NoNegotiation,
     PriceChat, NoPriceChat
<1>2. SoundCopy(EmptyState, floor_read, outbound)
  BY DEF SoundCopy, EmptyState
<1>3. Nothing \in Answer
  BY BargainingAssumption DEF Nothing, Answer, Says
<1>4. TypeOK
  BY <1>1, <1>3 DEF Init, TypeOK, Node
<1>5. AnswersLater /\ CopiesSound
  BY <1>2 DEF Init, AnswersLater, CopiesSound
<1>6. NoDealBelowFloor /\ PriceCoversCost /\ SettledWasNamed
  BY DEF Init, NoDealBelowFloor, PriceCoversCost, SettledWasNamed, Nothing
<1>. QED
  BY <1>4, <1>5, <1>6 DEF BargainInv

LEMMA StartKeeps ==
  ASSUME BargainInv, NEW t \in Turns, NEW m \in Messages, Start(t, m)
  PROVE  BargainInv'
<1> DEFINE s == Received(checkpoint, t, m)
<1>1. checkpoint \in ConversationState /\ SoundCopy(checkpoint, floor_read, outbound)
  BY DEF BargainInv, TypeOK, CopiesSound
<1>2. m.words \in Words
  BY BargainingAssumption
<1>3. s \in ConversationState
  <2>1. t \in 0 .. MaxTurns
    BY BargainingAssumption DEF Turns
  <2>2. [checkpoint EXCEPT !.last_message_type = "text", !.raw_input_text = m.words]
          \in ConversationState
    BY <1>1, <1>2 DEF ConversationState
  <2>3. [checkpoint EXCEPT !.last_message_type = "image", !.raw_image_s3_key = t]
          \in ConversationState
    BY <1>1, <2>1 DEF ConversationState
  <2>. QED
    BY <2>2, <2>3 DEF Received
<1>4. SoundCopy(s, floor_read, outbound)
  <2>1. /\ s.pending_negotiation = checkpoint.pending_negotiation
        /\ s.pending_price_chat = checkpoint.pending_price_chat
        /\ s.agreed_price = checkpoint.agreed_price
    BY <1>1 DEF Received, ConversationState
  <2>. HIDE DEF s
  <2>. QED
    BY <1>1, <2>1, SamePrices
<1>5. "load_user_profile" \in Node /\ node[t] \in Unread /\ node[t] \in Unanswered
  BY DEF Start, At, Node, InGraph, Unread, Unanswered
<1>6. faults' \in Nat /\ changes' \in Nat /\ catalog_creations' \subseteq attempts'
  BY DEF Start, BargainInv, TypeOK
<1>. HIDE DEF s
<1>. QED
  BY <1>3, <1>4, <1>5, <1>6, QuietStep DEF Start, s

\* The turn goes on as it was.
LEMMA PassKeeps ==
  ASSUME BargainInv, NEW t \in Turns, NEW next \in Node, Proceed(t, next, state[t]),
         node[t] \in Unread, faults' \in Nat,
         UNCHANGED <<seller_profile, floor_read, outbound, attempts, catalog_creations, changes>>
  PROVE  BargainInv'
<1>1. node[t] \in Unanswered
  BY DEF Unanswered
<1>2. changes' \in Nat /\ catalog_creations' \subseteq attempts'
  BY DEF BargainInv, TypeOK
<1>. QED
  BY <1>1, <1>2, CopyFacts, QuietStep

LEMMA LoadAndGuardKeeps ==
  ASSUME BargainInv, NEW t \in Turns, LoadAndGuard(t)
  PROVE  BargainInv'
<1>1. node[t] \in Unread
  BY DEF LoadAndGuard, At, Unread
<1>2. faults' \in Nat
  BY DEF LoadAndGuard, Fault, BargainInv, TypeOK
<1>3. "done" \in Node /\ Route(state[t]) \in Node
  BY DEF Route, Node, InGraph
<1>. QED
  BY <1>1, <1>2, <1>3, PassKeeps DEF LoadAndGuard

LEMMA ClassifyIntentKeeps ==
  ASSUME BargainInv, NEW t \in Turns, ClassifyIntent(t)
  PROVE  BargainInv'
<1>1. node[t] \in Unread
  BY DEF ClassifyIntent, At, Unread
<1>2. faults' \in Nat
  BY DEF ClassifyIntent, BargainInv, TypeOK
<1>3. \A f : NodeOf(f) \in Node
  BY DEF NodeOf, Node, InGraph
<1>. QED
  BY <1>1, <1>2, <1>3, PassKeeps DEF ClassifyIntent

LEMMA ReadFloorKeeps ==
  ASSUME BargainInv, NEW t \in Turns, ReadFloor(t)
  PROVE  BargainInv'
<1>. USE DEF BargainInv
<1>1. PICK next \in {"negotiating", "price_chatting"} : node' = [node EXCEPT ![t] = next]
  BY DEF ReadFloor
<1>2. node[t] \in Unread /\ node[t] \in Unanswered
  BY DEF ReadFloor, At, Unread, Unanswered
<1>3. next \in Node /\ next \notin Unread
  BY DEF Node, InGraph, Unread
<1>4. FloorOf(seller_profile) \in Nat
  BY FloorIsNat DEF TypeOK
<1>5. floor_read[t] = 0
  BY <1>2 DEF AnswersLater
<1>6. \A u \in Turns : floor_read[u] # 0 => floor_read'[u] = floor_read[u]
  BY <1>5 DEF ReadFloor, TypeOK
<1>7. \A p : Covered(p, floor_read) => Covered(p, floor_read')
  BY <1>6 DEF Covered
<1>8. TypeOK'
  BY <1>1, <1>3, <1>4 DEF ReadFloor, TypeOK
<1>9. AnswersLater'
  BY <1>1, <1>2, <1>3 DEF AnswersLater, ReadFloor, TypeOK
<1>10. CopiesSound'
  <2>1. \A r \in ConversationState :
          SoundCopy(r, floor_read, outbound) => SoundCopy(r, floor_read', outbound)
    BY <1>6, SoundGrows
  <2>. QED
    BY <2>1 DEF CopiesSound, ReadFloor, TypeOK
<1>11. NoDealBelowFloor'
  <2>1. \A u \in Turns : outbound[u].opened # 0 => outbound[u].opened \in Turns
    BY BargainingAssumption, SMTT(40) DEF TypeOK, Answer, Turns
  <2>. QED
    BY <1>6, <2>1 DEF NoDealBelowFloor, ReadFloor
<1>12. PriceCoversCost'
  BY <1>7 DEF PriceCoversCost, ReadFloor
<1>13. SettledWasNamed'
  BY DEF SettledWasNamed, ReadFloor
<1>. QED
  BY <1>8, <1>9, <1>10, <1>11, <1>12, <1>13

\* The copies a bargain leaves.
LEMMA ClosedCopy ==
  ASSUME BargainInv, NEW t \in Turns
  PROVE  /\ Closed(state[t]) \in ConversationState
         /\ \A a : SoundCopy(state[t], floor_read, a) => SoundCopy(Closed(state[t]), floor_read, a)
<1>1. state[t] \in ConversationState
  BY CopyFacts
<1>2. NoNegotiation \in Negotiation
  BY BargainingAssumption DEF NoNegotiation, Negotiation
<1>3. Closed(state[t]) \in ConversationState
  BY <1>1, <1>2 DEF Closed, ConversationState
<1>4. /\ Closed(state[t]).pending_negotiation = NoNegotiation
      /\ Closed(state[t]).pending_price_chat = state[t].pending_price_chat
      /\ Closed(state[t]).agreed_price = state[t].agreed_price
  BY <1>1 DEF Closed, ConversationState
<1>. QED
  BY <1>3, <1>4 DEF SoundCopy

LEMMA PendingCopy ==
  ASSUME BargainInv, NEW t \in Turns, NEW n \in Negotiation
  PROVE  /\ Pending(state[t], n) \in ConversationState
         /\ Pending(state[t], n).pending_negotiation = n
         /\ Pending(state[t], n).pending_price_chat = state[t].pending_price_chat
         /\ Pending(state[t], n).agreed_price = state[t].agreed_price
<1>1. state[t] \in ConversationState
  BY CopyFacts
<1>. QED
  BY <1>1 DEF Pending, ConversationState

\* A bargain that goes back to the floor its first turn computed.
Rooted(n) ==
  /\ n \in Negotiation /\ n.opened \in Turns
  /\ floor_read[n.opened] # 0 /\ n.floor_price = floor_read[n.opened]

\* Sound copies stay so when turn t gives its answer.
LEMMA StillSound ==
  ASSUME BargainInv, NEW t \in Turns, node[t] \in Unanswered,
         NEW says, NEW price, NEW opened, Tell(t, says, price, opened)
  PROVE  /\ SoundCopy(state[t], floor_read, outbound')
         /\ outbound'[t] = [says |-> says, price |-> price, opened |-> opened]
         /\ \A q \in {"counter", "proposed"} : \A p, o :
              Told(outbound, q, p, o) => Told(outbound', q, p, o)
<1>1. outbound[t] = Nothing
  BY DEF BargainInv, AnswersLater
<1>2. \A u \in Turns : outbound[u] # Nothing => outbound'[u] = outbound[u]
  BY <1>1 DEF Tell, BargainInv, TypeOK
<1>3. SoundCopy(state[t], floor_read, outbound')
  BY <1>2, CopyFacts, SoundGrows
<1>4. outbound'[t] = [says |-> says, price |-> price, opened |-> opened]
  BY DEF Tell, BargainInv, TypeOK
<1>. QED
  BY <1>2, <1>3, <1>4 DEF Told, Nothing

\* An answer that leaves the bargain n pending.
LEMMA PendingStep ==
  ASSUME BargainInv, NEW t \in Turns, node[t] \in Unanswered,
         NEW n, Rooted(n), NEW says \in {"awaiting_offer", "counter"}, NEW price \in Nat,
         Proceed(t, "done", Pending(state[t], n)), Tell(t, says, price, n.opened),
         says = "counter" => price = n.last_counter /\ price >= n.floor_price,
         says = "awaiting_offer" /\ n.last_counter # 0 =>
           /\ n.last_counter >= n.floor_price
           /\ Told(outbound, "counter", n.last_counter, n.opened),
         UNCHANGED <<seller_profile, floor_read, attempts, catalog_creations, faults, changes>>
  PROVE  BargainInv'
<1> DEFINE s == Pending(state[t], n)
<1>1. /\ s \in ConversationState
      /\ s.pending_negotiation = n
      /\ s.pending_price_chat = state[t].pending_price_chat
      /\ s.agreed_price = state[t].agreed_price
  BY PendingCopy DEF Rooted
<1>2. n.last_counter # 0 =>
        /\ n.last_counter >= n.floor_price
        /\ Told(outbound', "counter", n.last_counter, n.opened)
  <2>1. CASE says = "counter"
    BY <2>1, StillSound DEF Told
  <2>2. CASE says = "awaiting_offer"
    BY <2>2, StillSound
  <2>. QED
    BY <2>1, <2>2
<1>3. SoundCopy(state[t], floor_read, outbound')
  BY StillSound
<1>4. SoundCopy(s, floor_read, outbound')
  <2>. HIDE DEF s
  <2>. QED
    BY <1>1, <1>2, <1>3 DEF SoundCopy, Rooted
<1>5. /\ says \in Says /\ n.opened \in 0 .. MaxTurns /\ n.opened # 0
      /\ floor_read[n.opened] # 0 /\ n.floor_price = floor_read[n.opened]
  BY BargainingAssumption DEF Says, Rooted, Negotiation, Turns
<1>. HIDE DEF s
<1>. QED
  BY <1>1, <1>4, <1>5, AnswerStep DEF s

\* An answer that ends the bargain n at a price.
LEMMA ClosedStep ==
  ASSUME BargainInv, NEW t \in Turns, node[t] \in Unanswered,
         NEW n, Rooted(n), NEW says \in {"accepted", "finalized", "hold_firm"},
         NEW price \in Nat, price >= n.floor_price,
         Proceed(t, "done", Closed(state[t])), Tell(t, says, price, n.opened),
         says = "finalized" => Told(outbound, "counter", price, n.opened),
         UNCHANGED <<seller_profile, floor_read, attempts, catalog_creations, faults, changes>>
  PROVE  BargainInv'
<1>1. SoundCopy(Closed(state[t]), floor_read, outbound') /\ Closed(state[t]) \in ConversationState
  BY ClosedCopy, StillSound
<1>2. /\ says \in Says /\ n.opened \in 0 .. MaxTurns /\ n.opened # 0
      /\ floor_read[n.opened] # 0 /\ n.floor_price = floor_read[n.opened]
  BY BargainingAssumption DEF Says, Rooted, Negotiation, Turns
<1>. QED
  BY <1>1, <1>2, AnswerStep

LEMMA EvaluateOfferKeeps ==
  ASSUME BargainInv, NEW t \in Turns, node[t] \in Unanswered,
         NEW n, Rooted(n), NEW offer \in Nat, EvaluateOffer(t, n, offer),
         UNCHANGED <<seller_profile, floor_read, attempts, catalog_creations, faults, changes>>
  PROVE  BargainInv'
<1> DEFINE counter == ComputeCounterOffer(n.floor_price, offer, n.turns)
           m == [n EXCEPT !.last_counter = counter]
<1>1. n.floor_price \in Nat /\ n.turns \in Nat
  BY DEF Rooted, Negotiation
<1>2. counter \in Nat /\ counter >= n.floor_price
  BY <1>1, CounterAtFloor
<1>3. CASE offer >= n.floor_price
  BY <1>3, ClosedStep DEF EvaluateOffer
<1>4. CASE ~ offer >= n.floor_price
  <2>. HIDE DEF counter
  <2>1. Rooted(m) /\ m.opened = n.opened /\ m.last_counter = counter
          /\ m.floor_price = n.floor_price
    BY <1>2 DEF Rooted, Negotiation
  <2>2. Proceed(t, "done", Pending(state[t], m)) /\ Tell(t, "counter", counter, m.opened)
    BY <1>4, <2>1 DEF EvaluateOffer, counter
  <2>. HIDE DEF m
  <2>. QED
    BY <1>2, <2>1, <2>2, PendingStep
<1>. QED
  BY <1>3, <1>4

LEMMA StartNegotiationKeeps ==
  ASSUME BargainInv, NEW t \in Turns, StartNegotiation(t)
  PROVE  BargainInv'
<1> DEFINE floor == floor_read[t]
           offer == OfferIn(state[t])
           n == [floor_price |-> floor, turns |-> 0, last_counter |-> 0, opened |-> t]
<1>1. node[t] \in Unanswered /\ floor \in Nat /\ t \in 0 .. MaxTurns
  BY CopyFacts, BargainingAssumption DEF StartNegotiation, At, Unanswered, Turns
<1>2. offer \in Nat \cup {NoOffer}
  BY CopyFacts, OfferType
<1>3. CASE floor = 0
  <2>1. SoundCopy(state[t], floor_read, outbound') /\ state[t] \in ConversationState
    BY <1>1, <1>3, CopyFacts, StillSound DEF StartNegotiation
  <2>2. "no_profile" \in Says /\ 0 \in Nat /\ 0 \in 0 .. MaxTurns
    BY BargainingAssumption DEF Says
  <2>. QED
    BY <1>1, <1>3, <2>1, <2>2, AnswerStep DEF StartNegotiation
<1>4. ASSUME floor # 0 PROVE /\ Rooted(n) /\ n.opened = t /\ n.last_counter = 0
                             /\ Rooted([n EXCEPT !.turns = 1])
  BY <1>1, <1>4 DEF Rooted, Negotiation
<1>5. CASE floor # 0 /\ offer = NoOffer
  <2>1. Proceed(t, "done", Pending(state[t], n)) /\ Tell(t, "awaiting_offer", 0, n.opened)
    BY <1>5 DEF StartNegotiation
  <2>2. Rooted(n) /\ n.last_counter = 0
    BY <1>4, <1>5
  <2>. HIDE DEF n
  <2>. QED
    BY <1>1, <2>1, <2>2, PendingStep DEF StartNegotiation
<1>6. CASE floor # 0 /\ offer # NoOffer
  <2>1. EvaluateOffer(t, [n EXCEPT !.turns = 1], offer)
    BY <1>6 DEF StartNegotiation
  <2>2. Rooted([n EXCEPT !.turns = 1])
    BY <1>4, <1>6
  <2>. HIDE DEF n
  <2>. QED
    BY <1>1, <1>2, <1>6, <2>1, <2>2, EvaluateOfferKeeps DEF StartNegotiation
<1>. QED
  BY <1>3, <1>5, <1>6

LEMMA ContinueNegotiationKeeps ==
  ASSUME BargainInv, NEW t \in Turns, ContinueNegotiation(t)
  PROVE  BargainInv'
<1> DEFINE s == state[t]
           n == s.pending_negotiation
           offer == OfferIn(s)
<1>1. node[t] \in Unanswered
  BY DEF ContinueNegotiation, At, Unanswered, Unread
<1>2. /\ n \in Negotiation /\ Rooted(n)
      /\ n.last_counter # 0 =>
           n.last_counter >= n.floor_price /\ Told(outbound, "counter", n.last_counter, n.opened)
  BY CopyFacts DEF ContinueNegotiation, SoundCopy, Rooted
<1>3. n.last_counter \in Nat /\ n.floor_price \in Nat /\ n.turns \in Nat
  BY <1>2 DEF Negotiation
<1>4. offer \in Nat \cup {NoOffer}
  BY CopyFacts, OfferType
<1>5. Rooted(Counted(n))
  BY <1>2, <1>3 DEF Rooted, Counted, Negotiation
<1>6. UNCHANGED <<seller_profile, floor_read, attempts, catalog_creations, faults, changes>>
  BY DEF ContinueNegotiation
<1>7. CASE s.raw_input_text \in Affirmative /\ n.last_counter # 0
  <2>1. Proceed(t, "done", Closed(s)) /\ Tell(t, "finalized", n.last_counter, n.opened)
    BY <1>7 DEF ContinueNegotiation
  <2>. QED
    BY <1>1, <1>2, <1>3, <1>6, <1>7, <2>1, ClosedStep
<1>8. CASE Proceed(t, "done", Pending(s, n)) /\ Tell(t, "awaiting_offer", 0, n.opened)
  BY <1>1, <1>2, <1>6, <1>8, PendingStep
<1>9. CASE Proceed(t, "done", Closed(s)) /\ Tell(t, "hold_firm", n.floor_price, n.opened)
  BY <1>1, <1>2, <1>3, <1>6, <1>9, ClosedStep
<1>10. CASE offer # NoOffer /\ EvaluateOffer(t, Counted(n), offer)
  BY <1>1, <1>4, <1>5, <1>6, <1>10, EvaluateOfferKeeps
<1>. QED
  BY <1>7, <1>8, <1>9, <1>10 DEF ContinueNegotiation

-----------------------------------------------------------------------------
(* The price chat and the poster.                                          *)

LEMMA ProposeKeeps ==
  ASSUME BargainInv, NEW t \in Turns, node[t] \in Unanswered,
         NEW price \in Nat, NEW turns \in Nat, Covered(price, floor_read),
         Propose(t, price, turns),
         UNCHANGED <<seller_profile, floor_read, attempts, catalog_creations, faults, changes>>
  PROVE  BargainInv'
<1> DEFINE chat == [proposed_price |-> price, turns |-> turns]
           s == [state[t] EXCEPT !.pending_price_chat = chat, !.awaiting_price_chat = TRUE]
<1>1. /\ s \in ConversationState /\ s.pending_price_chat = chat
      /\ s.pending_negotiation = state[t].pending_negotiation
      /\ s.agreed_price = state[t].agreed_price
  BY CopyFacts DEF ConversationState, PriceChat
<1>2. Proceed(t, AfterPriceChat(s), s) /\ Tell(t, "proposed", price, 0)
  BY DEF Propose
<1>3. AfterPriceChat(s) \in {"done", "catalog"}
  BY DEF AfterPriceChat
<1>4. Told(outbound', "proposed", price, 0) /\ SoundCopy(state[t], floor_read, outbound')
  BY <1>2, StillSound DEF Told
<1>5. SoundCopy(s, floor_read, outbound')
  <2>. HIDE DEF s
  <2>. QED
    BY <1>1, <1>4 DEF SoundCopy
<1>6. "proposed" \in Says /\ 0 \in 0 .. MaxTurns
  BY BargainingAssumption DEF Says
<1>. HIDE DEF s
<1>. QED
  BY <1>1, <1>2, <1>3, <1>5, <1>6, AnswerStep

LEMMA FinalizeKeeps ==
  ASSUME BargainInv, NEW t \in Turns, node[t] \in Unanswered,
         NEW price \in Nat, Covered(price, floor_read), Told(outbound, "proposed", price, 0),
         Finalize(t, price),
         UNCHANGED <<seller_profile, floor_read, attempts, catalog_creations, faults, changes>>
  PROVE  BargainInv'
<1> DEFINE s == [state[t] EXCEPT !.pending_price_chat = NoPriceChat,
                                 !.awaiting_price_chat = FALSE, !.agreed_price = price]
<1>1. /\ s \in ConversationState /\ s.pending_price_chat = NoPriceChat
      /\ s.pending_negotiation = state[t].pending_negotiation
      /\ s.agreed_price = price
  BY CopyFacts DEF ConversationState, PriceChat, NoPriceChat
<1>2. Proceed(t, AfterPriceChat(s), s) /\ Tell(t, "settled", price, 0)
  BY DEF Finalize
<1>3. AfterPriceChat(s) \in {"done", "catalog"}
  BY DEF AfterPriceChat
<1>4. SoundCopy(state[t], floor_read, outbound')
  BY <1>2, StillSound
<1>5. SoundCopy(s, floor_read, outbound')
  <2>. HIDE DEF s
  <2>. QED
    BY <1>1, <1>4 DEF SoundCopy
<1>6. "settled" \in Says /\ 0 \in 0 .. MaxTurns
  BY BargainingAssumption DEF Says
<1>. HIDE DEF s
<1>. QED
  BY <1>1, <1>2, <1>3, <1>5, <1>6, AnswerStep

LEMMA ChatAboutPriceKeeps ==
  ASSUME BargainInv, NEW t \in Turns, ChatAboutPrice(t)
  PROVE  BargainInv'
<1> DEFINE s == state[t]
           floor == floor_read[t]
           chat == s.pending_price_chat
           price == chat.proposed_price
           turns == chat.turns + 1
<1>1. node[t] \in Unanswered /\ floor \in Nat
  BY CopyFacts DEF ChatAboutPrice, At, Unanswered
<1>2. price \in Nat /\ chat.turns \in Nat /\ turns \in Nat
  BY CopyFacts DEF PriceChat
<1>3. UNCHANGED <<seller_profile, floor_read, attempts, catalog_creations, faults, changes>>
  BY DEF ChatAboutPrice
<1>4. CASE floor = 0
  <2>1. Proceed(t, AfterPriceChat(s), s) /\ Tell(t, "no_profile", 0, 0)
    BY <1>4 DEF ChatAboutPrice
  <2>2. SoundCopy(s, floor_read, outbound') /\ s \in ConversationState
    BY <1>1, <2>1, CopyFacts, StillSound
  <2>3. AfterPriceChat(s) \in {"done", "catalog"} /\ "no_profile" \in Says /\ 0 \in 0 .. MaxTurns
    BY BargainingAssumption DEF AfterPriceChat, Says
  <2>. QED
    BY <1>1, <1>3, <2>1, <2>2, <2>3, AnswerStep
<1>5. ASSUME floor # 0, NEW p \in Nat, p >= floor \/ (chat # NoPriceChat /\ p >= price)
      PROVE  Covered(p, floor_read)
  <2>1. CASE p >= floor
    BY <1>5, <2>1 DEF Covered
  <2>2. CASE chat # NoPriceChat /\ p >= price
    <3>1. PICK u \in Turns : floor_read[u] # 0 /\ price >= floor_read[u]
      BY <2>2, CopyFacts DEF SoundCopy, Covered
    <3>2. floor_read[u] \in Nat
      BY CopyFacts
    <3>. QED
      BY <1>2, <1>5, <2>2, <3>1, <3>2 DEF Covered
  <2>. QED
    BY <1>5, <2>1, <2>2
<1>6. CASE floor # 0 /\ Propose(t, floor, 1)
  BY <1>1, <1>3, <1>5, <1>6, ProposeKeeps
<1>7. CASE floor # 0 /\ chat # NoPriceChat /\ Finalize(t, price)
  <2>1. Told(outbound, "proposed", price, 0)
    BY <1>7, CopyFacts DEF SoundCopy
  <2>2. Covered(price, floor_read)
    BY <1>2, <1>5, <1>7
  <2>. QED
    BY <1>1, <1>2, <1>3, <1>7, <2>1, <2>2, FinalizeKeeps
<1>8. ASSUME NEW p \in Nat, floor # 0, chat # NoPriceChat, p >= floor \/ p >= price,
             Propose(t, p, turns)
      PROVE  BargainInv'
  BY <1>1, <1>2, <1>3, <1>5, <1>8, ProposeKeeps
<1>9. /\ Lowered(floor, price) \in Nat /\ Lowered(floor, price) >= floor
      /\ Raised(price) \in Nat /\ Raised(price) >= price
  BY <1>1, <1>2, ChatPrices
<1>10. CASE /\ floor # 0 /\ chat # NoPriceChat
            /\ \/ Propose(t, Lowered(floor, price), turns)
               \/ Propose(t, Raised(price), turns)
               \/ Propose(t, price, turns)
  BY <1>2, <1>8, <1>9, <1>10
<1>. QED
  BY <1>4, <1>6, <1>7, <1>10 DEF ChatAboutPrice

LEMMA CatalogKeeps ==
  ASSUME BargainInv, NEW t \in Turns, Catalog(t)
  PROVE  BargainInv'
<1> DEFINE s == state[t]
           Attempt(poster) == [turn |-> t, picture |-> s.raw_image_s3_key,
                               price |-> s.agreed_price, poster |-> poster]
<1>1. s \in ConversationState /\ SoundCopy(s, floor_read, outbound)
  BY CopyFacts
<1>2. "done" \in Node /\ "done" \notin Unanswered /\ "done" \notin Unread
  BY DEF Node, Unanswered, Unread
<1>3. /\ UNCHANGED <<floor_read, outbound, seller_profile>>
      /\ faults' \in Nat /\ changes' \in Nat
  BY DEF Catalog, Deliver, Fault, BargainInv, TypeOK
<1>4. CASE Proceed(t, "done", s) /\ UNCHANGED <<attempts, catalog_creations>>
  <2>1. catalog_creations' \subseteq attempts'
    BY <1>4 DEF BargainInv, TypeOK
  <2>. QED
    BY <1>1, <1>2, <1>3, <1>4, <2>1, QuietStep
<1>5. CASE Deliver(t)
  <2> PICK poster \in BOOLEAN, recorded \in BOOLEAN :
        /\ attempts' = attempts \cup {Attempt(poster)}
        /\ catalog_creations' =
             catalog_creations \cup IF recorded THEN {Attempt(poster)} ELSE {}
    BY <1>5 DEF Deliver
  <2> DEFINE a == Attempt(poster)
  <2>0. s.raw_image_s3_key # 0 /\ Proceed(t, "done", Priced(s))
    BY <1>5 DEF Deliver
  <2>1. Priced(s) \in ConversationState /\ SoundCopy(Priced(s), floor_read, outbound)
    <3>1. CASE s.agreed_price = 0
      BY <1>1, <3>1 DEF Priced
    <3>2. CASE s.agreed_price # 0
      <4> DEFINE r == [s EXCEPT !.agreed_price = 0, !.pending_price_chat = NoPriceChat]
      <4>1. /\ r \in ConversationState /\ r.pending_negotiation = s.pending_negotiation
            /\ r.pending_price_chat = NoPriceChat /\ r.agreed_price = 0
        BY <1>1 DEF ConversationState, PriceChat, NoPriceChat
      <4>2. Priced(s) = r
        BY <3>2 DEF Priced
      <4>. HIDE DEF r
      <4>. QED
        BY <1>1, <4>1, <4>2 DEF SoundCopy
    <3>. QED
      BY <3>1, <3>2
  <2>2. a \in [turn : Turns, picture : Turns, price : Nat, poster : BOOLEAN]
    <3>1. s.raw_image_s3_key \in Turns /\ s.agreed_price \in Nat
      BY <1>1, <2>0, BargainingAssumption DEF ConversationState, Turns
    <3>. QED
      BY <3>1
  <2>3. a.price # 0 => Covered(a.price, floor_read)
    BY <1>1 DEF SoundCopy
  <2>. HIDE DEF a
  <2>4. catalog_creations' \subseteq attempts' /\ attempts' = attempts \cup {a}
    <3>1. catalog_creations \subseteq attempts
      BY DEF BargainInv, TypeOK
    <3>. QED
      BY <3>1 DEF a
  <2>. QED
    BY <1>2, <1>3, <2>0, <2>1, <2>2, <2>3, <2>4, QuietStep
<1>. QED
  BY <1>4, <1>5 DEF Catalog

LEMMA OtherwiseKeeps ==
  ASSUME BargainInv, \/ \E t \in Turns : GraphFails(t)
                     \/ ProfileChanges
                     \/ UNCHANGED vars
  PROVE  BargainInv'
<1>. USE DEF BargainInv
<1>1. /\ UNCHANGED <<state, checkpoint, floor_read, outbound, attempts, catalog_creations>>
      /\ seller_profile' \in Profiles /\ faults' \in Nat /\ changes' \in Nat
  BY DEF GraphFails, ProfileChanges, Fault, vars, TypeOK
<1>2. \A t \in Turns : node'[t] = node[t] \/ node'[t] = "failed"
  BY DEF GraphFails, ProfileChanges, vars, TypeOK
<1>3. node' \in [Turns -> Node]
  BY DEF GraphFails, ProfileChanges, vars, TypeOK, Node
<1>4. TypeOK'
  BY <1>1, <1>3 DEF TypeOK
<1>5. AnswersLater'
  BY <1>1, <1>2 DEF AnswersLater, Unanswered, Unread
<1>6. CopiesSound' /\ NoDealBelowFloor' /\ PriceCoversCost' /\ SettledWasNamed'
  BY <1>1 DEF CopiesSound, NoDealBelowFloor, PriceCoversCost, SettledWasNamed
<1>. QED
  BY <1>4, <1>5, <1>6

-----------------------------------------------------------------------------
(* The theorems.                                                           *)

\* The inductive invariant: a bargain, a chat and a price in any copy of the state, the
\* newest checkpoint's or a turn's, go back to a floor that was computed and to an
\* answer that was given, and every answer's price is covered by its floor.
THEOREM BargainInvHolds == Spec => []BargainInv
<1>1. ASSUME BargainInv, [Next]_vars PROVE BargainInv'
  <2>1. ASSUME NEW t \in Turns, NEW m \in Messages, Start(t, m) PROVE BargainInv'
    BY <1>1, <2>1, StartKeeps
  <2>2. ASSUME NEW t \in Turns, LoadAndGuard(t) PROVE BargainInv'
    BY <1>1, <2>2, LoadAndGuardKeeps
  <2>3. ASSUME NEW t \in Turns, ClassifyIntent(t) PROVE BargainInv'
    BY <1>1, <2>3, ClassifyIntentKeeps
  <2>4. ASSUME NEW t \in Turns, ReadFloor(t) PROVE BargainInv'
    BY <1>1, <2>4, ReadFloorKeeps
  <2>5. ASSUME NEW t \in Turns, StartNegotiation(t) PROVE BargainInv'
    BY <1>1, <2>5, StartNegotiationKeeps
  <2>6. ASSUME NEW t \in Turns, ContinueNegotiation(t) PROVE BargainInv'
    BY <1>1, <2>6, ContinueNegotiationKeeps
  <2>7. ASSUME NEW t \in Turns, ChatAboutPrice(t) PROVE BargainInv'
    BY <1>1, <2>7, ChatAboutPriceKeeps
  <2>8. ASSUME NEW t \in Turns, Catalog(t) PROVE BargainInv'
    BY <1>1, <2>8, CatalogKeeps
  <2>. QED
    BY <1>1, <2>1, <2>2, <2>3, <2>4, <2>5, <2>6, <2>7, <2>8, OtherwiseKeeps DEF Next
<1>. QED
  BY <1>1, InitHolds, PTL DEF Spec

\* Type correctness of the bargaining, for any words and profiles.
THEOREM TypeCorrect == Spec => []TypeOK
<1>1. BargainInv => TypeOK
  BY DEF BargainInv
<1>. QED
  BY <1>1, BargainInvHolds, PTL

\* No price named in a bargain is below the floor computed when it was opened, with
\* any number of turns side by side, any profile changes and any errors
\* (_evaluate_offer, _compute_counter_offer).
THEOREM NoDealBelowFloorHolds == Spec => []NoDealBelowFloor
<1>1. BargainInv => NoDealBelowFloor
  BY DEF BargainInv
<1>. QED
  BY <1>1, BargainInvHolds, PTL

\* No price of the price chat or of a poster is below every floor computed from the
\* seller's figures (price_chat_node, catalog_node).
THEOREM PriceCoversCostHolds == Spec => []PriceCoversCost
<1>1. BargainInv => PriceCoversCost
  BY DEF BargainInv
<1>. QED
  BY <1>1, BargainInvHolds, PTL

\* A yes settles only a price that another turn's answer has named
\* (_continue_negotiation, price_chat_node).
THEOREM SettledWasNamedHolds == Spec => []SettledWasNamed
<1>1. BargainInv => SettledWasNamed
  BY DEF BargainInv
<1>. QED
  BY <1>1, BargainInvHolds, PTL

-----------------------------------------------------------------------------
(* A user who awaits replies: the turns come one after the other.          *)

\* A turn goes from node to node, and others are not disturbed.
LEMMA TurnGoesOn ==
  ASSUME BargainInv, InOrder, CopyIsNewest, NEW t \in Turns, node[t] \in InGraph,
         NEW next, next # "idle", node' = [node EXCEPT ![t] = next],
         \/ UNCHANGED <<state, checkpoint>>
         \/ \E s : state' = [state EXCEPT ![t] = s] /\ checkpoint' = s
  PROVE  InOrder' /\ CopyIsNewest'
<1>1. node \in [Turns -> Node] /\ state \in [Turns -> ConversationState]
  BY DEF BargainInv, TypeOK
<1>2. \A u \in Turns : node'[u] = IF u = t THEN next ELSE node[u]
  BY <1>1
<1>3. Turns \subseteq Nat
  BY DEF Turns
<1>4. \A u \in Turns : u # t => node[u] \notin InGraph
  BY <1>3 DEF InOrder, InGraph
<1>5. "idle" \notin InGraph
  BY DEF InGraph
<1>6. InOrder'
  BY <1>2, <1>4, <1>5 DEF InOrder
<1>7. CopyIsNewest'
  BY <1>1, <1>2, <1>4 DEF CopyIsNewest
<1>. QED
  BY <1>6, <1>7

LEMMA StartInOrder ==
  ASSUME AwaitsReplies, BargainInv, InOrder, NEW t \in Turns, NEW m \in Messages, Start(t, m)
  PROVE  /\ InOrder' /\ CopyIsNewest'
         /\ \A u \in Turns : node[u] \notin InGraph
<1> DEFINE A == {u \in Turns : node[u] \in InGraph}
<1>1. node \in [Turns -> Node] /\ state \in [Turns -> ConversationState]
  BY DEF BargainInv, TypeOK
<1>2. IsFiniteSet(A)
  <2>1. IsFiniteSet(Turns)
    BY FS_Interval, BargainingAssumption DEF Turns
  <2>. QED
    BY <2>1, FS_Subset
<1>3. A = {}
  <2>1. Cardinality(A) < 1 /\ Cardinality(A) \in Nat
    BY <1>2, FS_CardinalityType DEF Start, AwaitsReplies
  <2>2. Cardinality(A) = 0
    BY <2>1
  <2>. QED
    BY <1>2, <2>2, FS_EmptySet
<1>4. \A u \in Turns : node'[u] = IF u = t THEN "load_user_profile" ELSE node[u]
  BY <1>1 DEF Start, Proceed
<1>5. Turns \subseteq Nat
  BY DEF Turns
<1>6. ASSUME NEW u \in Turns, NEW v \in Turns, u < v, node'[v] # "idle"
      PROVE  node'[u] \notin InGraph \cup {"idle"}
  <2>1. CASE v # t
    <3>1. node[v] # "idle" /\ node[u] \notin InGraph \cup {"idle"}
      BY <1>4, <1>6, <2>1 DEF InOrder
    <3>2. u # t
      BY <3>1 DEF Start, At
    <3>. QED
      BY <1>4, <3>1, <3>2
  <2>2. CASE v = t
    <3>1. t > 1 /\ t - 1 \in Turns /\ u <= t - 1
      BY <1>5, <1>6, <2>2, BargainingAssumption DEF Turns
    <3>2. node[t - 1] # "idle"
      BY <3>1 DEF Start, At
    <3>3. node[u] # "idle"
      <4>1. CASE u = t - 1
        BY <3>2, <4>1
      <4>2. CASE u < t - 1
        BY <3>1, <3>2, <4>2 DEF InOrder
      <4>. QED
        BY <1>5, <3>1, <4>1, <4>2
    <3>4. u # t
      BY <1>5, <1>6, <2>2
    <3>. QED
      BY <1>3, <1>4, <3>3, <3>4
  <2>. QED
    BY <2>1, <2>2
<1>7. CopyIsNewest'
  BY <1>1, <1>3, <1>4 DEF CopyIsNewest, Start, Proceed
<1>. QED
  BY <1>3, <1>6, <1>7 DEF InOrder

\* Whoever has answered, or attempted a poster, did so before the turn that is at work.
LEMMA OthersBefore ==
  ASSUME BargainInv, InOrder, AgreedIsUnused, NEW t \in Turns, node[t] \in InGraph
  PROVE  /\ \A u \in Turns : u # t /\ outbound[u] # Nothing => u < t
         /\ \A c \in attempts : c.turn \in Turns /\ c.turn < t
<1>1. Turns \subseteq Nat
  BY DEF Turns
<1>2. \A u \in Turns : u # t /\ node[u] # "idle" => u < t
  BY <1>1 DEF InOrder
<1>3. \A u \in Turns : outbound[u] # Nothing => node[u] # "idle"
  BY DEF BargainInv, AnswersLater, Unanswered, Unread
<1>4. "done" \notin InGraph
  BY DEF InGraph
<1>5. \A c \in attempts : c.turn \in Turns /\ c.turn # t /\ node[c.turn] # "idle"
  BY <1>4 DEF AgreedIsUnused, BargainInv, TypeOK
<1>. QED
  BY <1>2, <1>3, <1>5

LEMMA AnswersFinite ==
  ASSUME NEW b, NEW says
  PROVE  /\ IsFiniteSet(AnswersIn(b, says))
         /\ Cardinality(AnswersIn(b, says)) \in Nat
<1>1. IsFiniteSet(Turns)
  BY FS_Interval, BargainingAssumption DEF Turns
<1>2. AnswersIn(b, says) \subseteq Turns
  BY DEF AnswersIn
<1>. QED
  BY <1>1, <1>2, FS_Subset, FS_CardinalityType

\* Nothing new is said in a bargain other than o, and o keeps the rules.
LEMMA CapKept ==
  ASSUME BargainCapped, NEW o,
         ASSUME NEW b \in Turns, b # o, NEW q PROVE AnswersIn(b, q)' = AnswersIn(b, q),
         o \in Turns =>
           /\ Cardinality(AnswersIn(o, {"counter"})') <= MAX_NEGOTIATION_TURNS
           /\ Cardinality(AnswersIn(o, Endings)') <= 1
           /\ \A e \in AnswersIn(o, Endings)' : \A u \in AnswersIn(o, Says)' : u <= e
  PROVE  BargainCapped'
<1> SUFFICES ASSUME NEW b \in Turns
             PROVE  /\ Cardinality(AnswersIn(b, {"counter"})') <= MAX_NEGOTIATION_TURNS
                    /\ Cardinality(AnswersIn(b, Endings)') <= 1
                    /\ \A e \in AnswersIn(b, Endings)' :
                         \A u \in AnswersIn(b, Says)' : u <= e
  BY DEF BargainCapped
<1>1. CASE b = o
  BY <1>1
<1>2. CASE b # o
  <2>1. /\ AnswersIn(b, {"counter"})' = AnswersIn(b, {"counter"})
        /\ AnswersIn(b, Endings)' = AnswersIn(b, Endings)
        /\ AnswersIn(b, Says)' = AnswersIn(b, Says)
    BY <1>2
  <2>. QED
    BY <2>1 DEF BargainCapped
<1>. QED
  BY <1>1, <1>2

-----------------------------------------------------------------------------
(* A turn gives its answer.                                                *)

\* opened: the bargain it is about, which had counted k offers.
LEMMA AnswerCounted ==
  ASSUME BargainInv, InOrder, BargainCounted, AgreedIsUnused, BargainCapped,
         NEW t \in Turns, node[t] \in Unanswered, node[t] \in InGraph,
         NEW says \in Says, NEW price \in Nat, NEW opened \in 0 .. MaxTurns, NEW k \in Nat,
         Tell(t, says, price, opened),
         checkpoint' \in ConversationState,
         \/ opened = 0
         \/ /\ checkpoint.pending_negotiation # NoNegotiation
            /\ opened = checkpoint.pending_negotiation.opened
            /\ k = checkpoint.pending_negotiation.turns
         \/ opened = t /\ k = 0,
         opened = 0 => /\ checkpoint'.pending_negotiation = checkpoint.pending_negotiation
                       /\ says \notin Endings \cup {"counter"},
         opened # 0 =>
           \/ says \in Endings /\ checkpoint'.pending_negotiation = NoNegotiation
           \/ /\ says = "counter" /\ checkpoint'.pending_negotiation.opened = opened
              /\ checkpoint'.pending_negotiation.turns = k + 1
              /\ k + 1 <= MAX_NEGOTIATION_TURNS
           \/ /\ says = "awaiting_offer" /\ checkpoint'.pending_negotiation.opened = opened
              /\ checkpoint'.pending_negotiation.turns = k
  PROVE  BargainCounted' /\ BargainCapped'
<1> DEFINE n == checkpoint.pending_negotiation
           m == checkpoint'.pending_negotiation
<1>1. /\ outbound'[t] = [says |-> says, price |-> price, opened |-> opened]
      /\ \A u \in Turns : u # t => outbound'[u] = outbound[u]
      /\ outbound[t] = Nothing
  BY DEF Tell, BargainInv, TypeOK, AnswersLater
<1>2. /\ Turns \subseteq Nat /\ t \in Nat /\ 0 \notin Turns /\ MAX_NEGOTIATION_TURNS = 4
      /\ \A u \in Turns : outbound[u] \in Answer
      /\ n \in Negotiation /\ m \in Negotiation
  BY DEF Turns, BargainInv, TypeOK, ConversationState, MAX_NEGOTIATION_TURNS
<1>3. \A u \in Turns : u # t /\ outbound[u].opened # 0 => u < t
  BY OthersBefore DEF Nothing
<1>4. n # NoNegotiation => n.opened \in Turns
  BY DEF BargainInv, CopiesSound, SoundCopy
<1>5. /\ \A u \in Turns : outbound[u].opened <= u
      /\ n.turns <= 4
      /\ n # NoNegotiation => Cardinality(AnswersIn(n.opened, {"counter"})) <= n.turns
      /\ AnswersIn(n.opened, Endings) = {}
  BY <1>2 DEF BargainCounted
<1>6. AnswersIn(0, Endings) = {} /\ AnswersIn(0, Endings)' = {}
  <2>1. \A u \in Turns : outbound[u].says \in Endings => outbound[u].opened # 0
    BY DEF BargainInv, NoDealBelowFloor, Endings
  <2>2. \A u \in Turns : outbound'[u].says \in Endings => outbound'[u].opened # 0
    BY <1>1, <2>1
  <2>. QED
    BY <2>1, <2>2 DEF AnswersIn
\* What was said before in the bargain the answer is about.
<1>7. ASSUME opened # 0
      PROVE  /\ opened \in Turns /\ opened <= t
             /\ Cardinality(AnswersIn(opened, {"counter"})) <= k
             /\ AnswersIn(opened, Endings) = {}
             /\ k <= 4
  <2>1. CASE n # NoNegotiation /\ opened = n.opened /\ k = n.turns
    <3>1. SUFFICES n.opened <= t
      BY <1>4, <1>5, <2>1
    <3>2. checkpoint.pending_negotiation.opened <= t
      <4>1. floor_read[n.opened] # 0
        BY <2>1 DEF BargainInv, CopiesSound, SoundCopy
      <4>2. node[n.opened] # "idle"
        BY <1>4, <2>1, <4>1 DEF BargainInv, AnswersLater, Unread
      <4>. QED
        BY <1>2, <1>4, <2>1, <4>2 DEF InOrder
    <3>. QED
      BY <3>2
  <2>2. CASE opened = t /\ k = 0
    <3>1. \A u \in Turns : outbound[u].opened # t
      <4>1. SUFFICES ASSUME NEW u \in Turns, outbound[u].opened = t PROVE FALSE
        OBVIOUS
      <4>2. u # t
        BY <1>1, <1>2, <4>1 DEF Nothing
      <4>3. u < t /\ t <= u
        BY <1>2, <1>3, <1>5, <4>1, <4>2
      <4>. QED
        BY <1>2, <4>3
    <3>2. \A q : AnswersIn(t, q) = {}
      BY <3>1 DEF AnswersIn
    <3>. QED
      BY <1>2, <2>2, <3>2, FS_EmptySet
  <2>. QED
    BY <1>7, <2>1, <2>2
<1>8. \A u \in Turns : outbound'[u].opened <= u
  BY <1>1, <1>2, <1>5, <1>7
\* The other bargains are as they were.
<1>9. ASSUME NEW b \in Turns, b # opened, NEW q PROVE AnswersIn(b, q)' = AnswersIn(b, q)
  <2>1. \A u \in Turns : outbound'[u].opened = b /\ outbound'[u].says \in q
                           <=> outbound[u].opened = b /\ outbound[u].says \in q
    <3>1. outbound'[t].opened # b /\ outbound[t].opened # b
      BY <1>1, <1>2, <1>9 DEF Nothing
    <3>. QED
      BY <1>1, <3>1
  <2>. QED
    BY <2>1 DEF AnswersIn
<1>10. ASSUME NEW q, opened # 0
       PROVE  AnswersIn(opened, q)' = IF says \in q THEN AnswersIn(opened, q) \cup {t}
                                                    ELSE AnswersIn(opened, q)
  BY <1>1, <1>10 DEF AnswersIn, Nothing
<1>11. ASSUME NEW q PROVE t \notin AnswersIn(opened, q) \/ opened = 0
  BY <1>1 DEF AnswersIn, Nothing
<1>12. CASE opened = 0
  <2>1. m = n /\ opened \notin Turns
    BY <1>2, <1>12
  <2>2. ASSUME NEW b \in Turns, NEW q PROVE AnswersIn(b, q)' = AnswersIn(b, q)
    BY <1>9, <2>1, <2>2
  <2>3. BargainCapped'
    BY <1>9, <2>1, CapKept
  <2>4. CASE n = NoNegotiation
    <3>1. m.opened = 0 /\ m = NoNegotiation
      BY <2>1, <2>4 DEF NoNegotiation
    <3>. QED
      BY <1>2, <1>5, <1>6, <1>8, <2>1, <2>3, <3>1 DEF BargainCounted
  <2>5. CASE n # NoNegotiation
    <3>1. PICK o \in Turns : o = n.opened
      BY <1>4, <2>5
    <3>2. AnswersIn(o, Endings)' = AnswersIn(o, Endings)
      BY <2>2
    <3>3. AnswersIn(o, {"counter"})' = AnswersIn(o, {"counter"})
      BY <2>2
    <3>. QED
      BY <1>2, <1>5, <1>8, <2>1, <2>3, <2>5, <3>1, <3>2, <3>3 DEF BargainCounted
  <2>. QED
    BY <2>4, <2>5
<1>13. CASE opened # 0
  <2> DEFINE heard == AnswersIn(opened, {"counter"})
             ended == AnswersIn(opened, Endings)
  <2>1. /\ opened \in Turns /\ opened <= t /\ Cardinality(heard) <= k /\ ended = {} /\ k <= 4
        /\ IsFiniteSet(heard) /\ Cardinality(heard) \in Nat /\ t \notin heard
    BY <1>7, <1>11, <1>13, AnswersFinite
  <2>2. "counter" \notin Endings /\ "awaiting_offer" \notin Endings
    BY DEF Endings
  <2>3. Cardinality({}) = 0
    BY FS_EmptySet
  <2>4. CASE says \in Endings /\ m = NoNegotiation
    <3>1. ended' = {t} /\ heard' = heard
      BY <1>10, <1>13, <2>1, <2>2, <2>4
    <3>2. Cardinality(ended') = 1
      BY <3>1, FS_Singleton
    <3>3. \A u \in AnswersIn(opened, Says)' : u <= t
      BY <1>1, <1>2, <1>3, <1>13, <2>1 DEF AnswersIn
    <3>4. Cardinality(heard') <= 4
      BY <2>1, <3>1
    <3>5. BargainCapped'
      <4>1. /\ Cardinality(AnswersIn(opened, {"counter"})') <= MAX_NEGOTIATION_TURNS
            /\ Cardinality(AnswersIn(opened, Endings)') <= 1
            /\ \A e \in AnswersIn(opened, Endings)' : \A u \in AnswersIn(opened, Says)' : u <= e
        BY <1>2, <3>1, <3>2, <3>3, <3>4
      <4>. QED
        BY <1>9, <4>1, CapKept
    <3>6. m.opened = 0 /\ m.turns = 0
      BY <2>4 DEF NoNegotiation
    <3>. QED
      BY <1>2, <1>6, <1>8, <2>4, <3>5, <3>6 DEF BargainCounted
  <2>5. CASE /\ says = "counter" /\ m.opened = opened /\ m.turns = k + 1 /\ k + 1 <= 4
    <3>1. ended' = {} /\ heard' = heard \cup {t}
      BY <1>10, <1>13, <2>1, <2>2, <2>5
    <3>2. Cardinality(heard') = Cardinality(heard) + 1
      BY <2>1, <3>1, FS_AddElement
    <3>3. Cardinality(heard') <= k + 1 /\ Cardinality(heard') <= 4
      BY <2>1, <2>5, <3>2
    <3>4. BargainCapped'
      <4>1. /\ Cardinality(AnswersIn(opened, {"counter"})') <= MAX_NEGOTIATION_TURNS
            /\ Cardinality(AnswersIn(opened, Endings)') <= 1
            /\ \A e \in AnswersIn(opened, Endings)' : \A u \in AnswersIn(opened, Says)' : u <= e
        BY <1>2, <2>3, <3>1, <3>3
      <4>. QED
        BY <1>9, <4>1, CapKept
    <3>. QED
      BY <1>2, <1>8, <2>5, <3>1, <3>3, <3>4 DEF BargainCounted
  <2>6. CASE says = "awaiting_offer" /\ m.opened = opened /\ m.turns = k
    <3>1. ended' = {} /\ heard' = heard
      BY <1>10, <1>13, <2>1, <2>2, <2>6
    <3>2. Cardinality(heard') <= 4
      BY <2>1, <3>1
    <3>3. BargainCapped'
      <4>1. /\ Cardinality(AnswersIn(opened, {"counter"})') <= MAX_NEGOTIATION_TURNS
            /\ Cardinality(AnswersIn(opened, Endings)') <= 1
            /\ \A e \in AnswersIn(opened, Endings)' : \A u \in AnswersIn(opened, Says)' : u <= e
        BY <1>2, <2>3, <3>1, <3>2
      <4>. QED
        BY <1>9, <4>1, CapKept
    <3>. QED
      BY <1>2, <1>8, <2>1, <2>6, <3>1, <3>3 DEF BargainCounted
  <2>. QED
    BY <1>2, <1>13, <2>4, <2>5, <2>6
<1>. QED
  BY <1>12, <1>13

\* What an attempt's price should be: SettledPriceServesOnce asks it of every one.
PosterRight(c, answers, tries) ==
  LET settled == {t \in 1 .. c.turn : answers[t].says = "settled"}
      unused == {t \in settled : \A u \in settled : u <= t}
                  \ {t \in settled : \E d \in tries : t <= d.turn /\ d.turn < c.turn}
  IN IF unused = {} THEN c.price = 0 ELSE \A t \in unused : c.price = answers[t].price

LEMMA PostersRight ==
  SettledPriceServesOnce <=> \A c \in attempts : PosterRight(c, outbound, attempts)
BY DEF SettledPriceServesOnce, PosterRight

\* Only earlier answers and attempts count.
LEMMA PosterStaysRight ==
  ASSUME NEW c, NEW a, NEW b, NEW p, NEW q,
         \A u \in 1 .. c.turn : a[u] = b[u],
         p \subseteq q, \A d \in q \ p : ~ (d.turn < c.turn),
         PosterRight(c, a, p)
  PROVE  PosterRight(c, b, q)
<1> DEFINE S(x) == {t \in 1 .. c.turn : x[t].says = "settled"}
           L(x) == {t \in S(x) : \A u \in S(x) : u <= t}
           P(x, r) == {t \in S(x) : \E d \in r : t <= d.turn /\ d.turn < c.turn}
<1>1. S(a) = S(b)
  OBVIOUS
<1>2. L(a) = L(b) /\ P(a, p) = P(b, q)
  BY <1>1
<1>3. \A t \in L(a) \ P(a, p) : a[t].price = b[t].price
  OBVIOUS
<1>4. PosterRight(c, a, p) <=> IF L(a) \ P(a, p) = {} THEN c.price = 0
                               ELSE \A t \in L(a) \ P(a, p) : c.price = a[t].price
  BY DEF PosterRight
<1>5. PosterRight(c, b, q) <=> IF L(b) \ P(b, q) = {} THEN c.price = 0
                               ELSE \A t \in L(b) \ P(b, q) : c.price = b[t].price
  BY DEF PosterRight
<1>. HIDE DEF L, P
<1>. QED
  BY <1>2, <1>3, <1>4, <1>5

\* The agreed price follows the answers.
LEMMA AnswerPriced ==
  ASSUME BargainInv, InOrder, AgreedIsUnused, SettledPriceServesOnce,
         NEW t \in Turns, node[t] \in Unanswered, node[t] \in InGraph,
         NEW next, node' = [node EXCEPT ![t] = next], UNCHANGED attempts,
         NEW says \in Says, NEW price \in Nat, NEW opened \in 0 .. MaxTurns,
         Tell(t, says, price, opened),
         checkpoint'.agreed_price =
           IF says = "settled" THEN price ELSE checkpoint.agreed_price
  PROVE  AgreedIsUnused' /\ SettledPriceServesOnce'
<1>1. /\ outbound'[t] = [says |-> says, price |-> price, opened |-> opened]
      /\ \A u \in Turns : u # t => outbound'[u] = outbound[u]
      /\ outbound[t] = Nothing
      /\ \A u \in Turns : u # t => node'[u] = node[u]
  BY DEF Tell, BargainInv, TypeOK, AnswersLater
<1>2. Turns \subseteq Nat
  BY DEF Turns
<1>3. /\ \A u \in Turns : u # t /\ outbound[u].says = "settled" => u < t
      /\ \A c \in attempts : c.turn \in Turns /\ c.turn < t
  BY OthersBefore DEF Nothing
<1>4. ASSUME says = "settled" PROVE AgreedIsUnused'
  <2>1. \A u \in Turns : Unused(u)' => u = t
    <3>1. SUFFICES ASSUME NEW u \in Turns, Unused(u)', u # t PROVE FALSE
      OBVIOUS
    <3>2. outbound[u].says = "settled" /\ t <= u
      BY <1>1, <1>4, <3>1 DEF Unused
    <3>. QED
      BY <1>2, <1>3, <3>1, <3>2
  <2>2. Unused(t)'
    <3>1. \A u \in Turns : outbound'[u].says = "settled" => u <= t
      BY <1>1, <1>2, <1>3
    <3>. QED
      BY <1>1, <1>3, <1>4, <3>1 DEF Unused
  <2>3. checkpoint'.agreed_price = outbound'[t].price
    BY <1>1, <1>4
  <2>4. \A c \in attempts' : node'[c.turn] = "done"
    BY <1>1, <1>2, <1>3 DEF AgreedIsUnused
  <2>. QED
    BY <2>1, <2>2, <2>3, <2>4 DEF AgreedIsUnused
<1>5. ASSUME says # "settled" PROVE AgreedIsUnused'
  <2>1. \A u \in Turns : Unused(u)' <=> Unused(u)
    BY <1>1, <1>5 DEF Unused, Nothing
  <2>2. \A u \in Turns : Unused(u) => outbound'[u] = outbound[u]
    BY <1>1 DEF Unused, Nothing
  <2>3. \A c \in attempts' : node'[c.turn] = "done"
    BY <1>1, <1>2, <1>3 DEF AgreedIsUnused
  <2>. QED
    BY <1>5, <2>1, <2>2, <2>3 DEF AgreedIsUnused
<1>6. SettledPriceServesOnce'
  <2>1. ASSUME NEW c \in attempts PROVE PosterRight(c, outbound', attempts)
    <3>1. \A u \in 1 .. c.turn : outbound[u] = outbound'[u]
      <4>1. c.turn \in 1 .. MaxTurns /\ c.turn < t
        BY <1>3 DEF Turns
      <4>2. \A u \in 1 .. c.turn : u \in Turns /\ u # t
        BY <1>2, <4>1, BargainingAssumption DEF Turns
      <4>. QED
        BY <1>1, <4>2
    <3>2. PosterRight(c, outbound, attempts)
      BY PostersRight
    <3>. QED
      BY <3>1, <3>2, PosterStaysRight
  <2>. QED
    BY <2>1 DEF SettledPriceServesOnce, PosterRight
<1>. QED
  BY <1>4, <1>5, <1>6

\* The invariant and its parts.
SerialParts == BargainInv /\ SerialInv

\* A node that gives an answer keeps them all.
LEMMA AnswerSerial ==
  ASSUME SerialParts, NEW t \in Turns, node[t] \in Unanswered, node[t] \in InGraph,
         NEW next \in {"done", "catalog"}, NEW s \in ConversationState,
         NEW says \in Says, NEW price \in Nat, NEW opened \in 0 .. MaxTurns, NEW k \in Nat,
         Proceed(t, next, s), Tell(t, says, price, opened), UNCHANGED attempts,
         \/ opened = 0
         \/ /\ checkpoint.pending_negotiation # NoNegotiation
            /\ opened = checkpoint.pending_negotiation.opened
            /\ k = checkpoint.pending_negotiation.turns
         \/ opened = t /\ k = 0,
         opened = 0 => /\ s.pending_negotiation = checkpoint.pending_negotiation
                       /\ says \notin Endings \cup {"counter"},
         opened # 0 =>
           \/ says \in Endings /\ s.pending_negotiation = NoNegotiation
           \/ /\ says = "counter" /\ s.pending_negotiation.opened = opened
              /\ s.pending_negotiation.turns = k + 1
              /\ k + 1 <= MAX_NEGOTIATION_TURNS
           \/ /\ says = "awaiting_offer" /\ s.pending_negotiation.opened = opened
              /\ s.pending_negotiation.turns = k,
         s.agreed_price = IF says = "settled" THEN price ELSE checkpoint.agreed_price
  PROVE  SerialInv'
<1>1. /\ checkpoint' = s /\ node' = [node EXCEPT ![t] = next]
      /\ state' = [state EXCEPT ![t] = s] /\ next # "idle"
  BY DEF Proceed
<1>2. InOrder' /\ CopyIsNewest'
  BY <1>1, TurnGoesOn DEF SerialParts, SerialInv
<1>3. BargainCounted' /\ BargainCapped'
  BY <1>1, AnswerCounted DEF SerialParts, SerialInv
<1>4. AgreedIsUnused' /\ SettledPriceServesOnce'
  BY <1>1, AnswerPriced DEF SerialParts, SerialInv
<1>. QED
  BY <1>2, <1>3, <1>4 DEF SerialInv

\* A step that says nothing and leaves the pending bargain and the agreed price.
LEMMA QuietSerial ==
  ASSUME SerialParts, UNCHANGED <<outbound, attempts>>,
         checkpoint'.pending_negotiation = checkpoint.pending_negotiation,
         checkpoint'.agreed_price = checkpoint.agreed_price,
         \A u \in Turns : node[u] = "done" => node'[u] = "done"
  PROVE  BargainCounted' /\ BargainCapped' /\ AgreedIsUnused' /\ SettledPriceServesOnce'
<1>1. \A c \in attempts : c.turn \in Turns
  BY DEF SerialParts, BargainInv, TypeOK
<1>2. BargainCounted' /\ BargainCapped'
  BY DEF SerialParts, SerialInv, BargainCounted, BargainCapped, AnswersIn
<1>3. AgreedIsUnused'
  BY <1>1 DEF SerialParts, SerialInv, AgreedIsUnused, Unused
<1>4. SettledPriceServesOnce'
  BY DEF SerialParts, SerialInv, SettledPriceServesOnce
<1>. QED
  BY <1>2, <1>3, <1>4

LEMMA StartSerial ==
  ASSUME AwaitsReplies, SerialParts, NEW t \in Turns, NEW m \in Messages, Start(t, m)
  PROVE  SerialInv'
<1>1. InOrder' /\ CopyIsNewest'
  BY StartInOrder DEF SerialParts, SerialInv
<1>2. checkpoint' = Received(checkpoint, t, m) /\ UNCHANGED <<outbound, attempts>>
  BY DEF Start, Proceed
<1>3. checkpoint \in ConversationState /\ node \in [Turns -> Node]
  BY DEF SerialParts, BargainInv, TypeOK
<1>4. /\ checkpoint'.pending_negotiation = checkpoint.pending_negotiation
      /\ checkpoint'.agreed_price = checkpoint.agreed_price
  BY <1>2, <1>3 DEF Received, ConversationState
<1>5. \A u \in Turns : node[u] = "done" => node'[u] = "done"
  BY <1>3 DEF Start, Proceed, At
<1>. QED
  BY <1>1, <1>2, <1>4, <1>5, QuietSerial DEF SerialInv

\* A node that only says where the turn goes.
LEMMA PassSerial ==
  ASSUME SerialParts, NEW t \in Turns, node[t] \in InGraph, NEW next, next # "idle",
         \/ Proceed(t, next, state[t])
         \/ node' = [node EXCEPT ![t] = next] /\ UNCHANGED <<state, checkpoint>>,
         UNCHANGED <<outbound, attempts>>
  PROVE  SerialInv'
<1>1. state[t] = checkpoint /\ node[t] # "done" /\ node \in [Turns -> Node]
  BY DEF SerialParts, SerialInv, BargainInv, TypeOK, CopyIsNewest, InGraph
<1>2. checkpoint' = checkpoint /\ node' = [node EXCEPT ![t] = next]
  BY <1>1 DEF Proceed
<1>3. InOrder' /\ CopyIsNewest'
  BY <1>2, TurnGoesOn DEF SerialParts, SerialInv, Proceed
<1>4. \A u \in Turns : node[u] = "done" => node'[u] = "done"
  BY <1>1, <1>2
<1>. QED
  BY <1>2, <1>3, <1>4, QuietSerial DEF SerialInv

\* Turn t speaks of bargain b, in which k offers were counted: the pending one, or its own.
SpeaksOf(t, b, k) ==
  \/ /\ checkpoint.pending_negotiation # NoNegotiation
     /\ b = checkpoint.pending_negotiation.opened
     /\ k = checkpoint.pending_negotiation.turns
  \/ b = t /\ k = 0

LEMMA PendingSerial ==
  ASSUME SerialParts, NEW t \in Turns, node[t] \in Unanswered, node[t] \in InGraph,
         NEW n \in Negotiation, n.opened # 0, NEW k \in Nat, SpeaksOf(t, n.opened, k),
         NEW says, NEW price \in Nat,
         \/ says = "counter" /\ n.turns = k + 1 /\ k + 1 <= MAX_NEGOTIATION_TURNS
         \/ says = "awaiting_offer" /\ n.turns = k,
         Proceed(t, "done", Pending(state[t], n)), Tell(t, says, price, n.opened),
         UNCHANGED attempts
  PROVE  SerialInv'
<1> DEFINE s == Pending(state[t], n)
<1>1. /\ s \in ConversationState /\ s.pending_negotiation = n
      /\ s.agreed_price = state[t].agreed_price
  BY PendingCopy DEF SerialParts
<1>2. state[t] = checkpoint /\ n.opened \in 0 .. MaxTurns
  BY DEF SerialParts, SerialInv, CopyIsNewest, Negotiation
<1>3. says \in Says /\ says # "settled"
  BY DEF Says
<1>. HIDE DEF s
<1>4. Proceed(t, "done", s)
  BY DEF s
<1>. QED
  BY <1>1, <1>2, <1>3, <1>4, AnswerSerial DEF SpeaksOf

LEMMA ClosedSerial ==
  ASSUME SerialParts, NEW t \in Turns, node[t] \in Unanswered, node[t] \in InGraph,
         NEW b \in 0 .. MaxTurns, b # 0, NEW k \in Nat, SpeaksOf(t, b, k),
         NEW says \in Endings, NEW price \in Nat,
         Proceed(t, "done", Closed(state[t])), Tell(t, says, price, b),
         UNCHANGED attempts
  PROVE  SerialInv'
<1> DEFINE s == Closed(state[t])
<1>1. /\ s \in ConversationState /\ s.pending_negotiation = NoNegotiation
      /\ s.agreed_price = state[t].agreed_price
  <2>1. state[t] \in ConversationState
    BY CopyFacts DEF SerialParts
  <2>. QED
    BY <2>1, ClosedCopy DEF SerialParts, Closed, ConversationState
<1>2. state[t] = checkpoint
  BY DEF SerialParts, SerialInv, CopyIsNewest
<1>3. says \in Says /\ says # "settled"
  BY DEF Says, Endings
<1>. HIDE DEF s
<1>4. Proceed(t, "done", s)
  BY DEF s
<1>. QED
  BY <1>1, <1>2, <1>3, <1>4, AnswerSerial DEF SpeaksOf

LEMMA EvaluateOfferSerial ==
  ASSUME SerialParts, NEW t \in Turns, node[t] \in Unanswered, node[t] \in InGraph,
         NEW n \in Negotiation, n.opened # 0, NEW k \in Nat, SpeaksOf(t, n.opened, k),
         n.turns = k + 1, k + 1 <= MAX_NEGOTIATION_TURNS,
         NEW offer \in Nat, EvaluateOffer(t, n, offer), UNCHANGED attempts
  PROVE  SerialInv'
<1> DEFINE counter == ComputeCounterOffer(n.floor_price, offer, n.turns)
           m == [n EXCEPT !.last_counter = counter]
<1>1. n.floor_price \in Nat /\ n.turns \in Nat /\ n.opened \in 0 .. MaxTurns
  BY DEF Negotiation
<1>2. counter \in Nat
  BY <1>1, CounterAtFloor
<1>3. CASE offer >= n.floor_price
  <2>1. Proceed(t, "done", Closed(state[t])) /\ Tell(t, "accepted", offer, n.opened)
    BY <1>3 DEF EvaluateOffer
  <2>2. "accepted" \in Endings
    BY DEF Endings
  <2>. QED
    BY <1>1, <2>1, <2>2, ClosedSerial
<1>4. CASE ~ offer >= n.floor_price
  <2>. HIDE DEF counter
  <2>1. m \in Negotiation /\ m.opened = n.opened /\ m.turns = n.turns
    BY <1>2 DEF Negotiation
  <2>2. Proceed(t, "done", Pending(state[t], m)) /\ Tell(t, "counter", counter, m.opened)
    BY <1>4, <2>1 DEF EvaluateOffer, counter
  <2>. HIDE DEF m
  <2>. QED
    BY <1>2, <2>1, <2>2, PendingSerial
<1>. QED
  BY <1>3, <1>4

LEMMA StartNegotiationSerial ==
  ASSUME SerialParts, NEW t \in Turns, StartNegotiation(t)
  PROVE  SerialInv'
<1> DEFINE floor == floor_read[t]
           offer == OfferIn(state[t])
           n == [floor_price |-> floor, turns |-> 0, last_counter |-> 0, opened |-> t]
<1>1. node[t] \in Unanswered /\ node[t] \in InGraph /\ UNCHANGED attempts
  BY DEF StartNegotiation, At, Unanswered, InGraph
<1>2. offer \in Nat \cup {NoOffer} /\ floor \in Nat /\ state[t] \in ConversationState
  BY CopyFacts, OfferType DEF SerialParts
<1>3. t \in 0 .. MaxTurns /\ t # 0 /\ SpeaksOf(t, t, 0)
  BY BargainingAssumption DEF Turns, SpeaksOf
<1>4. CASE floor = 0
  <2>1. Proceed(t, "done", state[t]) /\ Tell(t, "no_profile", 0, 0)
    BY <1>4 DEF StartNegotiation
  <2>2. state[t] = checkpoint
    BY <1>1 DEF SerialParts, SerialInv, CopyIsNewest
  <2>3. /\ "no_profile" \in Says /\ "no_profile" \notin Endings \cup {"counter"}
        /\ 0 \in 0 .. MaxTurns
    BY BargainingAssumption DEF Says, Endings
  <2>. QED
    BY <1>1, <1>2, <2>1, <2>2, <2>3, AnswerSerial
<1>5. /\ n \in Negotiation /\ n.opened = t /\ n.turns = 0
      /\ [n EXCEPT !.turns = 1] \in Negotiation
      /\ [n EXCEPT !.turns = 1].opened = t /\ [n EXCEPT !.turns = 1].turns = 1
  BY <1>2, <1>3 DEF Negotiation
<1>6. CASE floor # 0 /\ offer = NoOffer
  <2>1. Proceed(t, "done", Pending(state[t], n)) /\ Tell(t, "awaiting_offer", 0, n.opened)
    BY <1>6 DEF StartNegotiation
  <2>2. n \in Negotiation /\ n.opened # 0 /\ SpeaksOf(t, n.opened, 0) /\ n.turns = 0
    BY <1>3, <1>5
  <2>. HIDE DEF n
  <2>. QED
    BY <1>1, <2>1, <2>2, PendingSerial
<1>7. CASE floor # 0 /\ offer # NoOffer
  <2> DEFINE m == [n EXCEPT !.turns = 1]
  <2>1. EvaluateOffer(t, m, offer)
    BY <1>7 DEF StartNegotiation
  <2>2. m \in Negotiation /\ m.opened = t /\ m.turns = 0 + 1 /\ 0 + 1 <= MAX_NEGOTIATION_TURNS
    BY <1>5 DEF MAX_NEGOTIATION_TURNS
  <2>. HIDE DEF m, n
  <2>. QED
    BY <1>1, <1>2, <1>3, <1>7, <2>1, <2>2, EvaluateOfferSerial
<1>. QED
  BY <1>4, <1>6, <1>7

LEMMA ContinueNegotiationSerial ==
  ASSUME SerialParts, NEW t \in Turns, ContinueNegotiation(t)
  PROVE  SerialInv'
<1> DEFINE s == state[t]
           n == s.pending_negotiation
           offer == OfferIn(s)
<1>1. node[t] \in Unanswered /\ node[t] \in InGraph /\ UNCHANGED attempts
  BY DEF ContinueNegotiation, At, Unanswered, Unread, InGraph
<1>2. /\ n \in Negotiation /\ n # NoNegotiation /\ n.opened \in Turns
      /\ offer \in Nat \cup {NoOffer}
  BY CopyFacts, OfferType DEF SerialParts, ContinueNegotiation, SoundCopy
<1>3. /\ n.last_counter \in Nat /\ n.floor_price \in Nat /\ n.turns \in Nat
      /\ n.opened \in 0 .. MaxTurns /\ n.opened # 0
  BY <1>2 DEF Negotiation, Turns
<1>4. SpeaksOf(t, n.opened, n.turns)
  BY <1>1, <1>2 DEF SpeaksOf, SerialParts, SerialInv, CopyIsNewest
<1>5. "finalized" \in Endings /\ "hold_firm" \in Endings
  BY DEF Endings
<1>6. /\ Counted(n) \in Negotiation /\ Counted(n).turns = n.turns + 1
      /\ Counted(n).opened = n.opened
  BY <1>2, <1>3 DEF Counted, Negotiation
<1>7. CASE s.raw_input_text \in Affirmative /\ n.last_counter # 0
  <2>1. Proceed(t, "done", Closed(s)) /\ Tell(t, "finalized", n.last_counter, n.opened)
    BY <1>7 DEF ContinueNegotiation
  <2>. QED
    BY <1>1, <1>3, <1>4, <1>5, <2>1, ClosedSerial
<1>8. CASE Proceed(t, "done", Pending(s, n)) /\ Tell(t, "awaiting_offer", 0, n.opened)
  BY <1>1, <1>2, <1>3, <1>4, <1>8, PendingSerial
<1>9. CASE Proceed(t, "done", Closed(s)) /\ Tell(t, "hold_firm", n.floor_price, n.opened)
  BY <1>1, <1>3, <1>4, <1>5, <1>9, ClosedSerial
<1>10. CASE /\ offer # NoOffer /\ EvaluateOffer(t, Counted(n), offer)
            /\ ~ Counted(n).turns > MAX_NEGOTIATION_TURNS
  <2>1. n.turns + 1 <= MAX_NEGOTIATION_TURNS
    BY <1>3, <1>6, <1>10 DEF MAX_NEGOTIATION_TURNS
  <2>. QED
    BY <1>1, <1>2, <1>3, <1>4, <1>6, <1>10, <2>1, EvaluateOfferSerial
<1>. QED
  BY <1>7, <1>8, <1>9, <1>10 DEF ContinueNegotiation

-----------------------------------------------------------------------------
(* The price chat, the poster and the rest keep them too.                  *)

LEMMA ChatAboutPriceSerial ==
  ASSUME SerialParts, NEW t \in Turns, ChatAboutPrice(t)
  PROVE  SerialInv'
<1> DEFINE s == state[t]
<1>1. node[t] \in Unanswered /\ node[t] \in InGraph /\ UNCHANGED attempts
  BY DEF ChatAboutPrice, At, Unanswered, InGraph
<1>2. s \in ConversationState /\ s = checkpoint /\ s.pending_price_chat \in PriceChat
  BY <1>1, CopyFacts DEF SerialParts, SerialInv, CopyIsNewest
<1>3. floor_read[t] \in Nat
  BY CopyFacts DEF SerialParts
<1>4. \A r : AfterPriceChat(r) \in {"done", "catalog"}
  BY DEF AfterPriceChat
<1>5. /\ {"no_profile", "proposed", "settled"} \subseteq Says \ (Endings \cup {"counter"})
      /\ 0 \in 0 .. MaxTurns
  BY BargainingAssumption DEF Says, Endings
<1>6. CASE Proceed(t, AfterPriceChat(s), s) /\ Tell(t, "no_profile", 0, 0)
  BY <1>1, <1>2, <1>4, <1>5, <1>6, AnswerSerial
<1>7. ASSUME NEW price \in Nat, NEW turns \in Nat, Propose(t, price, turns)
      PROVE  SerialInv'
  <2> DEFINE r == [s EXCEPT !.pending_price_chat = [proposed_price |-> price, turns |-> turns],
                            !.awaiting_price_chat = TRUE]
  <2>1. /\ r \in ConversationState /\ r.pending_negotiation = s.pending_negotiation
        /\ r.agreed_price = s.agreed_price
    BY <1>2 DEF ConversationState, PriceChat
  <2>2. Proceed(t, AfterPriceChat(r), r) /\ Tell(t, "proposed", price, 0)
    BY <1>7 DEF Propose
  <2>. HIDE DEF r
  <2>. QED
    BY <1>1, <1>2, <1>4, <1>5, <2>1, <2>2, AnswerSerial
<1>8. ASSUME NEW price \in Nat, Finalize(t, price)
      PROVE  SerialInv'
  <2> DEFINE r == [s EXCEPT !.pending_price_chat = NoPriceChat,
                            !.awaiting_price_chat = FALSE, !.agreed_price = price]
  <2>1. /\ r \in ConversationState /\ r.pending_negotiation = s.pending_negotiation
        /\ r.agreed_price = price
    BY <1>2 DEF ConversationState, PriceChat, NoPriceChat
  <2>2. Proceed(t, AfterPriceChat(r), r) /\ Tell(t, "settled", price, 0)
    BY <1>8 DEF Finalize
  <2>. HIDE DEF r
  <2>. QED
    BY <1>1, <1>2, <1>4, <1>5, <2>1, <2>2, AnswerSerial
<1>9. /\ s.pending_price_chat.proposed_price \in Nat /\ s.pending_price_chat.turns + 1 \in Nat
      /\ Lowered(floor_read[t], s.pending_price_chat.proposed_price) \in Nat
      /\ Raised(s.pending_price_chat.proposed_price) \in Nat
  <2>1. s.pending_price_chat.proposed_price \in Nat /\ s.pending_price_chat.turns \in Nat
    BY <1>2 DEF PriceChat
  <2>2. s.pending_price_chat.turns + 1 \in Nat
    BY <2>1
  <2>. HIDE DEF s
  <2>. QED
    BY <1>3, <2>1, <2>2, ChatPrices
<1>10. \/ Proceed(t, AfterPriceChat(s), s) /\ Tell(t, "no_profile", 0, 0)
       \/ Propose(t, floor_read[t], 1)
       \/ Finalize(t, s.pending_price_chat.proposed_price)
       \/ Propose(t, Lowered(floor_read[t], s.pending_price_chat.proposed_price),
                  s.pending_price_chat.turns + 1)
       \/ Propose(t, Raised(s.pending_price_chat.proposed_price), s.pending_price_chat.turns + 1)
       \/ Propose(t, s.pending_price_chat.proposed_price, s.pending_price_chat.turns + 1)
  BY DEF ChatAboutPrice
<1>. QED
  BY <1>3, <1>6, <1>7, <1>8, <1>9, <1>10

\* An attempt at a poster takes the agreed price with it.
LEMMA PosterSerial ==
  ASSUME SerialParts, NEW t \in Turns, At(t, "catalog"), NEW c, c.turn = t,
         c.price = state[t].agreed_price, UNCHANGED outbound,
         Proceed(t, "done", Priced(state[t])), attempts' = attempts \cup {c}
  PROVE  SerialInv'
<1> DEFINE s == state[t]
<1>1. node[t] \in InGraph
  BY DEF At, InGraph
<1>2. s \in ConversationState /\ s = checkpoint
  BY <1>1, CopyFacts DEF SerialParts, SerialInv, CopyIsNewest
<1>3. /\ checkpoint'.agreed_price = 0
      /\ checkpoint'.pending_negotiation = checkpoint.pending_negotiation
  BY <1>2 DEF Proceed, Priced, ConversationState
<1>4. node' = [node EXCEPT ![t] = "done"] /\ node \in [Turns -> Node]
  BY DEF Proceed, SerialParts, BargainInv, TypeOK
<1>5. /\ Turns \subseteq Nat
      /\ \A u \in Turns : outbound[u].says = "settled" => u <= t
      /\ \A d \in attempts : d.turn \in Nat /\ d.turn \in Turns /\ d.turn < t
  <2>1. Turns \subseteq Nat
    BY DEF Turns
  <2>2. \A u \in Turns : u # t /\ outbound[u] # Nothing => u < t
    BY <1>1, OthersBefore DEF SerialParts, SerialInv
  <2>3. \A u \in Turns : outbound[u].says = "settled" => u = t \/ u < t
    BY <2>2 DEF Nothing
  <2>4. \A d \in attempts : d.turn \in Turns /\ d.turn < t
    BY <1>1, OthersBefore DEF SerialParts, SerialInv
  <2>5. \A u \in Turns : outbound[u].says = "settled" => u <= t
    BY <2>1, <2>3
  <2>6. \A d \in attempts : d.turn \in Nat
    BY <2>1, <2>4
  <2>. QED
    BY <2>1, <2>4, <2>5, <2>6
<1>6. InOrder' /\ CopyIsNewest'
  BY <1>1, <1>4, TurnGoesOn DEF SerialParts, SerialInv, Proceed
<1>7. BargainCounted' /\ BargainCapped'
  BY <1>3 DEF SerialParts, SerialInv, BargainCounted, BargainCapped, AnswersIn
<1>8. AgreedIsUnused'
  <2>1. \A u \in Turns : ~ Unused(u)'
    BY <1>5 DEF Unused
  <2>2. \A d \in attempts' : node'[d.turn] = "done"
    BY <1>4, <1>5 DEF SerialParts, SerialInv, AgreedIsUnused
  <2>. QED
    BY <1>3, <2>1, <2>2 DEF AgreedIsUnused
\* The poster itself, and those before it.
<1>9. PosterRight(c, outbound, attempts')
  <2> DEFINE settled == {u \in 1 .. c.turn : outbound[u].says = "settled"}
             unused == {u \in settled : \A v \in settled : v <= u}
                         \ {u \in settled : \E d \in attempts' :
                                              u <= d.turn /\ d.turn < c.turn}
  <2>1. \A u \in 1 .. t : u \in Turns
    BY BargainingAssumption DEF Turns
  <2>2. \A u \in Turns : u <= t => u \in 1 .. t
    BY DEF Turns
  <2>3. \A u : u \in settled <=> u \in Turns /\ outbound[u].says = "settled"
    BY <1>5, <2>1, <2>2
  <2>4. \A u : u \in unused <=> u \in Turns /\ Unused(u)
    <3>1. \A u \in Turns : (\E d \in attempts' : u <= d.turn /\ d.turn < c.turn)
                             <=> \E d \in attempts : u <= d.turn
      BY <1>5
    <3>2. \A u \in Turns : (\A d \in attempts : d.turn < u)
                             <=> ~ \E d \in attempts : u <= d.turn
      <4>. HIDE DEF settled, unused, s
      <4>1. \A u \in Turns : u \in Nat
        BY <1>5
      <4>2. \A d \in attempts : d.turn \in Nat
        BY <1>5
      <4>3. \A m, n \in Nat : m < n <=> ~ (n <= m)
        OBVIOUS
      <4>4. \A u \in Turns : \A d \in attempts : d.turn < u <=> ~ (u <= d.turn)
        BY <4>1, <4>2, <4>3, Zenon
      <4>. QED
        BY <4>4, Zenon
    <3>. HIDE DEF settled
    <3>. QED
      BY <2>3, <3>1, <3>2 DEF Unused
  <2>5. /\ \A u \in Turns : Unused(u) => c.price = outbound[u].price
        /\ c.price # 0 => \E u \in Turns : Unused(u)
    BY <1>2 DEF SerialParts, SerialInv, AgreedIsUnused
  <2>6. PosterRight(c, outbound, attempts') <=>
          IF unused = {} THEN c.price = 0 ELSE \A u \in unused : c.price = outbound[u].price
    BY DEF PosterRight
  <2>. HIDE DEF unused
  <2>. QED
    BY <2>4, <2>5, <2>6
<1>10. ASSUME NEW d \in attempts PROVE PosterRight(d, outbound, attempts')
  <2>1. PosterRight(d, outbound, attempts)
    BY PostersRight DEF SerialParts, SerialInv
  <2>2. \A e \in attempts' \ attempts : ~ (e.turn < d.turn)
    <3>1. SUFFICES ASSUME NEW e, e.turn = t PROVE ~ (e.turn < d.turn)
      OBVIOUS
    <3>2. d.turn \in Nat /\ d.turn < t /\ t \in Nat
      BY <1>5
    <3>. QED
      BY <3>1, <3>2
  <2>. QED
    BY <2>1, <2>2, PosterStaysRight
<1>11. SettledPriceServesOnce'
  BY <1>9, <1>10 DEF SettledPriceServesOnce, PosterRight
<1>. QED
  BY <1>6, <1>7, <1>8, <1>11 DEF SerialInv

LEMMA CatalogSerial ==
  ASSUME SerialParts, NEW t \in Turns, Catalog(t)
  PROVE  SerialInv'
<1>1. node[t] \in InGraph /\ At(t, "catalog") /\ UNCHANGED outbound
  BY DEF Catalog, At, InGraph
<1>2. CASE Proceed(t, "done", state[t]) /\ UNCHANGED attempts
  BY <1>1, <1>2, PassSerial
<1>3. CASE Deliver(t)
  <2>1. PICK c : /\ c.turn = t /\ c.price = state[t].agreed_price
                 /\ attempts' = attempts \cup {c}
    BY <1>3 DEF Deliver
  <2>2. Proceed(t, "done", Priced(state[t]))
    BY <1>3 DEF Deliver
  <2>. QED
    BY <1>1, <2>1, <2>2, PosterSerial
<1>. QED
  BY <1>2, <1>3 DEF Catalog

\* The nodes that speak of no price, and what happens besides the turns.
LEMMA OtherwiseSerial ==
  ASSUME SerialParts,
         \/ \E t \in Turns : LoadAndGuard(t) \/ ClassifyIntent(t) \/ ReadFloor(t) \/ GraphFails(t)
         \/ ProfileChanges
         \/ UNCHANGED vars
  PROVE  SerialInv'
<1>1. ASSUME NEW t \in Turns, LoadAndGuard(t) PROVE SerialInv'
  <2>1. node[t] \in InGraph /\ UNCHANGED <<outbound, attempts>>
    BY <1>1 DEF LoadAndGuard, At, InGraph
  <2>2. "done" # "idle" /\ Route(state[t]) # "idle"
    BY DEF Route
  <2>3. \E next : next # "idle" /\ Proceed(t, next, state[t])
    BY <1>1, <2>2 DEF LoadAndGuard
  <2>. QED
    BY <2>1, <2>3, PassSerial
<1>2. ASSUME NEW t \in Turns, ClassifyIntent(t) PROVE SerialInv'
  <2>1. node[t] \in InGraph /\ UNCHANGED <<outbound, attempts>>
    BY <1>2 DEF ClassifyIntent, At, InGraph
  <2>2. \A f : NodeOf(f) # "idle"
    BY DEF NodeOf
  <2>3. \E next : next # "idle" /\ Proceed(t, next, state[t])
    BY <1>2, <2>2 DEF ClassifyIntent
  <2>. QED
    BY <2>1, <2>3, PassSerial
<1>3. ASSUME NEW t \in Turns, ReadFloor(t) \/ GraphFails(t) PROVE SerialInv'
  <2>1. /\ node[t] \in InGraph /\ UNCHANGED <<outbound, attempts>>
        /\ UNCHANGED <<state, checkpoint>>
    BY <1>3 DEF ReadFloor, GraphFails, At, InGraph
  <2>2. \E next : next # "idle" /\ node' = [node EXCEPT ![t] = next]
    BY <1>3 DEF ReadFloor, GraphFails
  <2>. QED
    BY <2>1, <2>2, PassSerial
<1>4. CASE ProfileChanges \/ UNCHANGED vars
  <2>1. UNCHANGED <<node, state, checkpoint, outbound, attempts>>
    BY <1>4 DEF ProfileChanges, vars
  <2>2. InOrder' /\ CopyIsNewest'
    BY <2>1 DEF SerialParts, SerialInv, InOrder, CopyIsNewest
  <2>. QED
    BY <2>1, <2>2, QuietSerial DEF SerialInv
<1>. QED
  BY <1>1, <1>2, <1>3, <1>4

LEMMA InitSerial == Init => SerialInv
<1> SUFFICES ASSUME Init PROVE SerialInv
  OBVIOUS
<1>1. /\ \A t \in Turns : node[t] = "idle" /\ outbound[t] = Nothing
      /\ checkpoint = EmptyState /\ attempts = {}
  BY DEF Init
<1>2. InOrder /\ CopyIsNewest
  BY <1>1 DEF InOrder, CopyIsNewest, InGraph
<1>3. \A b \in Turns : \A says : AnswersIn(b, says) = {}
  BY <1>1 DEF AnswersIn, Nothing, Turns
<1>4. BargainCapped
  <2>1. Cardinality({}) = 0
    BY FS_EmptySet
  <2>. QED
    BY <1>3, <2>1 DEF BargainCapped, MAX_NEGOTIATION_TURNS
<1>5. BargainCounted
  <2> DEFINE n == checkpoint.pending_negotiation
  <2>1. n = NoNegotiation /\ n.turns = 0
    BY <1>1 DEF EmptyState, NoNegotiation
  <2>2. \A t \in Turns : outbound[t].opened <= t
    BY <1>1 DEF Nothing, Turns
  <2>3. AnswersIn(n.opened, Endings) = {}
    BY <1>1 DEF AnswersIn, Nothing, Endings
  <2>. QED
    BY <2>1, <2>2, <2>3 DEF BargainCounted, MAX_NEGOTIATION_TURNS
<1>6. AgreedIsUnused /\ SettledPriceServesOnce
  BY <1>1 DEF AgreedIsUnused, Unused, Nothing, EmptyState, SettledPriceServesOnce
<1>. QED
  BY <1>2, <1>4, <1>5, <1>6 DEF SerialInv

-----------------------------------------------------------------------------
(* The theorems for a user who awaits replies.                             *)

\* The inductive invariant: turns follow each other and work on the newest checkpoint,
\* the pending bargain has counted the offers heard in it and has not ended, and the
\* agreed price is the one settled last until an attempt at a poster spends it.
THEOREM SerialInvHolds == AwaitsReplies => (Spec => []SerialInv)
<1> SUFFICES ASSUME AwaitsReplies PROVE Spec => []SerialInv
  OBVIOUS
<1>1. BargainInv /\ SerialInv /\ [Next]_vars => SerialInv'
  <2> SUFFICES ASSUME BargainInv, SerialInv, [Next]_vars PROVE SerialInv'
    OBVIOUS
  <2>1. SerialParts
    BY DEF SerialParts
  <2>2. ASSUME NEW t \in Turns, NEW m \in Messages, Start(t, m) PROVE SerialInv'
    BY <2>1, <2>2, StartSerial
  <2>3. ASSUME NEW t \in Turns, StartNegotiation(t) PROVE SerialInv'
    BY <2>1, <2>3, StartNegotiationSerial
  <2>4. ASSUME NEW t \in Turns, ContinueNegotiation(t) PROVE SerialInv'
    BY <2>1, <2>4, ContinueNegotiationSerial
  <2>5. ASSUME NEW t \in Turns, ChatAboutPrice(t) PROVE SerialInv'
    BY <2>1, <2>5, ChatAboutPriceSerial
  <2>6. ASSUME NEW t \in Turns, Catalog(t) PROVE SerialInv'
    BY <2>1, <2>6, CatalogSerial
  <2>. QED
    BY <2>1, <2>2, <2>3, <2>4, <2>5, <2>6, OtherwiseSerial DEF Next
<1>. QED
  BY <1>1, InitSerial, BargainInvHolds, PTL DEF Spec

\* Where the user awaits replies, a bargain hears at most MAX_NEGOTIATION_TURNS offers
\* and ends once, the last thing said in it (_continue_negotiation).
THEOREM BargainCappedHolds == AwaitsReplies => (Spec => []BargainCapped)
<1>1. SerialInv => BargainCapped
  BY DEF SerialInv
<1>. QED
  BY <1>1, SerialInvHolds, PTL

\* Where the user awaits replies, a settled price is put to the first picture that
\* is uploaded after it and to no other, whether its poster and its row then
\* come about or not (price_chat_node, catalog_node).
THEOREM SettledPriceServesOnceHolds == AwaitsReplies => (Spec => []SettledPriceServesOnce)
<1>1. SerialInv => SettledPriceServesOnce
  BY DEF SerialInv
<1>. QED
  BY <1>1, SerialInvHolds, PTL


-----------------------------------------------------------------------------
(* The price that is offered.                                              *)

LEMMA MidpointIsBelow ==
  ASSUME NEW f \in Nat, NEW o \in Nat, o < f, NEW n \in Nat
  PROVE  ComputeCounterOffer(f, o, n) = f
BY DEF ComputeCounterOffer, NotBelow

LEMMA FloorsStay ==
  ASSUME BargainInv, [Next]_vars
  PROVE  \A u \in Turns : floor_read[u] # 0 => floor_read'[u] = floor_read[u]
<1>1. ASSUME NEW t \in Turns, ReadFloor(t)
      PROVE  \A u \in Turns : floor_read[u] # 0 => floor_read'[u] = floor_read[u]
  <2>1. floor_read[t] = 0
    BY <1>1 DEF ReadFloor, At, BargainInv, AnswersLater, Unread
  <2>. QED
    BY <1>1, <2>1 DEF ReadFloor, BargainInv, TypeOK
<1>. QED
  BY <1>1 DEF Next, Start, LoadAndGuard, ClassifyIntent, StartNegotiation, ContinueNegotiation,
     ChatAboutPrice, Catalog, GraphFails, ProfileChanges, vars

\* What a node may say of a bargain.
Offered == {"counter", "hold_firm"}
IsFloor(price, opened) == price = floor_read[opened] /\ price # 0

LEMMA EvaluatedAtFloor ==
  ASSUME BargainInv, NEW t \in Turns, NEW n, Rooted(n), NEW offer \in Nat,
         EvaluateOffer(t, n, offer)
  PROVE  \E says, price : /\ Tell(t, says, price, n.opened)
                          /\ says \in Offered => IsFloor(price, n.opened)
<1>1. n.floor_price \in Nat /\ n.turns \in Nat /\ n.floor_price = floor_read[n.opened]
      /\ n.floor_price # 0
  BY DEF Rooted, Negotiation
<1>2. CASE offer >= n.floor_price
  BY <1>2 DEF EvaluateOffer, Offered
<1>3. CASE ~ offer >= n.floor_price
  BY <1>1, <1>3, MidpointIsBelow DEF EvaluateOffer, IsFloor
<1>. QED
  BY <1>2, <1>3

\* Every answer is silent about bargains or names the floor of its own.
LEMMA AnswersAtFloor ==
  ASSUME BargainInv, [Next]_vars
  PROVE  \A u \in Turns :
           \/ outbound'[u] = outbound[u]
           \/ outbound'[u].says \in Offered =>
                IsFloor(outbound'[u].price, outbound'[u].opened)
<1> DEFINE Right(u) == \/ outbound'[u] = outbound[u]
                       \/ outbound'[u].says \in Offered =>
                            IsFloor(outbound'[u].price, outbound'[u].opened)
<1>1. ASSUME NEW t \in Turns, NEW says, NEW price, NEW opened, Tell(t, says, price, opened),
             says \in Offered => IsFloor(price, opened), NEW u \in Turns
      PROVE  Right(u)
  BY <1>1 DEF Tell, BargainInv, TypeOK
<1>2. ASSUME NEW t \in Turns, StartNegotiation(t), NEW u \in Turns PROVE Right(u)
  <2> DEFINE n == [floor_price |-> floor_read[t], turns |-> 0, last_counter |-> 0,
                   opened |-> t]
             m == [n EXCEPT !.turns = 1]
             offer == OfferIn(state[t])
  <2>1. CASE Tell(t, "no_profile", 0, 0) \/ Tell(t, "awaiting_offer", 0, t)
    BY <1>1, <2>1 DEF Offered
  <2>2. CASE floor_read[t] # 0 /\ offer # NoOffer /\ EvaluateOffer(t, m, offer)
    <3>1. offer \in Nat
      BY <2>2, CopyFacts, OfferType
    <3>2. Rooted(m) /\ m.opened = t
      <4>1. floor_read[t] \in Nat /\ t \in 0 .. MaxTurns
        BY CopyFacts, BargainingAssumption DEF Turns
      <4>. QED
        BY <2>2, <4>1 DEF Rooted, Negotiation
    <3>. HIDE DEF m, offer
    <3>. QED
      BY <1>1, <2>2, <3>1, <3>2, EvaluatedAtFloor
  <2>. QED
    BY <1>2, <2>1, <2>2 DEF StartNegotiation
<1>3. ASSUME NEW t \in Turns, ContinueNegotiation(t), NEW u \in Turns PROVE Right(u)
  <2> DEFINE n == state[t].pending_negotiation
             offer == OfferIn(state[t])
  <2>1. Rooted(n)
    BY <1>3, CopyFacts DEF ContinueNegotiation, SoundCopy, Rooted
  <2>2. CASE Tell(t, "finalized", n.last_counter, n.opened) \/ Tell(t, "awaiting_offer", 0, n.opened)
    BY <1>1, <2>2 DEF Offered
  <2>3. CASE Tell(t, "hold_firm", n.floor_price, n.opened)
    BY <1>1, <2>1, <2>3 DEF Rooted, IsFloor
  <2>4. CASE offer # NoOffer /\ EvaluateOffer(t, Counted(n), offer)
    <3>1. offer \in Nat
      BY <2>4, CopyFacts, OfferType
    <3>2. Rooted(Counted(n)) /\ Counted(n).opened = n.opened
      BY <2>1 DEF Rooted, Counted, Negotiation
    <3>. HIDE DEF n, offer
    <3>. QED
      BY <1>1, <2>4, <3>1, <3>2, EvaluatedAtFloor
  <2>. QED
    BY <1>3, <2>2, <2>3, <2>4 DEF ContinueNegotiation
<1>4. ASSUME NEW t \in Turns, ChatAboutPrice(t), NEW u \in Turns PROVE Right(u)
  <2>1. \E says \in {"no_profile", "proposed", "settled"} : \E price : Tell(t, says, price, 0)
    BY <1>4 DEF ChatAboutPrice, Propose, Finalize
  <2>. QED
    BY <1>1, <2>1 DEF Offered
<1>. QED
  BY <1>2, <1>3, <1>4 DEF Next, Start, LoadAndGuard, ClassifyIntent, ReadFloor, Catalog,
     GraphFails, ProfileChanges, vars

\* Whatever the customer offers, however turns overlap, errors strike and the profile
\* changes, the price the seller's side names in a bargain is the bargain's floor
\* (_compute_counter_offer, _continue_negotiation).
THEOREM CounterIsFloorHolds == Spec => []CounterIsFloor
<1>1. Init => CounterIsFloor
  BY DEF Init, CounterIsFloor, Nothing
<1>2. ASSUME BargainInv, BargainInv', CounterIsFloor, [Next]_vars PROVE CounterIsFloor'
  <2>1. ASSUME NEW u \in Turns, outbound'[u].says \in Offered \cup {"finalized"},
               outbound'[u].says = "finalized" => outbound'[u] = outbound[u]
        PROVE  outbound'[u].price = floor_read'[outbound'[u].opened]
    <3>1. outbound'[u].price = floor_read[outbound'[u].opened]
      BY <1>2, <2>1, AnswersAtFloor DEF CounterIsFloor, Offered, IsFloor
    <3>2. outbound'[u].opened \in Turns
      <4>1. outbound'[u].opened \in 0 .. MaxTurns
        BY <1>2 DEF BargainInv, TypeOK, Answer
      <4>2. outbound'[u].opened # 0
        BY <1>2, <2>1 DEF BargainInv, NoDealBelowFloor, Offered
      <4>. QED
        BY <4>1, <4>2, BargainingAssumption DEF Turns
    <3>3. floor_read[outbound'[u].opened] # 0
      BY <1>2, <2>1, AnswersAtFloor DEF BargainInv, NoDealBelowFloor, Offered, IsFloor
    <3>. QED
      BY <1>2, <3>1, <3>2, <3>3, FloorsStay
  \* A yes that is new agrees to a counter offer that is not.
  <2>2. ASSUME NEW u \in Turns, outbound'[u].says = "finalized"
        PROVE  outbound'[u].price = floor_read'[outbound'[u].opened]
    <3>1. PICK v \in Turns : outbound'[v] = [says |-> "counter", price |-> outbound'[u].price,
                                            opened |-> outbound'[u].opened]
      BY <1>2, <2>2 DEF BargainInv, SettledWasNamed, Told
    <3>2. outbound'[v].price = floor_read'[outbound'[v].opened]
      BY <2>1, <3>1 DEF Offered
    <3>. QED
      BY <3>1, <3>2
  <2>. QED
    BY <2>1, <2>2 DEF CounterIsFloor, Offered
<1>. QED
  BY <1>1, <1>2, BargainInvHolds, PTL DEF Spec
=============================================================================
