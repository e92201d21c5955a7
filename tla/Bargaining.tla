------------------------------ MODULE Bargaining ------------------------------
(***************************************************************************)
(* Prices on one registered phone's thread: haggling with a customer       *)
(* (negotiation_node), settling a price with the seller (price_chat_node), *)
(* and the poster that carries it (catalog_node).  A turn works on its own *)
(* copy of the conversation state and writes the copy back as the newest   *)
(* checkpoint after every node, as in Conversation; no ledger entry is     *)
(* pending here.  Prices are in paise.                                     *)
(***************************************************************************)
EXTENDS Integers, FiniteSets

CONSTANTS
  Words, Silence,    \* what messages say; Silence: no text yet
  Offer,             \* Offer[w]: the rupees _extract_amount finds, or NoOffer
  Signal,            \* Signal[w]: _confidence_signal
  Affirmative,       \* the words in AFFIRMATIVE of negotiation_node
  Blocked,           \* the words the input guard answers by itself
  Classes,           \* Classes[w]: the features classify_intent may answer
  Messages,          \* the messages this user may send
  Profiles,          \* the rows seller_profiles may hold for this user
  MaxTurns,          \* bound: messages sent
  MaxInFlight,       \* bound: turns side by side; 1: the user awaits replies
  MaxFaults,         \* bound: errors
  MaxChanges         \* bound: changes of the profile

NoOffer == -1
Signals == {"accept", "wants_lower", "wants_higher", "unclear"}
Turns == 1 .. MaxTurns

ASSUME BargainingAssumption ==
  /\ Silence \in Words
  /\ Offer \in [Words -> Nat \cup {NoOffer}] /\ Signal \in [Words -> Signals]
  /\ Affirmative \subseteq Words /\ Blocked \subseteq Words
  /\ Classes \in [Words -> SUBSET {"NEGOTIATION", "PRICE_CHAT", "OTHER"}]
  /\ Messages \subseteq [channel : {"text", "image"}, words : Words]
  /\ Profiles \subseteq
       [production_cost : Int, preferred_margin : Int, minimum_price : Int]
  /\ MaxTurns \in Nat /\ {MaxInFlight, MaxFaults, MaxChanges} \subseteq Nat

Rupee == 100
MAX_NEGOTIATION_TURNS == 4
MAX_PRICE_CHAT_TURNS == 3

\* A bargain under way; opened: the turn that started it.  last_counter 0: none.
Negotiation ==
  [floor_price : Nat, turns : Nat, last_counter : Nat, opened : 0 .. MaxTurns]
NoNegotiation == [floor_price |-> 0, turns |-> 0, last_counter |-> 0, opened |-> 0]

\* A price chat under way; its floor_price is written and never read.
PriceChat == [proposed_price : Nat, turns : Nat]
NoPriceChat == [proposed_price |-> 0, turns |-> 0]

\* raw_image_s3_key: the turn that brought the picture; agreed_price 0: none.
ConversationState ==
  [raw_input_text : Words, last_message_type : {"text", "image"},
   raw_image_s3_key : 0 .. MaxTurns,
   pending_negotiation : Negotiation, awaiting_negotiation : BOOLEAN,
   pending_price_chat : PriceChat, awaiting_price_chat : BOOLEAN,
   agreed_price : Nat]

EmptyState ==
  [raw_input_text |-> Silence, last_message_type |-> "text", raw_image_s3_key |-> 0,
   pending_negotiation |-> NoNegotiation, awaiting_negotiation |-> FALSE,
   pending_price_chat |-> NoPriceChat, awaiting_price_chat |-> FALSE,
   agreed_price |-> 0]

VARIABLES
  node,               \* node[t]: the graph node turn t is about to run
  state,              \* state[t]: turn t's copy of the conversation state
  checkpoint,         \* the newest checkpoint of the thread
  seller_profile,     \* the row, written by nobody in the program
  floor_read,         \* floor_read[t]: the floor turn t computed from the row
  outbound,           \* outbound[t]: the price talk of turn t's answer
  attempts,           \* history: the pictures that were uploaded, with the
                      \* price put to each, 0: a guess; poster: it was made and sent
  catalog_creations,  \* the attempts that have a row
  faults, changes

vars == <<node, state, checkpoint, seller_profile, floor_read, outbound,
          attempts, catalog_creations, faults, changes>>

\* negotiating, price_chatting: the row has been read.
InGraph == {"load_user_profile", "classify_intent", "negotiation", "negotiating",
            "price_chat", "price_chatting", "catalog"}
Node == InGraph \cup {"idle", "done", "failed"}
Unread == {"idle", "load_user_profile", "classify_intent", "negotiation", "price_chat"}
Unanswered == Unread \cup {"negotiating", "price_chatting"}

\* What an answer says about prices, and in which bargain.
Says == {"nothing", "no_profile",
         "awaiting_offer", "counter", "accepted", "finalized", "hold_firm",
         "proposed", "settled"}
Answer == [says : Says, price : Nat, opened : 0 .. MaxTurns]
Nothing == [says |-> "nothing", price |-> 0, opened |-> 0]

Init ==
  /\ node = [t \in Turns |-> "idle"]
  /\ state = [t \in Turns |-> EmptyState]
  /\ checkpoint = EmptyState
  /\ seller_profile \in Profiles
  /\ floor_read = [t \in Turns |-> 0]
  /\ outbound = [t \in Turns |-> Nothing]
  /\ attempts = {} /\ catalog_creations = {}
  /\ faults = 0 /\ changes = 0

-----------------------------------------------------------------------------
(* Prices.                                                                 *)

\* max of the two.
NotBelow(floor, price) == IF price < floor THEN floor ELSE price

\* _recommend without a market price: the recommended price is the floor.  An
\* unset or zero margin, in thousandths, is 0.30.
Recommend(p) ==
  LET cost == NotBelow(0, p.production_cost)
      margin == NotBelow(0, IF p.preferred_margin = 0 THEN 300 ELSE p.preferred_margin)
      base == (cost * (1000 + margin) + 500) \div 1000
  IN NotBelow(NotBelow(0, p.minimum_price), NotBelow(cost, base))

\* 0 when there is nothing to go by.
FloorOf(p) == IF p.production_cost = 0 THEN 0 ELSE Recommend(p)

\* Deliberately wrong variant: the midpoint is not held at the floor.
ComputeCounterOfferUnheld(floor, offer, turns) ==
  IF turns <= 1 THEN floor ELSE (floor + offer) \div 2

ComputeCounterOffer(floor, offer, turns) ==
  IF turns <= 1 THEN floor ELSE NotBelow(floor, (floor + offer) \div 2)

-----------------------------------------------------------------------------
(* Turns.                                                                  *)

At(t, n) == node[t] = n

\* A node ends: the turn moves on and its copy becomes the newest checkpoint.
Proceed(t, next, s) ==
  /\ node' = [node EXCEPT ![t] = next]
  /\ state' = [state EXCEPT ![t] = s]
  /\ checkpoint' = s

Tell(t, says, price, opened) ==
  outbound' = [outbound EXCEPT ![t] = [says |-> says, price |-> price, opened |-> opened]]

Fault == faults < MaxFaults /\ faults' = faults + 1

\* A turn's input overwrites the keys it brings and leaves the others: a picture
\* comes with the words of the message before it.
Received(s, t, m) ==
  IF m.channel = "text"
    THEN [s EXCEPT !.last_message_type = "text", !.raw_input_text = m.words]
    ELSE [s EXCEPT !.last_message_type = "image", !.raw_image_s3_key = t]

Start(t, m) ==
  /\ At(t, "idle")
  /\ t > 1 => ~ At(t - 1, "idle")
  /\ Cardinality({u \in Turns : node[u] \in InGraph}) < MaxInFlight
  /\ Proceed(t, "load_user_profile", Received(checkpoint, t, m))
  /\ UNCHANGED <<seller_profile, floor_read, outbound, attempts, catalog_creations, faults, changes>>

\* _route_after_profile_load
Route(s) ==
  IF s.awaiting_negotiation THEN "negotiation"
  ELSE IF s.awaiting_price_chat THEN "price_chat"
  ELSE IF s.last_message_type = "image" THEN "catalog"
  ELSE "classify_intent"

\* The user's row is loaded and the guard looks at the words, of whichever
\* message; an error sends the turn to onboarding, which leaves prices alone.
LoadAndGuard(t) ==
  /\ At(t, "load_user_profile")
  /\ \/ /\ Proceed(t, IF state[t].raw_input_text \in Blocked THEN "done" ELSE Route(state[t]),
                   state[t])
        /\ UNCHANGED faults
     \/ Proceed(t, "done", state[t]) /\ Fault
  /\ UNCHANGED <<seller_profile, floor_read, outbound, attempts, catalog_creations, changes>>

NodeOf(feature) ==
  CASE feature = "NEGOTIATION" -> "negotiation"
    [] feature = "PRICE_CHAT" -> "price_chat"
    [] OTHER -> "done"

ClassifyIntent(t) ==
  /\ At(t, "classify_intent")
  /\ \E f \in Classes[state[t].raw_input_text] : Proceed(t, NodeOf(f), state[t])
  /\ UNCHANGED <<seller_profile, floor_read, outbound, attempts, catalog_creations, faults, changes>>

\* The profile is read: for every reply of a price chat, once for a bargain.
ReadFloor(t) ==
  /\ \/ At(t, "price_chat") /\ node' = [node EXCEPT ![t] = "price_chatting"]
     \/ /\ At(t, "negotiation") /\ state[t].pending_negotiation = NoNegotiation
        /\ node' = [node EXCEPT ![t] = "negotiating"]
  /\ floor_read' = [floor_read EXCEPT ![t] = FloorOf(seller_profile)]
  /\ UNCHANGED <<state, checkpoint, seller_profile, outbound, attempts, catalog_creations,
                 faults, changes>>

-----------------------------------------------------------------------------
(* negotiation_node.                                                       *)

\* Deliberately wrong variant: the counter offer is kept as it was printed, in
\* whole rupees.
PendingPrinted(s, n) ==
  [s EXCEPT !.pending_negotiation = [n EXCEPT !.last_counter = Rupee * (@ \div Rupee)],
            !.awaiting_negotiation = TRUE]

Pending(s, n) == [s EXCEPT !.pending_negotiation = n, !.awaiting_negotiation = TRUE]
Closed(s) == [s EXCEPT !.pending_negotiation = NoNegotiation, !.awaiting_negotiation = FALSE]

OfferIn(s) ==
  IF Offer[s.raw_input_text] = NoOffer THEN NoOffer ELSE Rupee * Offer[s.raw_input_text]

\* _evaluate_offer with _accept and _counter.  n: the bargain with this reply counted.
EvaluateOffer(t, n, offer) ==
  LET counter == ComputeCounterOffer(n.floor_price, offer, n.turns) IN
  IF offer >= n.floor_price
    THEN Proceed(t, "done", Closed(state[t])) /\ Tell(t, "accepted", offer, n.opened)
    ELSE /\ Proceed(t, "done", Pending(state[t], [n EXCEPT !.last_counter = counter]))
         /\ Tell(t, "counter", counter, n.opened)

StartNegotiation(t) ==
  LET floor == floor_read[t]
      offer == OfferIn(state[t])
      n == [floor_price |-> floor, turns |-> 0, last_counter |-> 0, opened |-> t]
  IN
  /\ At(t, "negotiating")
  /\ IF floor = 0
       THEN Proceed(t, "done", state[t]) /\ Tell(t, "no_profile", 0, 0)
     ELSE IF offer = NoOffer
       THEN Proceed(t, "done", Pending(state[t], n)) /\ Tell(t, "awaiting_offer", 0, t)
     ELSE EvaluateOffer(t, [n EXCEPT !.turns = 1], offer)
  /\ UNCHANGED <<seller_profile, floor_read, attempts, catalog_creations, faults, changes>>

\* Deliberately wrong variant: the replies of a bargain are not counted.
CountedNot(n) == n

Counted(n) == [n EXCEPT !.turns = @ + 1]

\* A reply without an amount leaves the bargain as it was, its count too.
ContinueNegotiation(t) ==
  LET s == state[t]
      n == s.pending_negotiation
      offer == OfferIn(s)
  IN
  /\ At(t, "negotiation") /\ n # NoNegotiation
  /\ IF s.raw_input_text \in Affirmative /\ n.last_counter # 0
       THEN Proceed(t, "done", Closed(s)) /\ Tell(t, "finalized", n.last_counter, n.opened)
     ELSE IF offer = NoOffer
       THEN Proceed(t, "done", Pending(s, n)) /\ Tell(t, "awaiting_offer", 0, n.opened)
     ELSE IF Counted(n).turns > MAX_NEGOTIATION_TURNS
       THEN Proceed(t, "done", Closed(s)) /\ Tell(t, "hold_firm", n.floor_price, n.opened)
     ELSE EvaluateOffer(t, Counted(n), offer)
  /\ UNCHANGED <<seller_profile, floor_read, attempts, catalog_creations, faults, changes>>

-----------------------------------------------------------------------------
(* price_chat_node and catalog_node.                                       *)

\* _route_after_price_chat
AfterPriceChat(s) ==
  IF ~ s.awaiting_price_chat /\ s.agreed_price # 0 THEN "catalog" ELSE "done"

Propose(t, price, turns) ==
  LET s == [state[t] EXCEPT
              !.pending_price_chat = [proposed_price |-> price, turns |-> turns],
              !.awaiting_price_chat = TRUE]
  IN Proceed(t, AfterPriceChat(s), s) /\ Tell(t, "proposed", price, 0)

\* Deliberately wrong variant: the price is settled as it was printed.
FinalizePrinted(t, price) ==
  LET whole == Rupee * (price \div Rupee)
      s == [state[t] EXCEPT !.pending_price_chat = NoPriceChat,
                            !.awaiting_price_chat = FALSE, !.agreed_price = whole]
  IN Proceed(t, AfterPriceChat(s), s) /\ Tell(t, "settled", whole, 0)

\* _finalize
Finalize(t, price) ==
  LET s == [state[t] EXCEPT !.pending_price_chat = NoPriceChat,
                            !.awaiting_price_chat = FALSE, !.agreed_price = price]
  IN Proceed(t, AfterPriceChat(s), s) /\ Tell(t, "settled", price, 0)

\* Deliberately wrong variant: lowering is not held at the floor.
LoweredUnheld(floor, price) == (23 * price) \div 25

\* 8 % less, not below the floor, and the floor if it comes within 0.01 of it.
Lowered(floor, price) ==
  LET lower == NotBelow(floor, (23 * price) \div 25)
  IN IF lower <= floor + 1 THEN floor ELSE lower

\* 8 % more.
Raised(price) == (27 * price) \div 25

ChatAboutPrice(t) ==
  LET s == state[t]
      floor == floor_read[t]
      chat == s.pending_price_chat
      signal == Signal[s.raw_input_text]
      turns == chat.turns + 1
  IN
  /\ At(t, "price_chatting")
  /\ IF floor = 0
       THEN Proceed(t, AfterPriceChat(s), s) /\ Tell(t, "no_profile", 0, 0)
     ELSE IF chat = NoPriceChat THEN Propose(t, floor, 1)
     ELSE IF signal = "accept" \/ turns > MAX_PRICE_CHAT_TURNS
       THEN Finalize(t, chat.proposed_price)
     ELSE Propose(t, CASE signal = "wants_lower" -> Lowered(floor, chat.proposed_price)
                       [] signal = "wants_higher" -> Raised(chat.proposed_price)
                       [] OTHER -> chat.proposed_price, turns)
  /\ UNCHANGED <<seller_profile, floor_read, attempts, catalog_creations, faults, changes>>

\* Deliberately wrong variant: an agreed price is kept for the next poster.
PricedKeeping(s) == s

\* An agreed price is spent on one attempt at a poster.
Priced(s) ==
  IF s.agreed_price = 0 THEN s
    ELSE [s EXCEPT !.agreed_price = 0, !.pending_price_chat = NoPriceChat]

\* The picture is answered and has a row.  An error costs the poster (its upload, its
\* link), for which the bare picture or an apology is sent, or the row, which
\* _record_creation swallows, or both; the price is spent all the same.
Deliver(t) ==
  LET s == state[t]
      Attempt(poster) == [turn |-> t, picture |-> s.raw_image_s3_key,
                          price |-> s.agreed_price, poster |-> poster]
  IN
  /\ s.raw_image_s3_key # 0
  /\ Proceed(t, "done", Priced(s))
  /\ \E poster, recorded \in BOOLEAN :
       /\ IF poster /\ recorded THEN UNCHANGED faults ELSE Fault
       /\ attempts' = attempts \cup {Attempt(poster)}
       /\ catalog_creations' =
            catalog_creations \cup IF recorded THEN {Attempt(poster)} ELSE {}

\* No picture, the daily cap, a bad picture, no model, no storage: the price is kept.
Catalog(t) ==
  /\ At(t, "catalog")
  /\ \/ Proceed(t, "done", state[t]) /\ UNCHANGED <<attempts, catalog_creations, faults>>
     \/ Deliver(t)
  /\ UNCHANGED <<seller_profile, floor_read, outbound, changes>>

\* An error no node catches ends the turn; what its nodes wrote stays.
GraphFails(t) ==
  /\ node[t] \in InGraph \ {"load_user_profile"} /\ Fault
  /\ node' = [node EXCEPT ![t] = "failed"]
  /\ UNCHANGED <<state, checkpoint, seller_profile, floor_read, outbound,
                 attempts, catalog_creations, changes>>

ProfileChanges ==
  /\ changes < MaxChanges /\ changes' = changes + 1
  /\ seller_profile' \in Profiles
  /\ UNCHANGED <<node, state, checkpoint, floor_read, outbound, attempts, catalog_creations, faults>>

Next ==
  \/ \E t \in Turns :
       \/ \E m \in Messages : Start(t, m)
       \/ LoadAndGuard(t) \/ ClassifyIntent(t) \/ ReadFloor(t)
       \/ StartNegotiation(t) \/ ContinueNegotiation(t)
       \/ ChatAboutPrice(t) \/ Catalog(t) \/ GraphFails(t)
  \/ ProfileChanges

Spec == Init /\ [][Next]_vars
-----------------------------------------------------------------------------
(* Properties.                                                             *)

TypeOK ==
  /\ node \in [Turns -> Node]
  /\ state \in [Turns -> ConversationState]
  /\ checkpoint \in ConversationState
  /\ seller_profile \in Profiles
  /\ floor_read \in [Turns -> Nat]
  /\ outbound \in [Turns -> Answer]
  /\ attempts \subseteq [turn : Turns, picture : Turns, price : Nat, poster : BOOLEAN]
  /\ catalog_creations \subseteq attempts
  /\ faults \in Nat /\ changes \in Nat

\* Every price named in a bargain, offered, agreed to or held, is at least the
\* floor computed when that bargain was opened: whatever else the thread did
\* meanwhile, however turns overwrite each other's copy of the bargain, and whether
\* or not the profile has changed (_evaluate_offer, _compute_counter_offer).
NoDealBelowFloor ==
  \A t \in Turns :
    outbound[t].says \in {"counter", "accepted", "finalized", "hold_firm"} =>
      /\ outbound[t].opened # 0 /\ floor_read[outbound[t].opened] # 0
      /\ outbound[t].price >= floor_read[outbound[t].opened]

\* A floor some turn has computed; an answer some turn has given.
Covered(price, floors) == \E u \in Turns : floors[u] # 0 /\ price >= floors[u]
Told(answers, says, price, opened) ==
  \E u \in Turns : answers[u] = [says |-> says, price |-> price, opened |-> opened]

\* A price of the price chat, proposed, agreed or put to a picture, is at least a floor
\* that was computed from the seller's own figures (price_chat_node, catalog_node).
PriceCoversCost ==
  /\ \A t \in Turns : outbound[t].says \in {"proposed", "settled"} =>
       Covered(outbound[t].price, floor_read)
  /\ \A c \in attempts : c.price # 0 => Covered(c.price, floor_read)

\* A yes settles a price that another turn's answer named before, in the same
\* bargain if it is one (_continue_negotiation, price_chat_node).
SettledWasNamed ==
  \A t \in Turns :
    /\ outbound[t].says = "finalized" =>
         Told(outbound, "counter", outbound[t].price, outbound[t].opened)
    /\ outbound[t].says = "settled" => Told(outbound, "proposed", outbound[t].price, 0)

\* What is offered to the customer in a bargain is never anything but its floor: the
\* midpoint of the floor and an offer below it is not above it, so that haggling
\* moves nothing (_compute_counter_offer).
CounterIsFloor ==
  \A t \in Turns : outbound[t].says \in {"counter", "finalized", "hold_firm"} =>
    outbound[t].price = floor_read[outbound[t].opened]

\* The answers that end a bargain; the turns that answered so in bargain b.
Endings == {"accepted", "finalized", "hold_firm"}
AnswersIn(b, says) == {t \in Turns : outbound[t].opened = b /\ outbound[t].says \in says}

\* For a user who awaits replies: a bargain hears at most MAX_NEGOTIATION_TURNS
\* offers before it ends, and nothing is said in it after it has ended.
BargainCapped ==
  \A b \in Turns :
    /\ Cardinality(AnswersIn(b, {"counter"})) <= MAX_NEGOTIATION_TURNS
    /\ Cardinality(AnswersIn(b, Endings)) <= 1
    /\ \A e \in AnswersIn(b, Endings) : \A t \in AnswersIn(b, Says) : t <= e

\* For a user who awaits replies: a price settled in a chat is put to the first picture
\* that is uploaded afterwards, and to no other.  It is spent there even
\* if the upload of the poster, its link or the row then fails (catalog_node).
SettledPriceServesOnce ==
  \A c \in attempts :
    LET settled == {t \in 1 .. c.turn : outbound[t].says = "settled"}
        unused == {t \in settled : \A u \in settled : u <= t}
                    \ {t \in settled : \E d \in attempts : t <= d.turn /\ d.turn < c.turn}
    IN IF unused = {} THEN c.price = 0 ELSE \A t \in unused : c.price = outbound[t].price

\* Why they hold.  A turn computes one floor and gives one answer, so that neither
\* changes once it is there.
AnswersLater ==
  \A t \in Turns :
    /\ node[t] \in Unanswered => outbound[t] = Nothing
    /\ node[t] \in Unread => floor_read[t] = 0

\* The bargain, the chat and the price in any copy of the state, old or new, go back
\* to a floor that was computed and to an answer that was given.
SoundCopy(s, floors, answers) ==
  LET n == s.pending_negotiation
      chat == s.pending_price_chat
  IN
  /\ n # NoNegotiation =>
       /\ n.opened \in Turns /\ floors[n.opened] # 0
       /\ n.floor_price = floors[n.opened]
       /\ n.last_counter # 0 =>
            /\ n.last_counter >= n.floor_price
            /\ Told(answers, "counter", n.last_counter, n.opened)
  /\ chat # NoPriceChat =>
       /\ Covered(chat.proposed_price, floors)
       /\ Told(answers, "proposed", chat.proposed_price, 0)
  /\ s.agreed_price # 0 => Covered(s.agreed_price, floors)

CopiesSound ==
  /\ SoundCopy(checkpoint, floor_read, outbound)
  /\ \A t \in Turns : SoundCopy(state[t], floor_read, outbound)

BargainInv ==
  /\ TypeOK /\ AnswersLater /\ CopiesSound
  /\ NoDealBelowFloor /\ PriceCoversCost /\ SettledWasNamed

\* Why the other two hold of a user who awaits replies.  A turn starts when the ones
\* before it are over (InOrder), and works on the checkpoint (CopyIsNewest).
AwaitsReplies == MaxInFlight = 1

InOrder ==
  \A t, u \in Turns : t < u /\ node[u] # "idle" => node[t] \notin InGraph \cup {"idle"}

CopyIsNewest == \A t \in Turns : node[t] \in InGraph => state[t] = checkpoint

\* The pending bargain has counted the counter offers made in it, it is not one that
\* has ended, and none is spoken of before it is opened.
BargainCounted ==
  LET n == checkpoint.pending_negotiation IN
  /\ \A t \in Turns : outbound[t].opened <= t
  /\ n.turns <= MAX_NEGOTIATION_TURNS
  /\ n # NoNegotiation => Cardinality(AnswersIn(n.opened, {"counter"})) <= n.turns
  /\ AnswersIn(n.opened, Endings) = {}

\* The agreed price is the last one settled, until an attempt at a poster spends it.
Unused(t) ==
  /\ outbound[t].says = "settled"
  /\ \A u \in Turns : outbound[u].says = "settled" => u <= t
  /\ \A d \in attempts : d.turn < t

AgreedIsUnused ==
  /\ \A t \in Turns : Unused(t) => checkpoint.agreed_price = outbound[t].price
  /\ checkpoint.agreed_price # 0 => \E t \in Turns : Unused(t)
  /\ \A c \in attempts : node[c.turn] = "done"

SerialInv ==
  /\ InOrder /\ CopyIsNewest /\ BargainCounted /\ AgreedIsUnused
  /\ BargainCapped /\ SettledPriceServesOnce
=============================================================================
