----------------------------- MODULE MCBargaining -----------------------------
(* Small instances of Bargaining for TLC: what sellers write, and profiles. *)
EXTENDS Bargaining, TLC

CONSTANTS
  silence,
  haggle,      \* "দরদাম"
  haggle80,    \* "দরদাম, কাস্টমার ৮০ টাকা বলেছে"
  offer80,     \* "৮০ টাকা"
  offer205,    \* "২০৫ টাকা"
  offer300,    \* "৩০০ টাকা"
  setPrice,    \* what the model may take for the feature PRICE_CHAT
  yes,         \* "হ্যাঁ"
  ok,          \* "ok": answered by the input guard
  less,        \* "কম করুন"
  more,        \* "বাড়ান"
  thinking     \* "চিন্তা করছি"

MCWords == {silence, haggle, haggle80, offer80, offer205, offer300, setPrice,
            yes, ok, less, more, thinking}

MCOffer ==
  [w \in MCWords |-> CASE w \in {haggle80, offer80} -> 80 [] w = offer205 -> 205
                       [] w = offer300 -> 300 [] OTHER -> NoOffer]

MCSignal ==
  [w \in MCWords |-> CASE w \in {yes, ok} -> "accept" [] w = less -> "wants_lower"
                       [] w = more -> "wants_higher" [] OTHER -> "unclear"]

MCAffirmative == {yes, ok}
MCBlocked == {ok}

MCClasses ==
  [w \in MCWords |-> CASE w \in {haggle, haggle80} -> {"NEGOTIATION"}
                       [] w = setPrice -> {"PRICE_CHAT", "OTHER"} [] OTHER -> {"OTHER"}]

Typed(words) == [channel : {"text"}, words : words]
Picture == [channel : {"image"}, words : {silence}]

\* A cost of 158 and no margin given: a floor of 205.40.  Later a cost of 200.
Seller == [production_cost |-> 15800, preferred_margin |-> 0, minimum_price |-> 0]
Dearer == [production_cost |-> 20000, preferred_margin |-> 250, minimum_price |-> 0]
\* Figures below zero, which leave no floor.
Broken == [production_cost |-> -50000, preferred_margin |-> 300, minimum_price |-> -100]

OneSeller == {Seller}
TwoCosts == {Seller, Dearer}
AnySeller == {Seller, Dearer, Broken}

\* Whoever awaits no reply, and whoever does.
Hasty == Typed({haggle, haggle80, offer205, offer300, setPrice, yes, ok, less, more}) \cup Picture
Patient == Typed({haggle80, offer300, setPrice, yes, less}) \cup Picture
=============================================================================
