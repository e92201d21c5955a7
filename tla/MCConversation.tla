--------------------------- MODULE MCConversation ---------------------------
(* Small instances of Conversation for TLC: what users say and how.        *)
EXTENDS Conversation, TLC

CONSTANTS
  silence,
  yes,      \* "হ্যাঁ"
  okay,     \* "ok": affirmative, and answered by the input guard
  no,       \* "না"
  sale,     \* "১০ কেজি ধান বিক্রি ৩০০ টাকা"
  amount,   \* "৪০০": an amount, nothing else
  fix,      \* "দাম ৪০০ টাকা, ৩০০ নয়": the example the form's reply gives
  hello,    \* small talk the input guard lets through
  tapSave, tapDiscard, tapFix   \* confirmation_choice of the form

MCWords == {silence, yes, okay, no, sale, amount, fix, hello,
            tapSave, tapDiscard, tapFix}

MCMeans ==
  [w \in MCWords |->
    CASE w = yes -> {"affirmative", "simple_confirm"}
      [] w = okay -> {"affirmative", "simple_confirm", "blocked"}
      [] w = no -> {"negative", "simple_confirm"}
      [] w = sale -> {"digits", "transaction", "item"}
      [] w = amount -> {"digits", "followup"}
      [] w = fix -> {"digits", "transaction"}
      [] w = tapSave -> {"choice", "confirm_save"}
      [] w = tapDiscard -> {"choice", "discard"}
      [] w = tapFix -> {"choice"}
      [] OTHER -> {}]

MCKeyword ==
  [w \in MCWords |->
    CASE w = sale -> "LEDGER" [] w = fix -> "PRICING" [] OTHER -> "none"]

\* A model that may take anything for anything, and one that is never wrong.
MCAnyGuess == [w \in MCWords |-> Features]
MCRightGuess ==
  [w \in MCWords |-> IF w \in {sale, amount, fix} THEN {"LEDGER"} ELSE {"IDLE"}]

By(channel, words) == [channel : {channel}, words : words]

\* What the amounts of an extracted entry may be.
GoodAmounts == {"good"}
SavableOrNot == {"good", "garbled"}

Typed == By("text", {yes, okay, no, sale, amount, hello})
           \cup By("flow", {tapSave, tapDiscard})
Serial == By("chat", {yes, no, sale, amount}) \cup By("audio", {no, sale})
            \cup By("image", {silence})
Replies == By("chat", {yes, sale, fix, hello})
SaleThenVoice == By("text", {yes, sale}) \cup By("audio", {no, sale})
=============================================================================
