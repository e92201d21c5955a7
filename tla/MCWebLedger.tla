----------------------------- MODULE MCWebLedger -----------------------------
(* A small instance of WebLedger for TLC.                                  *)
EXTENDS WebLedger, TLC

CONSTANTS r1, r2

Clause(numbers, word, kinds, item) ==
  [numbers |-> numbers, word |-> word, kinds |-> kinds, taka |-> TRUE, item |-> item]
Said(clauses, keyword) ==
  [clauses |-> clauses, multiplier |-> FALSE, blocked |-> FALSE, keyword |-> keyword,
   followup |-> FALSE]

\* "saved 3 taka"; "0 taka, fifty"; "sold rice for 3 taka, bought oil for fifty"; "2 kg"; "hello";
\* "what should I ask for it".
MCTexts == {
  Said(<<Clause(<<3>>, 0, {"SAVINGS"}, FALSE)>>, "LEDGER"),
  Said(<<Clause(<<0>>, 0, {}, FALSE), Clause(<<>>, 5, {}, FALSE)>>, "LEDGER"),
  Said(<<Clause(<<3>>, 0, {"INCOME"}, TRUE), Clause(<<>>, 5, {}, TRUE)>>, "LEDGER"),
  [Said(<<Clause(<<2>>, 0, {}, FALSE)>>, "none") EXCEPT !.multiplier = TRUE,
                                                         !.followup = TRUE],
  [Said(<<Clause(<<>>, 0, {}, FALSE)>>, "none") EXCEPT !.blocked = TRUE],
  Said(<<Clause(<<>>, 0, {}, TRUE)>>, "NEGOTIATION")}

Tx(type, n) == [type |-> type, amount_inr |-> Amounting(n)]
Written(n) == [number |-> FALSE, floats |-> TRUE, value |-> n]
NotANumber == [number |-> FALSE, floats |-> FALSE, value |-> 0]
MCModelAnswers ==
  {[reading |-> x, transactions |-> Nothing] : x \in Readings}
    \cup {[reading |-> "sure", transactions |-> t] : t \in
            {<<Tx("SAVINGS", 9), NoLine, NoLine>>,
             <<Tx("INCOME", 3), Tx("UNKNOWN", 5), Tx("EXPENSE", 7)>>,
             <<[type |-> "KISTI", amount_inr |-> Written(7)],
               [type |-> "WAGES", amount_inr |-> NotANumber], NoLine>>,
             <<[type |-> "EXPENSE", amount_inr |-> Written(7)], NoLine, NoLine>>}}

MCHandlers == Permutations({r1, r2})
=============================================================================
