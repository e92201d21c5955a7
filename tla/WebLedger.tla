------------------------------ MODULE WebLedger ------------------------------
(* Entries written by way of the web: POST /chat/parse reads a text as       *)
(* entries and saves nothing, POST /ledger/confirm saves the entries it is   *)
(* sent.  A text is read by the graph, on a thread of its own whose          *)
(* checkpoint outlives the request, and within three seconds; if that comes  *)
(* to nothing it is read by rules.                                           *)
(*                                                                           *)
(* A text is in Bengali letters for the most part: what a translator makes   *)
(* of the others before the graph reads them is not in here.                 *)
(* The person whose thread it is may have several requests at work.          *)
EXTENDS Naturals, FiniteSets, Sequences

CONSTANTS
  Requests,            \* the handlers that can be at work at once
  Texts,               \* what is sent to be read
  ModelAnswers,        \* what the model reads in any of them
  NoLine,              \* in place of a transaction
  MAX_TRANSACTIONS_PER_ENTRY,
  MaxLines,            \* the transactions in a text, or in an answer
  MaxRupees,           \* no longer number fits in a text, or in a column
  MaxParses, MaxAttempts, MaxFaults

Kinds == {"RECOVERY", "KISTI", "SAVINGS", "WAGES", "BORROW", "LEND", "INCOME",
          "EXPENSE"}

\* The kinds as they are looked for, the first that is found.
KindOrder == <<"RECOVERY", "KISTI", "SAVINGS", "WAGES", "BORROW", "LEND", "INCOME",
               "EXPENSE">>

Rupees == 0..MaxRupees

\* What the program looks for between two commas: numbers in digits, the amount
\* of a number word (0: none), words of each kind, a word for money, an item
\* of RURAL_ITEM_PATTERNS.
Clauses == [numbers : Seq(Rupees), word : Rupees, kinds : SUBSET Kinds, taka : BOOLEAN,
            item : BOOLEAN]

Features == {"LEDGER", "NEGOTIATION", "IDLE"}

\* multiplier: "kg", "hali", ...; followup: a word of context_words.
IsText(t) ==
  /\ t = [clauses |-> t.clauses, multiplier |-> t.multiplier, blocked |-> t.blocked,
          keyword |-> t.keyword, followup |-> t.followup]
  /\ \E n \in 1..MaxLines : t.clauses \in [1..n -> Clauses]
  /\ {t.multiplier, t.blocked, t.followup} \subseteq BOOLEAN
  /\ t.keyword \in Features \cup {"none"}

\* A number, or a string, which float() takes or refuses.  The model is free to
\* answer one, or a type that nobody knows.
Amounts == [number : BOOLEAN, floats : {TRUE}, value : Rupees]
             \cup [number : {FALSE}, floats : {FALSE}, value : {0}]
Amounting(n) == [number |-> TRUE, floats |-> TRUE, value |-> n]
Transaction == [type : Kinds \cup {"UNKNOWN"}, amount_inr : Amounts]

\* Transactions in their places in a text or in an answer.
Lines == 1..MaxLines
Transactions == [Lines -> Transaction \cup {NoLine}]
Of(transactions) == {i \in Lines : transactions[i] # NoLine}

\* "malformed": no JSON; "unavailable": no model.
Readings == {"malformed", "unavailable", "unsure", "sure"}

ASSUME WebLedgerAssumption ==
  /\ \A t \in Texts : IsText(t)
  /\ NoLine \notin Transaction
  /\ ModelAnswers \subseteq [reading : Readings, transactions : Transactions]
  /\ MAX_TRANSACTIONS_PER_ENTRY \in Nat \ {0} /\ MaxLines \in Nat \ {0}
  /\ MaxRupees \in Nat /\ 100 <= MaxRupees
  /\ MaxParses \in Nat /\ MaxAttempts \in Nat /\ MaxFaults \in Nat

Parses == 1..MaxParses
Attempts == 1..MaxAttempts

Nothing == [i \in Lines |-> NoLine]
NoEntry == [of |-> 0, by |-> "nobody", transactions |-> Nothing]
Readers == {"nobody", "model", "rules", "context"}
Entry == [of : 0..MaxParses, by : Readers, transactions : Transactions]

\* What is kept of the thread.  engaged: awaiting_negotiation or
\* awaiting_price_chat, which a request for a reading does not clear.
States == [pending_ledger_entry : Entry, last_discussed : Entry,
           is_new_user : BOOLEAN, engaged : BOOLEAN]
Fresh == [pending_ledger_entry |-> NoEntry, last_discussed |-> NoEntry,
          is_new_user |-> FALSE, engaged |-> FALSE]

VARIABLES
  checkpoint,      \* the newest state of the thread, in memory
  request,         \* what each handler is about
  sent,            \* sent[p]: the text of the p-th request for a reading
  answers,         \* answers[p]: what was read in it
  ledger_entries,  \* the rows: from which answer, by which attempt, which line
  attempts, faults,
  barred           \* history: parses that found the thread engaged, or no profile

vars == <<checkpoint, request, sent, answers, ledger_entries, attempts, faults, barred>>

InGraph == {"load_user_profile", "input_guard", "classify_intent", "ledger",
            "negotiation", "other"}
Stages == InGraph \cup {"idle", "finished", "fallback", "user", "commit"}

Idle == [at |-> "idle", parse |-> 0, attempt |-> 0, state |-> Fresh]

\* A line as it is shown: the type in lower case.
Lower == [RECOVERY |-> "recovery", KISTI |-> "kisti", SAVINGS |-> "savings",
          WAGES |-> "wages", BORROW |-> "borrow", LEND |-> "lend",
          INCOME |-> "income", EXPENSE |-> "expense", UNKNOWN |-> "unknown"]

Init ==
  /\ checkpoint = Fresh /\ request = [r \in Requests |-> Idle]
  /\ sent = <<>> /\ answers = [p \in {} |-> NoEntry] /\ ledger_entries = {}
  /\ attempts = 0 /\ faults = 0 /\ barred = {}

-----------------------------------------------------------------------------
(* Reading by rules.                                                       *)

Largest(S) == CHOOSE n \in S : \A m \in S : m <= n
NumbersIn(c) == {c.numbers[k] : k \in 1..Len(c.numbers)}

\* Digits count before number words, and of several numbers the largest.
Amount(c) == IF c.numbers # <<>> THEN Largest(NumbersIn(c)) ELSE c.word

KindOf(c) ==
  IF c.kinds # {}
  THEN KindOrder[CHOOSE k \in 1..Len(KindOrder) :
         /\ KindOrder[k] \in c.kinds
         /\ \A j \in 1..(k - 1) : KindOrder[j] \notin c.kinds]
  ELSE IF c.taka THEN "EXPENSE" ELSE "INCOME"

Single(c) == [type |-> KindOf(c), amount_inr |-> Amounting(Amount(c))]

\* What _extract_multi_ledger_fallback answers when it finds no amount.
Invented == [Nothing EXCEPT ![1] = [type |-> "INCOME", amount_inr |-> Amounting(100)]]

Priced(t) == {i \in DOMAIN t.clauses : Amount(t.clauses[i]) > 0}
Fallback(t) ==
  IF Priced(t) = {} THEN Invented
  ELSE [i \in Lines |-> IF i \in Priced(t) THEN Single(t.clauses[i]) ELSE NoLine]

-----------------------------------------------------------------------------
(* Reading by the graph.                                                   *)

NumbersOf(t) == UNION {NumbersIn(t.clauses[i]) : i \in DOMAIN t.clauses}
NamesItem(t) == \E i \in DOMAIN t.clauses : t.clauses[i].item
OneNumber(t) ==
  \E i \in DOMAIN t.clauses :
    /\ Len(t.clauses[i].numbers) = 1
    /\ \A j \in DOMAIN t.clauses : j # i => t.clauses[j].numbers = <<>>

Route(t, s) ==
  CASE s.is_new_user -> "finished" [] ~s.is_new_user /\ s.engaged -> "negotiation"
    [] OTHER -> "classify_intent"

Classes(t, s) ==
  IF t.keyword # "none" THEN {t.keyword}
  ELSE IF NumbersOf(t) # {} /\ t.followup /\ s.last_discussed # NoEntry THEN {"LEDGER"}
  ELSE Features

NodeOf(feature) ==
  CASE feature = "LEDGER" -> "ledger" [] feature = "NEGOTIATION" -> "negotiation"
    [] OTHER -> "other"

\* An amount without an item continues what was discussed before it.
Continues(t, s) ==
  NumbersOf(t) # {} /\ ~NamesItem(t) /\ Of(s.last_discussed.transactions) # {}

First(transactions) ==
  transactions[CHOOSE i \in Of(transactions) : \A j \in Of(transactions) : i <= j]

\* Deliberately wrong variant: the amount is continued, too.
ContinuedKeeping(t, s) == [Nothing EXCEPT ![1] = First(s.last_discussed.transactions)]

Continued(t, s) ==
  [Nothing EXCEPT ![1] = [First(s.last_discussed.transactions)
                            EXCEPT !.amount_inr = Amounting(Largest(NumbersOf(t)))]]

\* transactions[:MAX_TRANSACTIONS_PER_ENTRY]
Truncated(transactions) ==
  [i \in Lines |->
     IF Cardinality({j \in Of(transactions) : j <= i}) <= MAX_TRANSACTIONS_PER_ENTRY
     THEN transactions[i] ELSE NoLine]

\* Deliberately wrong variant: the model's amount stands.
AmendedNever(t, transactions) == transactions

\* The only number in the text is the amount, whatever the model made of it.
Amended(t, transactions) ==
  IF OneNumber(t) /\ Cardinality(Of(transactions)) = 1 /\ ~t.multiplier
  THEN [i \in Lines |->
          IF i \notin Of(transactions) THEN NoLine
          ELSE [transactions[i] EXCEPT !.amount_inr = Amounting(Largest(NumbersOf(t)))]]
  ELSE transactions

\* _confirmation_lines adds up the amounts of four of the types, as they are.
Summed == {"INCOME", "EXPENSE", "LEND", "BORROW"}
Raises(transactions) ==
  \E i \in Of(transactions) :
    transactions[i].type \in Summed /\ ~transactions[i].amount_inr.number

-----------------------------------------------------------------------------
(* POST /chat/parse.                                                       *)

At(r, stage) == request[r].at = stage
Text(r) == sent[request[r].parse]
Fault == faults < MaxFaults /\ faults' = faults + 1
Goes(r, stage) == request' = [request EXCEPT ![r].at = stage]

Proceed(r, stage, s) ==
  /\ request' = [request EXCEPT ![r].at = stage, ![r].state = s]
  /\ checkpoint' = s

\* The input clears awaiting_confirmation, so that no reading is taken for an
\* answer; the pending entry stays.
Parse(r, t) ==
  /\ At(r, "idle") /\ Len(sent) < MaxParses
  /\ sent' = Append(sent, t)
  /\ barred' = IF checkpoint.engaged THEN barred \cup {Len(sent) + 1} ELSE barred
  /\ request' = [request EXCEPT ![r] = [Idle EXCEPT !.at = "load_user_profile",
                   !.parse = Len(sent) + 1,
                   !.state = [checkpoint EXCEPT !.is_new_user = FALSE]]]
  /\ checkpoint' = [checkpoint EXCEPT !.is_new_user = FALSE]
  /\ UNCHANGED <<answers, ledger_entries, attempts, faults>>

LoadUserProfile(r) ==
  /\ At(r, "load_user_profile")
  /\ \/ Proceed(r, "input_guard", request[r].state) /\ UNCHANGED <<faults, barred>>
     \/ /\ Proceed(r, "input_guard", [request[r].state EXCEPT !.is_new_user = TRUE])
        /\ Fault /\ barred' = barred \cup {request[r].parse}
  /\ UNCHANGED <<sent, answers, ledger_entries, attempts>>

\* A user who looks new is told that onboarding is over.
InputGuard(r) ==
  /\ At(r, "input_guard")
  /\ Proceed(r, IF Text(r).blocked THEN "finished" ELSE Route(Text(r), request[r].state),
             request[r].state)
  /\ UNCHANGED <<sent, answers, ledger_entries, attempts, faults, barred>>

ClassifyIntent(r) ==
  /\ At(r, "classify_intent")
  /\ \E f \in Classes(Text(r), request[r].state) :
       Proceed(r, NodeOf(f), request[r].state)
  /\ UNCHANGED <<sent, answers, ledger_entries, attempts, faults, barred>>

\* The node raises and has written nothing, or its entry waits for a yes.
Drafts(r, by, transactions) ==
  LET entry == [of |-> request[r].parse, by |-> by, transactions |-> transactions]
  IN  IF Raises(transactions)
      THEN Goes(r, "fallback") /\ UNCHANGED checkpoint
      ELSE Proceed(r, "finished", [request[r].state EXCEPT
             !.pending_ledger_entry = entry, !.last_discussed = entry])

\* Deliberately wrong variant: the entry that was pending stays.
UnclearOnly(r) == Proceed(r, "finished", request[r].state)

\* Malformed, not sure enough, or empty: clarification is asked for.
Unclear(r) ==
  Proceed(r, "finished", [request[r].state EXCEPT !.pending_ledger_entry = NoEntry])

LedgerExtract(r) ==
  LET s == request[r].state
      t == Text(r)
      read(transactions) == Amended(t, Truncated(transactions))
  IN  /\ At(r, "ledger")
      /\ \/ Continues(t, s) /\ Drafts(r, "context", Continued(t, s))
         \/ /\ ~Continues(t, s)
            /\ \E a \in ModelAnswers :
                 \/ a.reading = "unavailable" /\ Drafts(r, "rules", read(Fallback(t)))
                 \/ /\ a.reading = "sure" /\ Of(a.transactions) # {}
                    /\ Drafts(r, "model", read(a.transactions))
                 \/ /\ a.reading \in {"malformed", "unsure"}
                         \/ (a.reading = "sure" /\ Of(a.transactions) = {})
                    /\ Unclear(r)
      /\ UNCHANGED <<sent, answers, ledger_entries, attempts, faults, barred>>

OtherNode(r) ==
  /\ \/ At(r, "other") /\ Proceed(r, "finished", request[r].state)
     \/ /\ At(r, "negotiation")
        /\ \E b \in BOOLEAN :
             Proceed(r, "finished", [request[r].state EXCEPT !.engaged = b])
  /\ UNCHANGED <<sent, answers, ledger_entries, attempts, faults, barred>>

\* Deliberately wrong variant: the model is waited for.
TimesOutEarly(r) ==
  /\ request[r].at \in {"load_user_profile", "input_guard"} /\ Goes(r, "fallback")
  /\ UNCHANGED <<checkpoint, sent, answers, ledger_entries, attempts, faults, barred>>

\* Three seconds are over, or a node raises, as it does at JSON of another shape.
\* What the nodes wrote stays.
TimesOut(r) ==
  /\ request[r].at \in InGraph /\ Goes(r, "fallback")
  /\ UNCHANGED <<checkpoint, sent, answers, ledger_entries, attempts, faults, barred>>

\* The lines are converted one by one, up to one that cannot be.
Convertible(transactions) ==
  [i \in Lines |->
     IF i \in Of(transactions)
          /\ \A j \in Of(transactions) : j <= i => transactions[j].amount_inr.floats
     THEN [transactions[i] EXCEPT !.amount_inr = Amounting(@.value)] ELSE NoLine]

\* The pending entry of the thread, or what the rules make of the text.
Answer(r) ==
  LET p == request[r].parse
      pending == request[r].state.pending_ledger_entry
      taken == Convertible(pending.transactions)
      reply == IF At(r, "finished") /\ Of(taken) # {}
               THEN [pending EXCEPT !.transactions = taken]
               ELSE [of |-> p, by |-> "rules", transactions |-> Fallback(sent[p])]
  IN  /\ request[r].at \in {"finished", "fallback"}
      /\ answers' = [q \in DOMAIN answers \cup {p} |->
                       IF q = p THEN reply ELSE answers[q]]
      /\ request' = [request EXCEPT ![r] = Idle]
      /\ UNCHANGED <<checkpoint, sent, ledger_entries, attempts, faults, barred>>

-----------------------------------------------------------------------------
(* POST /ledger/confirm.                                                   *)

\* What was shown is sent, as often as the client sees fit.
Confirm(r, p) ==
  /\ At(r, "idle") /\ attempts < MaxAttempts
  /\ attempts' = attempts + 1
  /\ request' = [request EXCEPT ![r] =
       [Idle EXCEPT !.at = "user", !.parse = p, !.attempt = attempts + 1]]
  /\ UNCHANGED <<checkpoint, sent, answers, ledger_entries, faults, barred>>

FindUser(r) ==
  /\ At(r, "user") /\ Goes(r, "commit")
  /\ UNCHANGED <<checkpoint, sent, answers, ledger_entries, attempts, faults, barred>>

\* Deliberately wrong variant: savings are not looked for.
RecognisedBar == {"recovery", "kisti", "wages", "borrow", "lend", "income"}

Recognised == {"recovery", "kisti", "savings", "wages", "borrow", "lend", "income"}

\* Deliberately wrong variant: whatever is sent is stored.
SavedTypeAsShown(shown) == shown

SavedType(shown) == IF shown \in Recognised THEN shown ELSE "expense"

Rows(p, attempt) ==
  {[of |-> p, attempt |-> attempt, line |-> i,
    entry_type |-> SavedType(Lower[answers[p].transactions[i].type]),
    amount |-> answers[p].transactions[i].amount_inr.value] :
     i \in Of(answers[p].transactions)}

Commit(r) ==
  /\ At(r, "commit")
  /\ ledger_entries' = ledger_entries \cup Rows(request[r].parse, request[r].attempt)
  /\ request' = [request EXCEPT ![r] = Idle]
  /\ UNCHANGED <<checkpoint, sent, answers, attempts, faults, barred>>

ConfirmFails(r) ==
  /\ request[r].at \in {"user", "commit"} /\ Fault
  /\ request' = [request EXCEPT ![r] = Idle]
  /\ UNCHANGED <<checkpoint, sent, answers, ledger_entries, attempts, barred>>

Restart ==
  /\ checkpoint' = Fresh /\ request' = [r \in Requests |-> Idle]
  /\ UNCHANGED <<sent, answers, ledger_entries, attempts, faults, barred>>

Steps(r) ==
  \/ LoadUserProfile(r) \/ InputGuard(r) \/ ClassifyIntent(r) \/ LedgerExtract(r)
  \/ OtherNode(r) \/ TimesOut(r) \/ Answer(r) \/ FindUser(r) \/ Commit(r)
  \/ ConfirmFails(r)

Next ==
  \/ \E r \in Requests :
       \/ \E t \in Texts : Parse(r, t)
       \/ \E p \in DOMAIN answers : Confirm(r, p)
       \/ Steps(r)
  \/ Restart

Spec == Init /\ [][Next]_vars

\* Nothing is assumed of the graph, of the model or of the database: only that
\* the clock runs, and that the event loop comes back to the handler.
FairSpec == Spec /\ \A r \in Requests : WF_vars(TimesOut(r)) /\ WF_vars(Answer(r))

-----------------------------------------------------------------------------
(* Properties.                                                             *)

Types == {Lower[k] : k \in Kinds}
RequestRecords == [at : Stages, parse : 0..MaxParses, attempt : 0..MaxAttempts,
                   state : States]

TypeOK ==
  /\ checkpoint \in States
  /\ request \in [Requests -> RequestRecords]
  /\ sent \in Seq(Texts) /\ Len(sent) <= MaxParses
  /\ DOMAIN answers \subseteq 1..Len(sent) /\ \A p \in DOMAIN answers : answers[p] \in Entry
  /\ ledger_entries \subseteq [of : Parses, attempt : Attempts, line : Lines,
                               entry_type : Types, amount : Rupees]
  /\ attempts \in 0..MaxAttempts /\ faults \in 0..MaxFaults /\ barred \subseteq Parses

\* A text that the keywords take for an entry, and the guard for no small talk,
\* is answered from itself, whatever other requests left in the thread: unless
\* the profile could not be read or a bargain holds the thread, when the pending
\* entry of an older text is the answer.
PlainEntry(t) == t.keyword = "LEDGER" /\ ~t.blocked
AnswersOwnText ==
  \A p \in DOMAIN answers :
    PlainEntry(sent[p]) /\ p \notin barred => answers[p].of = p

\* In an entry of one transaction, the only number of its text is the amount.
NumberStands(entry, texts) ==
  LET t == texts[entry.of]
  IN  OneNumber(t) /\ ~t.multiplier /\ Cardinality(Of(entry.transactions)) = 1
      => \A i \in Of(entry.transactions) :
           entry.transactions[i].amount_inr = Amounting(Largest(NumbersOf(t)))

\* The only number of a text is the amount of the only transaction the graph
\* reads in it, whether the model, the rules or an earlier entry gave the rest
\* (ledger_extraction_node).
OneNumberIsTheAmount ==
  LET entry == checkpoint.pending_ledger_entry
  IN  entry # NoEntry => NumberStands(entry, sent)

\* The numbers of a text and those its words stand for.
SaidIn(t) == NumbersOf(t) \cup ({t.clauses[i].word : i \in DOMAIN t.clauses} \ {0})
AmountsSaid(entry, texts) ==
  entry.by # "model" =>
    \/ \A i \in Of(entry.transactions) :
         entry.transactions[i].amount_inr.value \in SaidIn(texts[entry.of])
    \/ Priced(texts[entry.of]) = {}

\* An amount of an answer that the model did not give was said in the text the
\* answer is of, or that text has none (ledger_extraction_node).
AmountsWereSaid == \A p \in DOMAIN answers : AmountsSaid(answers[p], sent)

\* The books have what was shown and sent: each row is a line of an answer, as it
\* was shown, and an attempt wrote all of its lines or none.
SavedAsShown ==
  \A e \in ledger_entries :
    LET lines == answers[e.of].transactions
    IN  /\ e.of \in DOMAIN answers /\ e.line \in Of(lines)
        /\ lines[e.line].type # "UNKNOWN" => e.entry_type = Lower[lines[e.line].type]
        /\ Amounting(e.amount) = lines[e.line].amount_inr
        /\ Of(lines) = {f.line : f \in {g \in ledger_entries : g.attempt = e.attempt}}

\* A request for a reading is answered, though the model never is.
ReadingAnswered ==
  \A r \in Requests : request[r].at \in InGraph \cup {"finished", "fallback"} ~> At(r, "idle")

-----------------------------------------------------------------------------
(* The inductive invariant.                                                *)

Reading(r) == request[r].at \in InGraph \cup {"finished", "fallback"}
Confirming(r) == request[r].at \in {"user", "commit"}

\* A plain entry is on its way to be read, and never ends with another's.
ReadsOwn(q) ==
  /\ q.at \in {"load_user_profile", "input_guard"} =>
       ~q.state.engaged /\ ~q.state.is_new_user
  /\ q.at \notin {"negotiation", "other"}
  /\ q.at = "finished" => q.state.pending_ledger_entry = NoEntry
                            \/ q.state.pending_ledger_entry.of = q.parse

ReadingSound(r) ==
  Reading(r) =>
    /\ request[r].parse \in (1..Len(sent)) \ DOMAIN answers
    /\ PlainEntry(Text(r)) /\ request[r].parse \notin barred => ReadsOwn(request[r])

ConfirmingSound(r) ==
  Confirming(r) =>
    /\ request[r].parse \in DOMAIN answers /\ request[r].attempt \in 1..attempts
    /\ \A e \in ledger_entries : e.attempt # request[r].attempt

Apart(r, q) ==
  r # q =>
    /\ Reading(r) /\ Reading(q) => request[r].parse # request[q].parse
    /\ Confirming(r) /\ Confirming(q) => request[r].attempt # request[q].attempt

InNumbers(transactions) == \A i \in Of(transactions) : transactions[i].amount_inr.number

WebLedgerInv ==
  /\ TypeOK /\ AnswersOwnText /\ SavedAsShown
  /\ \A e \in ledger_entries : e.attempt <= attempts
  /\ \A p \in DOMAIN answers : InNumbers(answers[p].transactions)
  /\ \A r \in Requests : ReadingSound(r) /\ ConfirmingSound(r)
  /\ \A r, q \in Requests : Apart(r, q)

\* Any copy of the thread's state may come to be the checkpoint, and its pending
\* entry the answer to another text: so what is said of an entry is said of all of
\* them, and of the text each was read in, which later texts leave where it is.
PendingSound(entry, texts) ==
  entry # NoEntry =>
    /\ entry.of \in 1..Len(texts)
    /\ NumberStands(entry, texts) /\ AmountsSaid(entry, texts)

EntriesSound ==
  /\ PendingSound(checkpoint.pending_ledger_entry, sent)
  /\ \A r \in Requests : PendingSound(request[r].state.pending_ledger_entry, sent)
  /\ \A p \in DOMAIN answers :
       answers[p].of \in 1..Len(sent) /\ AmountsSaid(answers[p], sent)
=============================================================================
