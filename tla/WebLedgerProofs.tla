--------------------------- MODULE WebLedgerProofs ---------------------------
(* What is read and saved by way of the web, for any number of requests,     *)
(* texts and answers of the model.                                           *)
EXTENDS WebLedger, FiniteSetTheorems, WellFoundedInduction, TLAPS

USE DEF Lines, Parses, Attempts

-----------------------------------------------------------------------------
(* The operators keep to their types.                                      *)

\* The largest of some numbers is one of them.
LEMMA LargestIsOne ==
  ASSUME NEW S \in SUBSET Rupees, S # {}
  PROVE  Largest(S) \in S
<1> DEFINE T == {MaxRupees - n : n \in S}
<1>0. MaxRupees \in Nat  BY WebLedgerAssumption
<1>a. \A n \in S : n \in Nat /\ n <= MaxRupees  BY <1>0 DEF Rupees
<1>b. T \subseteq Nat  BY <1>0, <1>a
<1>1. T \subseteq Nat /\ T # {}  BY <1>b
<1>2. PICK x \in T : \A y \in T : ~(<<y, x>> \in OpToRel(<, Nat))
  <2>. HIDE DEF T
  <2>. QED  BY <1>1, NatLessThanWellFounded, WFMin
<1>3. PICK n \in S : x = MaxRupees - n  OBVIOUS
<1>4. ASSUME NEW m \in S  PROVE m <= n
  <2>1. MaxRupees - m \in T  OBVIOUS
  <2>2. ~(<<MaxRupees - m, x>> \in OpToRel(<, Nat))  BY <1>2, <2>1
  <2>3. MaxRupees - m \in Nat /\ x \in Nat  BY <1>1, <2>1
  <2>4. ~(MaxRupees - m < x)  BY <2>2, <2>3 DEF OpToRel
  <2>. QED  BY <2>4, <1>3, <1>0 DEF Rupees
<1>. QED  BY <1>4 DEF Largest

LEMMA TextTyped ==
  ASSUME NEW t \in Texts
  PROVE  /\ IsText(t) /\ \A i \in DOMAIN t.clauses : i \in Lines /\ t.clauses[i] \in Clauses
         /\ NumbersOf(t) \subseteq Rupees
<1>1. IsText(t)  BY WebLedgerAssumption
<1>2. PICK n \in 1..MaxLines : t.clauses \in [1..n -> Clauses]  BY <1>1 DEF IsText
<1>3. \A i \in DOMAIN t.clauses : i \in Lines /\ t.clauses[i] \in Clauses
  BY <1>2, WebLedgerAssumption
<1>4. \A i \in DOMAIN t.clauses : NumbersIn(t.clauses[i]) \subseteq Rupees
  BY <1>3 DEF Clauses, NumbersIn
<1>. QED  BY <1>1, <1>3, <1>4 DEF NumbersOf

LEMMA AmountTyped ==
  ASSUME NEW c \in Clauses
  PROVE  Amount(c) \in Rupees
<1>1. CASE c.numbers = <<>>  BY <1>1 DEF Amount, Clauses
<1>2. CASE c.numbers # <<>>
  <2>1. c.numbers \in Seq(Rupees)  BY DEF Clauses
  <2>2. NumbersIn(c) \subseteq Rupees  BY <2>1 DEF NumbersIn
  <2>3. Len(c.numbers) \in Nat /\ Len(c.numbers) # 0  BY <2>1, <1>2
  <2>a. 1 \in 1..Len(c.numbers)  BY <2>3
  <2>4. NumbersIn(c) # {}  BY <2>a DEF NumbersIn
  <2>. QED  BY <1>2, <2>2, <2>4, LargestIsOne DEF Amount
<1>. QED  BY <1>1, <1>2

LEMMA KindTyped ==
  ASSUME NEW c \in Clauses
  PROVE  KindOf(c) \in Kinds
<1>1. CASE c.kinds = {}  BY <1>1 DEF KindOf, Kinds
<1>2. CASE c.kinds # {}
  <2> DEFINE T == {k \in 1..8 : KindOrder[k] \in c.kinds}
  <2>1. Len(KindOrder) = 8 /\ \A k \in 1..8 : KindOrder[k] \in Kinds
    BY DEF KindOrder, Kinds
  <2>2. c.kinds \subseteq Kinds  BY DEF Clauses
  <2>3. \A kind \in Kinds : \E k \in 1..8 : KindOrder[k] = kind
    <3>1. /\ KindOrder[1] = "RECOVERY" /\ KindOrder[2] = "KISTI" /\ KindOrder[3] = "SAVINGS"
          /\ KindOrder[4] = "WAGES" /\ KindOrder[5] = "BORROW" /\ KindOrder[6] = "LEND"
          /\ KindOrder[7] = "INCOME" /\ KindOrder[8] = "EXPENSE"
      BY DEF KindOrder
    <3>. QED  BY <3>1 DEF Kinds
  <2>4. T \subseteq Nat /\ T # {}  BY <1>2, <2>2, <2>3
  <2>5. PICK x \in T : \A y \in T : ~(<<y, x>> \in OpToRel(<, Nat))
    <3>. HIDE DEF T
    <3>. QED  BY <2>4, NatLessThanWellFounded, WFMin
  <2>6. \A j \in 1..(x - 1) : KindOrder[j] \notin c.kinds
    <3>1. SUFFICES ASSUME NEW j \in 1..(x - 1), KindOrder[j] \in c.kinds  PROVE FALSE
      OBVIOUS
    <3>2. j \in T /\ j < x /\ j \in Nat /\ x \in Nat  BY <3>1
    <3>3. <<j, x>> \in OpToRel(<, Nat)  BY <3>2 DEF OpToRel
    <3>. QED  BY <3>2, <3>3, <2>5
  <2>7. \E k \in 1..Len(KindOrder) : KindOrder[k] \in c.kinds
          /\ \A j \in 1..(k - 1) : KindOrder[j] \notin c.kinds
    BY <2>1, <2>6
  <2>. QED  BY <1>2, <2>1, <2>7 DEF KindOf
<1>. QED  BY <1>1, <1>2

LEMMA FallbackTyped ==
  ASSUME NEW t \in Texts
  PROVE  Fallback(t) \in Transactions /\ InNumbers(Fallback(t)) /\ Of(Fallback(t)) # {}
<1>0. 1 \in Lines /\ 100 \in Rupees /\ NoLine \notin Transaction
  BY WebLedgerAssumption DEF Rupees
<1>1. CASE Priced(t) = {}
  <2>1. [type |-> "INCOME", amount_inr |-> Amounting(100)] \in Transaction
    BY <1>0 DEF Transaction, Amounts, Amounting, Kinds
  <2>2. Fallback(t) = Invented  BY <1>1 DEF Fallback
  <2>3. Invented = [i \in Lines |-> IF i = 1
                      THEN [type |-> "INCOME", amount_inr |-> Amounting(100)] ELSE NoLine]
    BY <1>0 DEF Invented, Nothing
  <2>4. Invented \in Transactions  BY <2>1, <2>3 DEF Transactions
  <2>5. 1 \in Of(Invented)  BY <2>1, <2>3, <1>0 DEF Of
  <2>6. ASSUME NEW i \in Of(Invented)  PROVE Invented[i].amount_inr.number
    <3>1. i = 1  BY <2>3 DEF Of
    <3>2. Invented[1] = [type |-> "INCOME", amount_inr |-> Amounting(100)]
      BY <2>3, <1>0
    <3>. QED  BY <3>1, <3>2 DEF Amounting
  <2>. QED  BY <2>2, <2>4, <2>5, <2>6 DEF InNumbers
<1>2. CASE Priced(t) # {}
  <2>1. Priced(t) \subseteq Lines  BY TextTyped DEF Priced
  <2>2. ASSUME NEW i \in Priced(t)
        PROVE  Single(t.clauses[i]) \in Transaction /\ Single(t.clauses[i]).amount_inr.number
    <3>1. t.clauses[i] \in Clauses  BY TextTyped DEF Priced
    <3>. QED  BY <3>1, AmountTyped, KindTyped DEF Single, Transaction, Amounts, Amounting
  <2>3. Fallback(t) = [i \in Lines |-> IF i \in Priced(t) THEN Single(t.clauses[i])
                                                          ELSE NoLine]
    BY <1>2 DEF Fallback
  <2>4. Fallback(t) \in Transactions  BY <2>1, <2>2, <2>3 DEF Transactions
  <2>5. \A i \in Lines : Fallback(t)[i] # NoLine <=> i \in Priced(t)
    BY <2>2, <2>3, <1>0
  <2>6. Of(Fallback(t)) = Priced(t)  BY <2>1, <2>5 DEF Of
  <2>7. InNumbers(Fallback(t))  BY <2>2, <2>3, <2>6, <2>1 DEF InNumbers
  <2>. QED  BY <2>4, <2>6, <2>7, <1>2
<1>. QED  BY <1>1, <1>2

LEMMA TruncatedTyped ==
  ASSUME NEW lines \in Transactions
  PROVE  Truncated(lines) \in Transactions
BY DEF Truncated, Transactions

LEMMA AmendedTyped ==
  ASSUME NEW t \in Texts, NEW lines \in Transactions
  PROVE  Amended(t, lines) \in Transactions
<1>1. CASE ~OneNumber(t)  BY <1>1 DEF Amended
<1>2. CASE OneNumber(t)
  <2>1. PICK i \in DOMAIN t.clauses : Len(t.clauses[i].numbers) = 1
    BY <1>2 DEF OneNumber
  <2>2. NumbersIn(t.clauses[i]) # {}  BY <2>1 DEF NumbersIn
  <2>3. NumbersOf(t) # {}  BY <2>2 DEF NumbersOf
  <2>4. Amounting(Largest(NumbersOf(t))) \in Amounts
    BY <2>3, TextTyped, LargestIsOne DEF Amounting, Amounts
  <2>5. \A j \in Of(lines) : lines[j] \in Transaction  BY DEF Of, Transactions
  <2>6. \A j \in Of(lines) :
          [lines[j] EXCEPT !.amount_inr = Amounting(Largest(NumbersOf(t)))] \in Transaction
    BY <2>4, <2>5 DEF Transaction
  <2>. QED  BY <2>6 DEF Amended, Transactions
<1>. QED  BY <1>1, <1>2

\* The first line is one.
LEMMA FirstTyped ==
  ASSUME NEW lines \in Transactions, Of(lines) # {}
  PROVE  First(lines) \in Transaction
<1>1. Of(lines) \subseteq Nat  BY DEF Of
<1>2. PICK x \in Of(lines) : \A y \in Of(lines) : ~(<<y, x>> \in OpToRel(<, Nat))
  BY <1>1, NatLessThanWellFounded, WFMin
<1>3. ASSUME NEW y \in Of(lines)  PROVE x <= y
  <2>1. ~(<<y, x>> \in OpToRel(<, Nat))  BY <1>2
  <2>2. x \in Nat /\ y \in Nat  BY <1>1
  <2>3. ~(y < x)  BY <2>1, <2>2 DEF OpToRel
  <2>. QED  BY <2>2, <2>3
<1>4. \E i \in Of(lines) : \A j \in Of(lines) : i <= j  BY <1>3
<1>. QED  BY <1>4 DEF First, Of, Transactions

LEMMA ContinuedTyped ==
  ASSUME NEW t \in Texts, NEW s \in States, Continues(t, s)
  PROVE  Continued(t, s) \in Transactions
<1>1. s.last_discussed.transactions \in Transactions  BY DEF States, Entry
<1>2. First(s.last_discussed.transactions) \in Transaction
  BY <1>1, FirstTyped DEF Continues
<1>3. Amounting(Largest(NumbersOf(t))) \in Amounts
  BY TextTyped, LargestIsOne DEF Continues, Amounting, Amounts
<1>4. [First(s.last_discussed.transactions)
         EXCEPT !.amount_inr = Amounting(Largest(NumbersOf(t)))] \in Transaction
  BY <1>2, <1>3 DEF Transaction
<1>. QED  BY <1>4 DEF Continued, Nothing, Transactions

\* The lines that can be converted are lines, of the same amounts.
LEMMA ConvertibleTyped ==
  ASSUME NEW lines \in Transactions
  PROVE  /\ Convertible(lines) \in Transactions /\ InNumbers(Convertible(lines))
         /\ \A i \in Of(Convertible(lines)) :
              /\ i \in Of(lines)
              /\ Convertible(lines)[i].amount_inr = Amounting(lines[i].amount_inr.value)
<1>1. ASSUME NEW i \in Of(lines), lines[i].amount_inr.floats
      PROVE  /\ [lines[i] EXCEPT !.amount_inr = Amounting(@.value)] \in Transaction
             /\ [lines[i] EXCEPT !.amount_inr = Amounting(@.value)].amount_inr
                  = Amounting(lines[i].amount_inr.value)
  <2>1. lines[i] \in Transaction  BY DEF Of, Transactions
  <2>2. lines[i].amount_inr \in Amounts  BY <2>1 DEF Transaction
  <2>3. Amounting(lines[i].amount_inr.value) \in Amounts
    BY <1>1, <2>2 DEF Amounts, Amounting
  <2>. QED  BY <2>1, <2>3 DEF Transaction
<1>2. ASSUME NEW i \in Lines
      PROVE  /\ Convertible(lines)[i] \in Transaction \cup {NoLine}
             /\ i \in Of(Convertible(lines)) =>
                  /\ i \in Of(lines)
                  /\ Convertible(lines)[i].amount_inr
                       = Amounting(lines[i].amount_inr.value)
  <2>1. CASE i \in Of(lines)
               /\ \A j \in Of(lines) : j <= i => lines[j].amount_inr.floats
    <3>1. i \in Nat /\ i <= i  BY DEF Lines
    <3>2. lines[i].amount_inr.floats  BY <2>1, <3>1
    <3>3. Convertible(lines)[i] = [lines[i] EXCEPT !.amount_inr = Amounting(@.value)]
      BY <2>1 DEF Convertible
    <3>. QED  BY <2>1, <3>2, <3>3, <1>1
  <2>2. CASE ~(i \in Of(lines)
                 /\ \A j \in Of(lines) : j <= i => lines[j].amount_inr.floats)
    <3>1. Convertible(lines)[i] = NoLine  BY <2>2 DEF Convertible
    <3>. QED  BY <3>1 DEF Of
  <2>. QED  BY <2>1, <2>2
<1>3. Convertible(lines) \in Transactions
  BY <1>2 DEF Convertible, Transactions
<1>4. ASSUME NEW i \in Of(Convertible(lines))
      PROVE  /\ i \in Of(lines)
             /\ Convertible(lines)[i].amount_inr = Amounting(lines[i].amount_inr.value)
  <2>1. i \in Lines  BY DEF Of
  <2>. QED  BY <1>2, <2>1
<1>5. ASSUME NEW i \in Of(Convertible(lines))
      PROVE  Convertible(lines)[i].amount_inr.number
  <2>1. Convertible(lines)[i].amount_inr
          = [number |-> TRUE, floats |-> TRUE, value |-> lines[i].amount_inr.value]
    BY <1>4 DEF Amounting
  <2>. QED  BY <2>1
<1>6. InNumbers(Convertible(lines))  BY <1>5 DEF InNumbers
<1>. QED  BY <1>3, <1>4, <1>6

-----------------------------------------------------------------------------
(* The invariant, step by step.                                            *)

ReadingStages == InGraph \cup {"finished", "fallback"}

LEMMA InitInv == Init => WebLedgerInv
<1>. SUFFICES ASSUME Init  PROVE WebLedgerInv  OBVIOUS
<1>1. NoEntry \in Entry /\ Fresh \in States
  <2>1. Nothing \in Transactions  BY DEF Nothing, Transactions
  <2>2. NoEntry \in Entry  BY <2>1, WebLedgerAssumption DEF NoEntry, Entry, Readers
  <2>. QED  BY <2>2 DEF Fresh, States
<1>2. Idle \in RequestRecords
  BY <1>1, WebLedgerAssumption DEF Idle, RequestRecords, Stages
<1>3. TypeOK
  BY <1>1, <1>2, WebLedgerAssumption DEF Init, TypeOK
<1>4. \A r \in Requests : ~Reading(r) /\ ~Confirming(r)
  BY DEF Init, Reading, Confirming, Idle, InGraph
<1>. QED
  BY <1>3, <1>4 DEF Init, WebLedgerInv, AnswersOwnText, SavedAsShown, ReadingSound,
     ConfirmingSound, Apart

\* One handler's request goes on, and the rest of the state stays as it is.
LEMMA OneGoesOn ==
  ASSUME WebLedgerInv, NEW r \in Requests,
         request' = [request EXCEPT ![r] = request'[r]],
         request'[r] \in RequestRecords, checkpoint' \in States,
         UNCHANGED <<sent, answers, ledger_entries>>,
         faults' \in 0..MaxFaults, barred' \subseteq Parses, barred \subseteq barred',
         attempts' \in 0..MaxAttempts, attempts <= attempts',
         ReadingSound(r)', ConfirmingSound(r)',
         \A q \in Requests : q # r => Apart(r, q)'
  PROVE  WebLedgerInv'
<1>1. TypeOK'
  <2>1. request' \in [Requests -> RequestRecords]  BY DEF WebLedgerInv, TypeOK
  <2>. QED  BY <2>1 DEF WebLedgerInv, TypeOK
<1>2. AnswersOwnText'  BY DEF WebLedgerInv, AnswersOwnText
<1>3. SavedAsShown'  BY DEF WebLedgerInv, SavedAsShown
<1>4. (\A e \in ledger_entries : e.attempt <= attempts)'
  <2>1. \A e \in ledger_entries : e.attempt \in Nat /\ e.attempt <= attempts
    BY DEF WebLedgerInv, TypeOK
  <2>2. attempts \in Nat /\ attempts' \in Nat  BY DEF WebLedgerInv, TypeOK
  <2>. QED  BY <2>1, <2>2
<1>5. (\A p \in DOMAIN answers : InNumbers(answers[p].transactions))'
  BY DEF WebLedgerInv, InNumbers, Of
<1>6. \A q \in Requests : q # r => request'[q] = request[q]
  BY DEF WebLedgerInv, TypeOK
<1>7. ASSUME NEW q \in Requests, q # r  PROVE ReadingSound(q)' /\ ConfirmingSound(q)'
  <2>1. request'[q] = request[q] /\ ReadingSound(q) /\ ConfirmingSound(q)
    BY <1>6, <1>7 DEF WebLedgerInv
  <2>2. ReadingSound(q)'
    BY <2>1 DEF ReadingSound, Reading, Text, ReadsOwn
  <2>3. ConfirmingSound(q)'
    <3>1. SUFFICES ASSUME Confirming(q)
                   PROVE  /\ request[q].parse \in DOMAIN answers
                          /\ request[q].attempt \in 1..attempts'
                          /\ \A e \in ledger_entries : e.attempt # request[q].attempt
      BY <2>1 DEF ConfirmingSound, Confirming
    <3>2. request[q].attempt \in 1..attempts  BY <2>1, <3>1 DEF ConfirmingSound
    <3>3. attempts \in Nat /\ attempts' \in Nat  BY DEF WebLedgerInv, TypeOK
    <3>. QED  BY <2>1, <3>1, <3>2, <3>3 DEF ConfirmingSound
  <2>. QED  BY <2>2, <2>3
<1>8. ASSUME NEW p \in Requests, NEW q \in Requests  PROVE Apart(p, q)'
  <2>1. CASE p # r /\ q # r
    BY <2>1, <1>6 DEF WebLedgerInv, Apart, Reading, Confirming
  <2>2. CASE p = r /\ q # r  BY <2>2
  <2>3. CASE p # r /\ q = r
    <3>1. Apart(r, p)'  BY <2>3
    <3>. QED  BY <3>1, <2>3 DEF Apart
  <2>4. CASE p = r /\ q = r  BY <2>4 DEF Apart
  <2>. QED  BY <2>1, <2>2, <2>3, <2>4
<1>. QED  BY <1>1, <1>2, <1>3, <1>4, <1>5, <1>7, <1>8 DEF WebLedgerInv

\* A request for a reading goes from a node to the next.
LEMMA ReadingGoesOn ==
  ASSUME WebLedgerInv, NEW r \in Requests, Reading(r),
         request' = [request EXCEPT ![r] = request'[r]],
         request'[r] \in RequestRecords, checkpoint' \in States,
         request'[r].at \in ReadingStages, request'[r].parse = request[r].parse,
         UNCHANGED <<sent, answers, ledger_entries, attempts>>,
         faults' \in 0..MaxFaults, barred' \subseteq Parses, barred \subseteq barred',
         PlainEntry(Text(r)) /\ request[r].parse \notin barred' => ReadsOwn(request'[r])
  PROVE  WebLedgerInv'
<1>1. ReadingSound(r)'
  <2>1. ReadingSound(r)  BY DEF WebLedgerInv
  <2>. QED  BY <2>1 DEF ReadingSound, Text
<1>2. ~Confirming(r)' /\ ConfirmingSound(r)'
  BY DEF Confirming, ConfirmingSound, ReadingStages, InGraph
<1>3. ASSUME NEW q \in Requests, q # r  PROVE Apart(r, q)'
  <2>1. request'[q] = request[q] /\ Apart(r, q)
    BY <1>3 DEF WebLedgerInv, TypeOK
  <2>. QED  BY <2>1, <1>2 DEF Apart, Reading, Confirming
<1>4. attempts' \in 0..MaxAttempts /\ attempts <= attempts'  BY DEF WebLedgerInv, TypeOK
<1>. QED  BY <1>1, <1>2, <1>3, <1>4, OneGoesOn

\* What a node makes of the request and of the thread, field by field.
LEMMA Proceeds ==
  ASSUME TypeOK, NEW r \in Requests, NEW stage \in ReadingStages, NEW s \in States,
         Proceed(r, stage, s)
  PROVE  /\ request' = [request EXCEPT ![r] = request'[r]]
         /\ request'[r] \in RequestRecords /\ checkpoint' \in States
         /\ request'[r].at = stage /\ request'[r].state = s
         /\ request'[r].parse = request[r].parse
<1>1. request[r] \in RequestRecords /\ request \in [Requests -> RequestRecords]
  BY DEF TypeOK
<1>2. request'[r] = [at |-> stage, parse |-> request[r].parse,
                     attempt |-> request[r].attempt, state |-> s]
  BY <1>1 DEF Proceed, RequestRecords
<1>3. request' = [request EXCEPT ![r] = request'[r]]  BY <1>1 DEF Proceed
<1>4. stage \in Stages  BY DEF ReadingStages, Stages
<1>. QED  BY <1>1, <1>2, <1>3, <1>4 DEF Proceed, RequestRecords

LEMMA GoesTo ==
  ASSUME TypeOK, NEW r \in Requests, NEW stage \in Stages, Goes(r, stage)
  PROVE  /\ request' = [request EXCEPT ![r] = request'[r]]
         /\ request'[r] \in RequestRecords
         /\ request'[r].at = stage /\ request'[r].state = request[r].state
         /\ request'[r].parse = request[r].parse
         /\ request'[r].attempt = request[r].attempt
<1>1. request[r] \in RequestRecords /\ request \in [Requests -> RequestRecords]
  BY DEF TypeOK
<1>2. request'[r] = [at |-> stage, parse |-> request[r].parse,
                     attempt |-> request[r].attempt, state |-> request[r].state]
  BY <1>1 DEF Goes, RequestRecords
<1>3. request' = [request EXCEPT ![r] = request'[r]]  BY <1>1 DEF Goes
<1>. QED  BY <1>1, <1>2, <1>3 DEF RequestRecords

LEMMA StageTypes ==
  /\ {"input_guard", "finished", "fallback", "negotiation", "classify_intent", "ledger",
      "other"} \subseteq ReadingStages
  /\ ReadingStages \subseteq Stages /\ {"idle", "user", "commit"} \subseteq Stages
BY DEF ReadingStages, Stages, InGraph

\* What is known of a request on its way to be read.
LEMMA OnItsWay ==
  ASSUME WebLedgerInv, NEW r \in Requests, Reading(r)
  PROVE  /\ request[r].state \in States /\ Text(r) \in Texts
         /\ request[r].parse \in (1..Len(sent)) \ DOMAIN answers
         /\ request[r].parse \in Parses
         /\ PlainEntry(Text(r)) /\ request[r].parse \notin barred => ReadsOwn(request[r])
<1>1. ReadingSound(r)  BY DEF WebLedgerInv
<1>2. request[r] \in RequestRecords /\ sent \in Seq(Texts) /\ Len(sent) \in Nat
        /\ Len(sent) <= MaxParses
  BY DEF WebLedgerInv, TypeOK
<1>. QED  BY <1>1, <1>2, WebLedgerAssumption DEF ReadingSound, Text, RequestRecords

LEMMA ParseInv ==
  ASSUME WebLedgerInv, NEW r \in Requests, NEW t \in Texts, Parse(r, t)
  PROVE  WebLedgerInv'
<1> DEFINE p == Len(sent) + 1
<1> DEFINE s == [checkpoint EXCEPT !.is_new_user = FALSE]
<1>1. /\ TypeOK /\ request \in [Requests -> RequestRecords] /\ checkpoint \in States
      /\ sent \in Seq(Texts) /\ Len(sent) \in Nat /\ Len(sent) < MaxParses
      /\ MaxParses \in Nat /\ MaxAttempts \in Nat
  BY WebLedgerAssumption DEF WebLedgerInv, TypeOK, Parse
<1>2. s \in States  BY <1>1 DEF States
<1>3. p \in Parses /\ p \notin 1..Len(sent)  BY <1>1
<1>4. /\ sent' = Append(sent, t) /\ sent' \in Seq(Texts) /\ Len(sent') = p
      /\ sent'[p] = t /\ \A k \in 1..Len(sent) : sent'[k] = sent[k]
  BY <1>1 DEF Parse
<1>5. request'[r] = [at |-> "load_user_profile", parse |-> p, attempt |-> 0, state |-> s]
  BY <1>1 DEF Parse, Idle
<1>6. request'[r] \in RequestRecords
  BY <1>1, <1>2, <1>3, <1>5 DEF RequestRecords, Stages, InGraph
<1>7. \A q \in Requests : q # r => request'[q] = request[q]  BY <1>1 DEF Parse
<1>8. UNCHANGED <<answers, ledger_entries, attempts, faults>>  BY DEF Parse
<1>9. \A q \in DOMAIN answers : q \in 1..Len(sent)  BY DEF WebLedgerInv, TypeOK
<1>10. \A k \in 1..Len(sent) : k \in barred' <=> k \in barred  BY <1>3 DEF Parse
<1>11. TypeOK'
  <2>1. request' \in [Requests -> RequestRecords]  BY <1>1, <1>6 DEF Parse
  <2>2. checkpoint' \in States  BY <1>2 DEF Parse
  <2>3. barred' \subseteq Parses  BY <1>3 DEF Parse, WebLedgerInv, TypeOK
  <2>4. Len(sent') <= MaxParses /\ 1..Len(sent) \subseteq 1..Len(sent')  BY <1>1, <1>4
  <2>. QED  BY <2>1, <2>2, <2>3, <2>4, <1>4, <1>8 DEF WebLedgerInv, TypeOK
<1>12. AnswersOwnText'
  BY <1>4, <1>8, <1>9, <1>10 DEF WebLedgerInv, AnswersOwnText, PlainEntry
<1>13. SavedAsShown'  BY <1>8 DEF WebLedgerInv, SavedAsShown
<1>14. ReadingSound(r)'
  <2>1. request'[r].parse = p /\ p \in (1..Len(sent')) \ DOMAIN answers'
    BY <1>1, <1>3, <1>4, <1>5, <1>8, <1>9
  <2>2. p \notin barred' => ~s.engaged  BY <1>1 DEF Parse, States
  <2>3. s.is_new_user = FALSE  BY <1>1 DEF States
  <2>3a. request'[r].at = "load_user_profile" /\ request'[r].state = s  BY <1>5
  <2>4. p \notin barred' => ReadsOwn(request'[r])
    <3>. HIDE DEF s
    <3>1. request'[r].at \notin {"negotiation", "other", "finished"}  BY <2>3a
    <3>. QED  BY <2>3a, <2>2, <2>3, <3>1 DEF ReadsOwn
  <2>. QED  BY <2>1, <2>4 DEF ReadingSound
<1>15. ~Confirming(r)' /\ ConfirmingSound(r)'  BY <1>5 DEF Confirming, ConfirmingSound
<1>16. ASSUME NEW q \in Requests, q # r  PROVE ReadingSound(q)' /\ ConfirmingSound(q)'
  <2>1. request'[q] = request[q] /\ ReadingSound(q) /\ ConfirmingSound(q)
    BY <1>7, <1>16 DEF WebLedgerInv
  <2>2. ReadingSound(q)'
    <3>1. SUFFICES ASSUME Reading(q)
                   PROVE  /\ request[q].parse \in (1..Len(sent')) \ DOMAIN answers
                          /\ PlainEntry(sent'[request[q].parse])
                               /\ request[q].parse \notin barred' => ReadsOwn(request[q])
      BY <2>1, <1>8 DEF ReadingSound, Reading, Text
    <3>2. /\ request[q].parse \in 1..Len(sent) /\ request[q].parse \notin DOMAIN answers
          /\ PlainEntry(Text(q)) /\ request[q].parse \notin barred => ReadsOwn(request[q])
      BY <2>1, <3>1 DEF ReadingSound
    <3>. QED  BY <3>2, <1>1, <1>4, <1>10 DEF Text
  <2>3. ConfirmingSound(q)'  BY <2>1, <1>8 DEF ConfirmingSound, Confirming
  <2>. QED  BY <2>2, <2>3
<1>17. ASSUME NEW q \in Requests, q # r  PROVE Apart(r, q)' /\ Apart(q, r)'
  <2>1. request'[q] = request[q] /\ ReadingSound(q)  BY <1>7, <1>17 DEF WebLedgerInv
  <2>2. Reading(q)' => request'[q].parse # p
    BY <2>1, <1>3 DEF ReadingSound, Reading
  <2>. QED  BY <2>2, <1>5, <1>15 DEF Apart
<1>18. ASSUME NEW q1 \in Requests, NEW q2 \in Requests  PROVE Apart(q1, q2)'
  <2>1. CASE q1 # r /\ q2 # r
    BY <2>1, <1>7 DEF WebLedgerInv, Apart, Reading, Confirming
  <2>2. CASE q1 = q2  BY <2>2 DEF Apart
  <2>. QED  BY <2>1, <2>2, <1>17
<1>19. (\A e \in ledger_entries : e.attempt <= attempts)'  BY <1>8 DEF WebLedgerInv
<1>20. (\A q \in DOMAIN answers : InNumbers(answers[q].transactions))'
  BY <1>8 DEF WebLedgerInv, InNumbers, Of
<1>. QED
  BY <1>11, <1>12, <1>13, <1>14, <1>15, <1>16, <1>18, <1>19, <1>20 DEF WebLedgerInv

LEMMA LoadUserProfileInv ==
  ASSUME WebLedgerInv, NEW r \in Requests, LoadUserProfile(r)
  PROVE  WebLedgerInv'
<1>0. At(r, "load_user_profile") /\ Reading(r) /\ TypeOK
  BY DEF LoadUserProfile, At, Reading, InGraph, WebLedgerInv
<1> DEFINE s == request[r].state
<1>1. s \in States /\ request[r].parse \in Parses
        /\ (PlainEntry(Text(r)) /\ request[r].parse \notin barred => ReadsOwn(request[r]))
  BY <1>0, OnItsWay
<1>2. UNCHANGED <<sent, answers, ledger_entries, attempts>>  BY DEF LoadUserProfile
<1>3. CASE Proceed(r, "input_guard", s) /\ UNCHANGED <<faults, barred>>
  <2>1. /\ request' = [request EXCEPT ![r] = request'[r]]
        /\ request'[r] \in RequestRecords /\ checkpoint' \in States
        /\ request'[r].at = "input_guard" /\ request'[r].state = s
        /\ request'[r].parse = request[r].parse
    BY <1>0, <1>1, <1>3, StageTypes, Proceeds
  <2>2. PlainEntry(Text(r)) /\ request[r].parse \notin barred' => ReadsOwn(request'[r])
    BY <2>1, <1>0, <1>1, <1>3 DEF ReadsOwn, At
  <2>3. faults' \in 0..MaxFaults /\ barred' \subseteq Parses /\ barred \subseteq barred'
    BY <1>0, <1>3 DEF TypeOK
  <2>4. request'[r].at \in ReadingStages  BY <2>1, StageTypes
  <2>. QED  BY <2>1, <2>2, <2>3, <2>4, <1>0, <1>2, ReadingGoesOn
<1>4. CASE /\ Proceed(r, "input_guard", [s EXCEPT !.is_new_user = TRUE])
           /\ Fault /\ barred' = barred \cup {request[r].parse}
  <2>0. [s EXCEPT !.is_new_user = TRUE] \in States  BY <1>1 DEF States
  <2>1. /\ request' = [request EXCEPT ![r] = request'[r]]
        /\ request'[r] \in RequestRecords /\ checkpoint' \in States
        /\ request'[r].at = "input_guard" /\ request'[r].parse = request[r].parse
    BY <2>0, <1>0, <1>4, StageTypes, Proceeds
  <2>3. faults' \in 0..MaxFaults /\ barred' \subseteq Parses /\ barred \subseteq barred'
    BY <1>0, <1>1, <1>4, WebLedgerAssumption DEF TypeOK, Fault
  <2>4. request'[r].at \in ReadingStages  BY <2>1, StageTypes
  <2>. QED  BY <2>1, <2>3, <2>4, <1>0, <1>2, <1>4, ReadingGoesOn
<1>. QED  BY <1>3, <1>4 DEF LoadUserProfile

\* The nodes that read the text and leave the counters alone.
LEMMA NodeInv ==
  ASSUME WebLedgerInv, NEW r \in Requests, Reading(r),
         NEW stage \in ReadingStages, NEW s \in States, Proceed(r, stage, s),
         UNCHANGED <<sent, answers, ledger_entries, attempts, faults, barred>>,
         PlainEntry(Text(r)) /\ request[r].parse \notin barred =>
           /\ stage \notin {"load_user_profile", "input_guard", "negotiation", "other"}
           /\ stage = "finished" => \/ s.pending_ledger_entry = NoEntry
                                    \/ s.pending_ledger_entry.of = request[r].parse
  PROVE  WebLedgerInv'
<1>1. /\ request' = [request EXCEPT ![r] = request'[r]]
      /\ request'[r] \in RequestRecords /\ checkpoint' \in States
      /\ request'[r].at = stage /\ request'[r].state = s
      /\ request'[r].parse = request[r].parse
  BY Proceeds DEF WebLedgerInv
<1>2. PlainEntry(Text(r)) /\ request[r].parse \notin barred' => ReadsOwn(request'[r])
  BY <1>1 DEF ReadsOwn
<1>3. faults' \in 0..MaxFaults /\ barred' \subseteq Parses /\ barred \subseteq barred'
  BY DEF WebLedgerInv, TypeOK
<1>. QED  BY <1>1, <1>2, <1>3, ReadingGoesOn

LEMMA InputGuardInv ==
  ASSUME WebLedgerInv, NEW r \in Requests, InputGuard(r)
  PROVE  WebLedgerInv'
<1>0. At(r, "input_guard") /\ Reading(r)
  BY DEF InputGuard, At, Reading, InGraph
<1> DEFINE stage == IF Text(r).blocked THEN "finished" ELSE Route(Text(r), request[r].state)
<1>1. /\ request[r].state \in States
      /\ PlainEntry(Text(r)) /\ request[r].parse \notin barred => ReadsOwn(request[r])
  BY <1>0, OnItsWay
<1>2. stage \in {"finished", "negotiation", "classify_intent"}  BY <1>1 DEF Route, States
<1>3. PlainEntry(Text(r)) /\ request[r].parse \notin barred => stage = "classify_intent"
  BY <1>0, <1>1 DEF PlainEntry, ReadsOwn, At, Route, States
<1>4. stage \in ReadingStages  BY <1>2, StageTypes
<1>. QED  BY <1>0, <1>1, <1>3, <1>4, NodeInv DEF InputGuard

LEMMA ClassifyIntentInv ==
  ASSUME WebLedgerInv, NEW r \in Requests, ClassifyIntent(r)
  PROVE  WebLedgerInv'
<1>0. At(r, "classify_intent") /\ Reading(r)
  BY DEF ClassifyIntent, At, Reading, InGraph
<1>1. request[r].state \in States  BY <1>0, OnItsWay
<1>2. PICK f \in Classes(Text(r), request[r].state) :
        Proceed(r, NodeOf(f), request[r].state)
  BY DEF ClassifyIntent
<1>3. NodeOf(f) \in {"ledger", "negotiation", "other"}  BY DEF NodeOf
<1>4. PlainEntry(Text(r)) => NodeOf(f) = "ledger"
  BY <1>2 DEF PlainEntry, Classes, NodeOf
<1>5. NodeOf(f) \in ReadingStages  BY <1>3, StageTypes
<1>. QED  BY <1>0, <1>1, <1>2, <1>3, <1>4, <1>5, NodeInv DEF ClassifyIntent

LEMMA OtherNodeInv ==
  ASSUME WebLedgerInv, NEW r \in Requests, OtherNode(r)
  PROVE  WebLedgerInv'
<1>0. request[r].at \in {"other", "negotiation"} /\ Reading(r)
  BY DEF OtherNode, At, Reading, InGraph
<1>1. /\ request[r].state \in States
      /\ PlainEntry(Text(r)) /\ request[r].parse \notin barred => ReadsOwn(request[r])
  BY <1>0, OnItsWay
<1>2. ~(PlainEntry(Text(r)) /\ request[r].parse \notin barred)
  BY <1>0, <1>1 DEF ReadsOwn
<1>3. PICK s \in States : Proceed(r, "finished", s)
  <2>1. \A b \in BOOLEAN : [request[r].state EXCEPT !.engaged = b] \in States
    BY <1>1 DEF States
  <2>. QED  BY <2>1, <1>1 DEF OtherNode
<1>. QED  BY <1>0, <1>2, <1>3, StageTypes, NodeInv DEF OtherNode

\* A request that is given up is read by the rules; the thread stays as it is.
LEMMA FallsBack ==
  ASSUME WebLedgerInv, NEW r \in Requests, Reading(r), Goes(r, "fallback"),
         UNCHANGED <<checkpoint, sent, answers, ledger_entries, attempts, faults, barred>>
  PROVE  WebLedgerInv'
<1>1. /\ request' = [request EXCEPT ![r] = request'[r]]
      /\ request'[r] \in RequestRecords /\ request'[r].at = "fallback"
      /\ request'[r].parse = request[r].parse
  BY StageTypes, GoesTo DEF WebLedgerInv
<1>2. ReadsOwn(request'[r])  BY <1>1 DEF ReadsOwn
<1>3. /\ faults' \in 0..MaxFaults /\ barred' \subseteq Parses /\ barred \subseteq barred'
      /\ checkpoint' \in States
  BY DEF WebLedgerInv, TypeOK
<1>. QED  BY <1>1, <1>2, <1>3, StageTypes, ReadingGoesOn

LEMMA TimesOutInv ==
  ASSUME WebLedgerInv, NEW r \in Requests, TimesOut(r)
  PROVE  WebLedgerInv'
<1>1. Reading(r)  BY DEF TimesOut, Reading
<1>. QED  BY <1>1, FallsBack DEF TimesOut

LEMMA DraftsInv ==
  ASSUME WebLedgerInv, NEW r \in Requests, Reading(r), NEW by \in Readers,
         NEW lines \in Transactions, Drafts(r, by, lines),
         UNCHANGED <<sent, answers, ledger_entries, attempts, faults, barred>>
  PROVE  WebLedgerInv'
<1> DEFINE entry == [of |-> request[r].parse, by |-> by, transactions |-> lines]
<1> DEFINE s == [request[r].state EXCEPT !.pending_ledger_entry = entry,
                                         !.last_discussed = entry]
<1>1. request[r].state \in States /\ request[r].parse \in Parses  BY OnItsWay
<1>2. entry \in Entry  BY <1>1, WebLedgerAssumption DEF Entry
<1>3. s \in States /\ s.pending_ledger_entry = entry  BY <1>1, <1>2 DEF States
<1>4. CASE Raises(lines)  BY <1>4, FallsBack DEF Drafts
<1>5. CASE ~Raises(lines)
  <2>1. Proceed(r, "finished", s)  BY <1>5 DEF Drafts
  <2>2. s.pending_ledger_entry.of = request[r].parse  BY <1>3
  <2>. QED  BY <2>1, <2>2, <1>3, StageTypes, NodeInv
<1>. QED  BY <1>4, <1>5

LEMMA LedgerExtractInv ==
  ASSUME WebLedgerInv, NEW r \in Requests, LedgerExtract(r)
  PROVE  WebLedgerInv'
<1>0. At(r, "ledger") /\ Reading(r)  BY DEF LedgerExtract, At, Reading, InGraph
<1>1. request[r].state \in States /\ Text(r) \in Texts  BY <1>0, OnItsWay
<1>2. UNCHANGED <<sent, answers, ledger_entries, attempts, faults, barred>>
  BY DEF LedgerExtract
<1>3. \A lines \in Transactions : Amended(Text(r), Truncated(lines)) \in Transactions
  BY <1>1, TruncatedTyped, AmendedTyped
<1>4. {"context", "rules", "model"} \subseteq Readers  BY DEF Readers
<1>5. CASE /\ Continues(Text(r), request[r].state)
           /\ Drafts(r, "context", Continued(Text(r), request[r].state))
  <2>1. Continued(Text(r), request[r].state) \in Transactions
    BY <1>1, <1>5, ContinuedTyped
  <2>. QED  BY <2>1, <1>0, <1>2, <1>4, <1>5, DraftsInv
<1>6. CASE Drafts(r, "rules", Amended(Text(r), Truncated(Fallback(Text(r)))))
  BY <1>0, <1>1, <1>2, <1>3, <1>4, <1>6, FallbackTyped, DraftsInv
<1>7. ASSUME NEW a \in ModelAnswers,
             Drafts(r, "model", Amended(Text(r), Truncated(a.transactions)))
      PROVE  WebLedgerInv'
  <2>1. a.transactions \in Transactions  BY WebLedgerAssumption
  <2>. QED  BY <2>1, <1>0, <1>2, <1>3, <1>4, <1>7, DraftsInv
<1>8. CASE Unclear(r)
  <2> DEFINE s == [request[r].state EXCEPT !.pending_ledger_entry = NoEntry]
  <2>1. NoEntry \in Entry
    <3>1. Nothing \in Transactions  BY DEF Nothing, Transactions
    <3>. QED  BY <3>1, WebLedgerAssumption DEF NoEntry, Entry, Readers
  <2>2. s \in States /\ s.pending_ledger_entry = NoEntry  BY <1>1, <2>1 DEF States
  <2>3. Proceed(r, "finished", s)  BY <1>8 DEF Unclear
  <2>. QED  BY <2>2, <2>3, <1>0, <1>2, StageTypes, NodeInv
<1>. QED  BY <1>5, <1>6, <1>7, <1>8 DEF LedgerExtract

\* A handler that is done is about nothing; the others are where they were.
LEMMA Done ==
  ASSUME WebLedgerInv, NEW r \in Requests, request' = [request EXCEPT ![r] = Idle]
  PROVE  /\ request' \in [Requests -> RequestRecords]
         /\ \A q \in Requests : q # r => request'[q] = request[q]
         /\ request'[r] = Idle /\ ~Reading(r)' /\ ~Confirming(r)'
         /\ \A q1, q2 \in Requests : Apart(q1, q2)'
<1>1. request \in [Requests -> RequestRecords]  BY DEF WebLedgerInv, TypeOK
<1>2. Idle \in RequestRecords
  <2>1. Nothing \in Transactions  BY DEF Nothing, Transactions
  <2>2. NoEntry \in Entry  BY <2>1, WebLedgerAssumption DEF NoEntry, Entry, Readers
  <2>3. Fresh \in States  BY <2>2 DEF Fresh, States
  <2>. QED  BY <2>3, WebLedgerAssumption DEF Idle, RequestRecords, Stages
<1>3. \A q \in Requests : q # r => request'[q] = request[q]  BY <1>1
<1>4. request'[r] = Idle  BY <1>1
<1>5. ~Reading(r)' /\ ~Confirming(r)'
  BY <1>4 DEF Idle, Reading, Confirming, InGraph
<1>6. \A q1, q2 \in Requests : Apart(q1, q2)'
  BY <1>3, <1>5 DEF WebLedgerInv, Apart, Reading, Confirming
<1>. QED  BY <1>1, <1>2, <1>3, <1>4, <1>5, <1>6

\* What is answered: an entry of amounts that are numbers, and the text's own
\* when the request could count on it.
LEMMA ReplySound ==
  ASSUME WebLedgerInv, NEW r \in Requests, request[r].at \in {"finished", "fallback"},
         NEW reply,
         LET pending == request[r].state.pending_ledger_entry
             taken == Convertible(pending.transactions)
         IN  reply = IF At(r, "finished") /\ Of(taken) # {}
                     THEN [pending EXCEPT !.transactions = taken]
                     ELSE [of |-> request[r].parse, by |-> "rules",
                           transactions |-> Fallback(Text(r))]
  PROVE  /\ reply \in Entry /\ InNumbers(reply.transactions)
         /\ PlainEntry(Text(r)) /\ request[r].parse \notin barred =>
              reply.of = request[r].parse
<1>0. Reading(r)  BY DEF Reading
<1> DEFINE pending == request[r].state.pending_ledger_entry
<1> DEFINE taken == Convertible(pending.transactions)
<1>1. /\ request[r].state \in States /\ Text(r) \in Texts /\ request[r].parse \in Parses
      /\ PlainEntry(Text(r)) /\ request[r].parse \notin barred => ReadsOwn(request[r])
  BY <1>0, OnItsWay
<1>2. pending \in Entry /\ pending.transactions \in Transactions
  BY <1>1 DEF States, Entry
<1>3. taken \in Transactions /\ InNumbers(taken)  BY <1>2, ConvertibleTyped
<1>4. CASE At(r, "finished") /\ Of(taken) # {}
  <2>1. reply = [pending EXCEPT !.transactions = taken]  BY <1>4
  <2>2. reply \in Entry /\ reply.transactions = taken /\ reply.of = pending.of
    <3>. HIDE DEF pending, taken
    <3>. QED  BY <2>1, <1>2, <1>3 DEF Entry
  <2>3. pending # NoEntry
    <3>1. SUFFICES ASSUME pending = NoEntry  PROVE FALSE  OBVIOUS
    <3>2. Of(taken) = {}  BY <3>1 DEF NoEntry, Nothing, Convertible, Of
    <3>. QED  BY <3>2, <1>4
  <2>4. PlainEntry(Text(r)) /\ request[r].parse \notin barred =>
          pending.of = request[r].parse
    BY <1>1, <1>4, <2>3 DEF ReadsOwn, At
  <2>. QED  BY <2>2, <2>4, <1>3
<1>5. CASE ~(At(r, "finished") /\ Of(taken) # {})
  <2>1. reply = [of |-> request[r].parse, by |-> "rules",
                 transactions |-> Fallback(Text(r))]
    BY <1>5
  <2>2. reply \in Entry
    BY <2>1, <1>1, FallbackTyped, WebLedgerAssumption DEF Entry, Readers
  <2>. QED  BY <2>1, <2>2, <1>1, FallbackTyped
<1>. QED  BY <1>4, <1>5

LEMMA AnswerInv ==
  ASSUME WebLedgerInv, NEW r \in Requests, Answer(r)
  PROVE  WebLedgerInv'
<1> DEFINE p == request[r].parse
<1>0. Reading(r) /\ request[r].at \in {"finished", "fallback"}  BY DEF Answer, Reading
<1>1. /\ p \in (1..Len(sent)) \ DOMAIN answers /\ p \in Parses
  BY <1>0, OnItsWay
<1>2. PICK reply :
        /\ answers' = [q \in DOMAIN answers \cup {p} |-> IF q = p THEN reply ELSE answers[q]]
        /\ reply \in Entry /\ InNumbers(reply.transactions)
        /\ PlainEntry(Text(r)) /\ p \notin barred => reply.of = p
  BY <1>0, ReplySound DEF Answer, Text
<1>3. UNCHANGED <<checkpoint, sent, ledger_entries, attempts, faults, barred>>
        /\ request' = [request EXCEPT ![r] = Idle]
  BY DEF Answer
<1>4. /\ request' \in [Requests -> RequestRecords]
      /\ \A q \in Requests : q # r => request'[q] = request[q]
      /\ ~Reading(r)' /\ ~Confirming(r)'
      /\ \A q1, q2 \in Requests : Apart(q1, q2)'
  BY <1>3, Done
<1>5. /\ DOMAIN answers' = DOMAIN answers \cup {p} /\ answers'[p] = reply
      /\ \A q \in DOMAIN answers : answers'[q] = answers[q]
  BY <1>1, <1>2
<1>6. TypeOK'
  <2>1. DOMAIN answers' \subseteq 1..Len(sent)
          /\ \A q \in DOMAIN answers' : answers'[q] \in Entry
    BY <1>1, <1>2, <1>5 DEF WebLedgerInv, TypeOK
  <2>. QED  BY <2>1, <1>3, <1>4 DEF WebLedgerInv, TypeOK
<1>7. AnswersOwnText'
  <2>1. \A q \in DOMAIN answers : PlainEntry(sent[q]) /\ q \notin barred => answers[q].of = q
    BY DEF WebLedgerInv, AnswersOwnText
  <2>. QED  BY <2>1, <1>2, <1>3, <1>5 DEF AnswersOwnText, Text
<1>8. SavedAsShown'
  <2>1. \A e \in ledger_entries : e.of \in DOMAIN answers
    BY DEF WebLedgerInv, SavedAsShown
  <2>2. \A e \in ledger_entries : e.of \in DOMAIN answers' /\ answers'[e.of] = answers[e.of]
    BY <2>1, <1>5
  <2>. QED  BY <2>2, <1>3 DEF WebLedgerInv, SavedAsShown
<1>9. (\A q \in DOMAIN answers : InNumbers(answers[q].transactions))'
  <2>1. \A q \in DOMAIN answers : InNumbers(answers[q].transactions)  BY DEF WebLedgerInv
  <2>. QED  BY <2>1, <1>2, <1>5 DEF InNumbers, Of
<1>10. (\A e \in ledger_entries : e.attempt <= attempts)'  BY <1>3 DEF WebLedgerInv
<1>11. ASSUME NEW q \in Requests  PROVE ReadingSound(q)' /\ ConfirmingSound(q)'
  <2>1. CASE q = r  BY <2>1, <1>4 DEF ReadingSound, ConfirmingSound
  <2>2. CASE q # r
    <3>1. /\ request'[q] = request[q] /\ ReadingSound(q) /\ ConfirmingSound(q)
          /\ Reading(q) => request[q].parse # p
      BY <2>2, <1>0, <1>4 DEF WebLedgerInv, Apart
    <3>2. ReadingSound(q)'
      BY <3>1, <1>3, <1>5 DEF ReadingSound, Reading, Text, ReadsOwn
    <3>3. ConfirmingSound(q)'  BY <3>1, <1>3, <1>5 DEF ConfirmingSound, Confirming
    <3>. QED  BY <3>2, <3>3
  <2>. QED  BY <2>1, <2>2
<1>. QED  BY <1>4, <1>6, <1>7, <1>8, <1>9, <1>10, <1>11 DEF WebLedgerInv

LEMMA ConfirmInv ==
  ASSUME WebLedgerInv, NEW r \in Requests, NEW p \in DOMAIN answers, Confirm(r, p)
  PROVE  WebLedgerInv'
<1>1. /\ request \in [Requests -> RequestRecords] /\ attempts \in Nat
      /\ attempts < MaxAttempts /\ attempts' = attempts + 1 /\ MaxAttempts \in Nat
      /\ p \in 1..Len(sent) /\ Len(sent) \in Nat /\ Len(sent) <= MaxParses
      /\ MaxParses \in Nat
  BY WebLedgerAssumption DEF WebLedgerInv, TypeOK, Confirm
<1>2. Fresh \in States
  <2>1. Nothing \in Transactions  BY DEF Nothing, Transactions
  <2>2. NoEntry \in Entry  BY <2>1, WebLedgerAssumption DEF NoEntry, Entry, Readers
  <2>. QED  BY <2>2 DEF Fresh, States
<1>3. request'[r] = [at |-> "user", parse |-> p, attempt |-> attempts + 1, state |-> Fresh]
  BY <1>1 DEF Confirm, Idle
<1>4. request' = [request EXCEPT ![r] = request'[r]]  BY <1>1 DEF Confirm
<1>5. request'[r] \in RequestRecords
  <2>1. p \in 0..MaxParses /\ attempts + 1 \in 0..MaxAttempts  BY <1>1
  <2>. QED  BY <1>2, <1>3, <2>1, StageTypes DEF RequestRecords
<1>6. UNCHANGED <<checkpoint, sent, answers, ledger_entries, faults, barred>>
  BY DEF Confirm
<1>7. ~Reading(r)' /\ ReadingSound(r)'
  BY <1>3 DEF Reading, ReadingSound, InGraph
<1>8. ConfirmingSound(r)'
  <2>1. \A e \in ledger_entries : e.attempt <= attempts /\ e.attempt \in Nat
    BY DEF WebLedgerInv, TypeOK
  <2>2. \A e \in ledger_entries : e.attempt # attempts + 1  BY <2>1, <1>1
  <2>3. attempts + 1 \in 1..(attempts + 1)  BY <1>1
  <2>. QED  BY <1>1, <1>3, <1>6, <2>2, <2>3 DEF ConfirmingSound
<1>9. ASSUME NEW q \in Requests, q # r  PROVE Apart(r, q)'
  <2>1. request'[q] = request[q] /\ ConfirmingSound(q)
    BY <1>9, <1>1, <1>4 DEF WebLedgerInv
  <2>2. Confirming(q)' => request'[q].attempt # attempts + 1
    BY <2>1, <1>1 DEF ConfirmingSound, Confirming
  <2>. QED  BY <2>2, <1>3, <1>7 DEF Apart
<1>10. /\ checkpoint' \in States /\ faults' \in 0..MaxFaults /\ barred' \subseteq Parses
       /\ barred \subseteq barred'
  BY <1>6 DEF WebLedgerInv, TypeOK
<1>11. attempts' \in 0..MaxAttempts /\ attempts <= attempts'  BY <1>1
<1>. QED  BY <1>4, <1>5, <1>6, <1>7, <1>8, <1>9, <1>10, <1>11, OneGoesOn

LEMMA FindUserInv ==
  ASSUME WebLedgerInv, NEW r \in Requests, FindUser(r)
  PROVE  WebLedgerInv'
<1>0. Confirming(r) /\ ~Reading(r) /\ ConfirmingSound(r)
  BY DEF FindUser, At, Confirming, Reading, InGraph, WebLedgerInv
<1>1. UNCHANGED <<checkpoint, sent, answers, ledger_entries, attempts, faults, barred>>
  BY DEF FindUser
<1>2. /\ request' = [request EXCEPT ![r] = request'[r]]
      /\ request'[r] \in RequestRecords /\ request'[r].at = "commit"
      /\ request'[r].parse = request[r].parse /\ request'[r].attempt = request[r].attempt
  BY StageTypes, GoesTo DEF FindUser, WebLedgerInv
<1>3. ~Reading(r)' /\ ReadingSound(r)'  BY <1>2 DEF Reading, ReadingSound, InGraph
<1>4. Confirming(r)' /\ ConfirmingSound(r)'
  BY <1>0, <1>1, <1>2 DEF Confirming, ConfirmingSound
<1>5. ASSUME NEW q \in Requests, q # r  PROVE Apart(r, q)'
  <2>1. request'[q] = request[q] /\ Apart(r, q)  BY <1>5, <1>2 DEF WebLedgerInv, TypeOK
  <2>. QED  BY <2>1, <1>0, <1>2, <1>3 DEF Apart, Confirming
<1>6. /\ checkpoint' \in States /\ faults' \in 0..MaxFaults /\ barred' \subseteq Parses
      /\ barred \subseteq barred' /\ attempts' \in 0..MaxAttempts /\ attempts <= attempts'
  BY <1>1 DEF WebLedgerInv, TypeOK
<1>. QED  BY <1>1, <1>2, <1>3, <1>4, <1>5, <1>6, OneGoesOn

\* The lower case of a type, and the kinds that are recognised.
LEMMA SavedTypeSound ==
  ASSUME NEW k \in Kinds \cup {"UNKNOWN"}
  PROVE  /\ SavedType(Lower[k]) \in Types
         /\ k # "UNKNOWN" => SavedType(Lower[k]) = Lower[k]
<1>1. {"recovery", "kisti", "savings", "wages", "borrow", "lend", "income", "expense"}
        \subseteq Types
  BY DEF Types, Lower, Kinds
<1>2. SavedType(Lower[k]) \in Types  BY <1>1 DEF SavedType, Recognised
<1>3. k # "UNKNOWN" => SavedType(Lower[k]) = Lower[k]
  BY DEF SavedType, Recognised, Lower, Kinds
<1>. QED  BY <1>2, <1>3

LEMMA CommitInv ==
  ASSUME WebLedgerInv, NEW r \in Requests, Commit(r)
  PROVE  WebLedgerInv'
<1> DEFINE p == request[r].parse
<1> DEFINE n == request[r].attempt
<1> DEFINE lines == answers[p].transactions
<1>0. Confirming(r) /\ ConfirmingSound(r)
  BY DEF Commit, At, Confirming, WebLedgerInv
<1>1. /\ UNCHANGED <<checkpoint, sent, answers, attempts, faults, barred>>
      /\ request' = [request EXCEPT ![r] = Idle]
      /\ ledger_entries' = ledger_entries \cup Rows(p, n)
  BY DEF Commit
<1>2. /\ request' \in [Requests -> RequestRecords]
      /\ \A q \in Requests : q # r => request'[q] = request[q]
      /\ ~Reading(r)' /\ ~Confirming(r)'
      /\ \A q1, q2 \in Requests : Apart(q1, q2)'
  BY <1>1, Done
<1>3. /\ p \in DOMAIN answers /\ n \in 1..attempts
      /\ \A e \in ledger_entries : e.attempt # n
  BY <1>0 DEF ConfirmingSound
<1>4. /\ attempts \in Nat /\ attempts <= MaxAttempts /\ MaxAttempts \in Nat
      /\ p \in Parses /\ n \in Attempts /\ n <= attempts
      /\ lines \in Transactions /\ InNumbers(lines)
  <2>1. /\ attempts \in Nat /\ attempts <= MaxAttempts /\ MaxAttempts \in Nat
        /\ p \in 1..Len(sent) /\ Len(sent) \in Nat /\ Len(sent) <= MaxParses
        /\ MaxParses \in Nat /\ answers[p] \in Entry
    BY <1>3, WebLedgerAssumption DEF WebLedgerInv, TypeOK
  <2>. QED  BY <2>1, <1>3 DEF WebLedgerInv, Entry
<1>5. ASSUME NEW i \in Of(lines)
      PROVE  /\ i \in Lines /\ SavedType(Lower[lines[i].type]) \in Types
             /\ lines[i].type # "UNKNOWN" =>
                  SavedType(Lower[lines[i].type]) = Lower[lines[i].type]
             /\ lines[i].amount_inr.value \in Rupees
             /\ Amounting(lines[i].amount_inr.value) = lines[i].amount_inr
  <2>1. i \in Lines /\ lines[i] \in Transaction
    <3>. HIDE DEF lines
    <3>. QED  BY <1>4 DEF Of, Transactions
  <2>2. lines[i].amount_inr \in Amounts /\ lines[i].amount_inr.number
    BY <1>4, <2>1 DEF Transaction, InNumbers
  <2>3. lines[i].amount_inr \in [number : {TRUE}, floats : {TRUE}, value : Rupees]
    BY <2>2 DEF Amounts
  <2>4. /\ lines[i].amount_inr.value \in Rupees
        /\ Amounting(lines[i].amount_inr.value) = lines[i].amount_inr
    BY <2>3 DEF Amounting
  <2>5. lines[i].type \in Kinds \cup {"UNKNOWN"}  BY <2>1 DEF Transaction
  <2>. QED  BY <2>1, <2>4, <2>5, SavedTypeSound
<1>6. ASSUME NEW e \in Rows(p, n)
      PROVE  /\ e \in [of : Parses, attempt : Attempts, line : Lines,
                       entry_type : Types, amount : Rupees]
             /\ e.of = p /\ e.attempt = n /\ e.line \in Of(lines)
             /\ lines[e.line].type # "UNKNOWN" => e.entry_type = Lower[lines[e.line].type]
             /\ Amounting(e.amount) = lines[e.line].amount_inr
  <2>1. PICK i \in Of(lines) :
          e = [of |-> p, attempt |-> n, line |-> i,
               entry_type |-> SavedType(Lower[lines[i].type]),
               amount |-> lines[i].amount_inr.value]
    BY DEF Rows
  <2>2. e.of = p /\ e.attempt = n /\ e.line = i
          /\ e.entry_type = SavedType(Lower[lines[i].type])
          /\ e.amount = lines[i].amount_inr.value
    BY <2>1
  <2>3. e \in [of : Parses, attempt : Attempts, line : Lines,
               entry_type : Types, amount : Rupees]
    <3>. HIDE DEF p, n, lines
    <3>. QED  BY <2>1, <1>4, <1>5
  <2>. QED  BY <2>2, <2>3, <1>5
<1>7. ASSUME NEW i \in Of(lines)  PROVE \E e \in Rows(p, n) : e.line = i
  <2> DEFINE e == [of |-> p, attempt |-> n, line |-> i,
                   entry_type |-> SavedType(Lower[lines[i].type]),
                   amount |-> lines[i].amount_inr.value]
  <2>1. e \in Rows(p, n)  BY DEF Rows
  <2>. QED  BY <2>1
<1>8. TypeOK'  BY <1>1, <1>2, <1>6 DEF WebLedgerInv, TypeOK
<1>9. AnswersOwnText'  BY <1>1 DEF WebLedgerInv, AnswersOwnText
<1>10. SavedAsShown'
  <2>1. ASSUME NEW e \in ledger_entries'
        PROVE  /\ e.of \in DOMAIN answers /\ e.line \in Of(answers[e.of].transactions)
               /\ answers[e.of].transactions[e.line].type # "UNKNOWN" =>
                    e.entry_type = Lower[answers[e.of].transactions[e.line].type]
               /\ Amounting(e.amount) = answers[e.of].transactions[e.line].amount_inr
               /\ Of(answers[e.of].transactions) =
                    {f.line : f \in {g \in ledger_entries' : g.attempt = e.attempt}}
    <3>0. \A g \in Rows(p, n) : g.attempt = n /\ g.line \in Of(lines)  BY <1>6
    <3>1. CASE e \in ledger_entries
      <4>1. {g \in ledger_entries' : g.attempt = e.attempt}
              = {g \in ledger_entries : g.attempt = e.attempt}
        BY <1>1, <1>3, <3>0, <3>1
      <4>. QED  BY <3>1, <4>1 DEF WebLedgerInv, SavedAsShown
    <3>2. CASE e \in Rows(p, n)
      <4>1. {g \in ledger_entries' : g.attempt = n} = Rows(p, n)
        BY <1>1, <1>3, <3>0
      <4>2. Of(lines) = {f.line : f \in Rows(p, n)}  BY <3>0, <1>7
      <4>3. e.of = p /\ e.attempt = n  BY <1>6, <3>2
      <4>. QED  BY <4>1, <4>2, <4>3, <1>3, <1>6, <3>2
    <3>. QED  BY <1>1, <3>1, <3>2
  <2>. QED  BY <2>1, <1>1 DEF SavedAsShown
<1>11. (\A e \in ledger_entries : e.attempt <= attempts)'
  BY <1>1, <1>4, <1>6 DEF WebLedgerInv
<1>12. (\A q \in DOMAIN answers : InNumbers(answers[q].transactions))'
  BY <1>1 DEF WebLedgerInv, InNumbers, Of
<1>13. ASSUME NEW q \in Requests  PROVE ReadingSound(q)' /\ ConfirmingSound(q)'
  <2>1. CASE q = r  BY <2>1, <1>2 DEF ReadingSound, ConfirmingSound
  <2>2. CASE q # r
    <3>1. /\ request'[q] = request[q] /\ ReadingSound(q) /\ ConfirmingSound(q)
          /\ Confirming(q) => request[q].attempt # n
      BY <2>2, <1>0, <1>2 DEF WebLedgerInv, Apart
    <3>2. ReadingSound(q)'  BY <3>1, <1>1 DEF ReadingSound, Reading, Text, ReadsOwn
    <3>3. \A e \in Rows(p, n) : e.attempt = n  BY <1>6
    <3>4. ConfirmingSound(q)'
      BY <3>1, <3>3, <1>1 DEF ConfirmingSound, Confirming
    <3>. QED  BY <3>2, <3>4
  <2>. QED  BY <2>1, <2>2
<1>. QED
  BY <1>2, <1>8, <1>9, <1>10, <1>11, <1>12, <1>13 DEF WebLedgerInv

LEMMA ConfirmFailsInv ==
  ASSUME WebLedgerInv, NEW r \in Requests, ConfirmFails(r)
  PROVE  WebLedgerInv'
<1>1. /\ UNCHANGED <<checkpoint, sent, answers, ledger_entries, attempts, barred>>
      /\ request' = [request EXCEPT ![r] = Idle] /\ Fault
  BY DEF ConfirmFails
<1>2. /\ request' \in [Requests -> RequestRecords] /\ request'[r] = Idle
      /\ ~Reading(r)' /\ ~Confirming(r)'
      /\ \A q1, q2 \in Requests : Apart(q1, q2)'
  BY <1>1, Done
<1>3. request' = [request EXCEPT ![r] = request'[r]]  BY <1>1, <1>2
<1>4. ReadingSound(r)' /\ ConfirmingSound(r)'
  BY <1>2 DEF ReadingSound, ConfirmingSound
<1>5. /\ checkpoint' \in States /\ barred' \subseteq Parses /\ barred \subseteq barred'
      /\ attempts' \in 0..MaxAttempts /\ attempts <= attempts'
  BY <1>1 DEF WebLedgerInv, TypeOK
<1>6. faults' \in 0..MaxFaults
  BY <1>1, WebLedgerAssumption DEF WebLedgerInv, TypeOK, Fault
<1>. QED  BY <1>1, <1>2, <1>3, <1>4, <1>5, <1>6, OneGoesOn

LEMMA RestartInv ==
  ASSUME WebLedgerInv, Restart
  PROVE  WebLedgerInv'
<1>1. Fresh \in States /\ Idle \in RequestRecords
  <2>1. Nothing \in Transactions  BY DEF Nothing, Transactions
  <2>2. NoEntry \in Entry  BY <2>1, WebLedgerAssumption DEF NoEntry, Entry, Readers
  <2>3. Fresh \in States  BY <2>2 DEF Fresh, States
  <2>. QED  BY <2>3, WebLedgerAssumption DEF Idle, RequestRecords, Stages
<1>2. TypeOK'  BY <1>1 DEF Restart, WebLedgerInv, TypeOK
<1>3. \A r \in Requests : ~Reading(r)' /\ ~Confirming(r)'
  BY DEF Restart, Reading, Confirming, Idle, InGraph
<1>4. AnswersOwnText' /\ SavedAsShown'
  BY DEF Restart, WebLedgerInv, AnswersOwnText, SavedAsShown
<1>5. (\A p \in DOMAIN answers : InNumbers(answers[p].transactions))'
  BY DEF Restart, WebLedgerInv, InNumbers, Of
<1>. QED
  BY <1>2, <1>3, <1>4, <1>5
  DEF Restart, WebLedgerInv, ReadingSound, ConfirmingSound, Apart

LEMMA StutterInv ==
  ASSUME WebLedgerInv, UNCHANGED vars
  PROVE  WebLedgerInv'
<1>1. TypeOK' /\ AnswersOwnText' /\ SavedAsShown'
  BY DEF vars, WebLedgerInv, TypeOK, AnswersOwnText, SavedAsShown
<1>2. (\A p \in DOMAIN answers : InNumbers(answers[p].transactions))'
  BY DEF vars, WebLedgerInv, InNumbers, Of
<1>3. \A r \in Requests : ReadingSound(r)' /\ ConfirmingSound(r)'
  BY DEF vars, WebLedgerInv, ReadingSound, ConfirmingSound, Reading, Confirming, Text
<1>4. \A r, q \in Requests : Apart(r, q)'
  BY DEF vars, WebLedgerInv, Apart, Reading, Confirming
<1>. QED  BY <1>1, <1>2, <1>3, <1>4 DEF vars, WebLedgerInv

LEMMA NextInv ==
  ASSUME WebLedgerInv, [Next]_vars
  PROVE  WebLedgerInv'
<1>1. ASSUME NEW r \in Requests, NEW t \in Texts, Parse(r, t)  PROVE WebLedgerInv'
  BY <1>1, ParseInv
<1>2. ASSUME NEW r \in Requests, NEW p \in DOMAIN answers, Confirm(r, p)
      PROVE WebLedgerInv'
  BY <1>2, ConfirmInv
<1>3. ASSUME NEW r \in Requests, Steps(r)  PROVE WebLedgerInv'
  BY <1>3, LoadUserProfileInv, InputGuardInv, ClassifyIntentInv, LedgerExtractInv,
     OtherNodeInv, TimesOutInv, AnswerInv, FindUserInv, CommitInv, ConfirmFailsInv
  DEF Steps
<1>. QED  BY <1>1, <1>2, <1>3, RestartInv, StutterInv DEF Next

-----------------------------------------------------------------------------
(* The theorems.                                                           *)

\* The requests for a reading and the attempts to save never meet: each reads
\* and saves what is its own.
THEOREM WebLedgerInvHolds == Spec => []WebLedgerInv
<1>. QED  BY InitInv, NextInv, PTL DEF Spec

\* Every variable keeps its type, whatever is sent and whatever the model reads.
THEOREM TypeCorrect == Spec => []TypeOK
<1>1. WebLedgerInv => TypeOK  BY DEF WebLedgerInv
<1>. QED  BY <1>1, WebLedgerInvHolds, PTL

\* A text the keywords take for an entry is answered from itself, however many
\* requests share its thread.
THEOREM AnswersOwnTextHolds == Spec => []AnswersOwnText
<1>1. WebLedgerInv => AnswersOwnText  BY DEF WebLedgerInv
<1>. QED  BY <1>1, WebLedgerInvHolds, PTL

\* The rows of an attempt are the lines that were shown, all of them.
THEOREM SavedAsShownHolds == Spec => []SavedAsShown
<1>1. WebLedgerInv => SavedAsShown  BY DEF WebLedgerInv
<1>. QED  BY <1>1, WebLedgerInvHolds, PTL


-----------------------------------------------------------------------------
(* What is read in a text.                                                 *)

LEMMA LargestSaid ==
  ASSUME NEW t \in Texts, OneNumber(t) \/ NumbersOf(t) # {}
  PROVE  Largest(NumbersOf(t)) \in NumbersOf(t)
<1>1. CASE OneNumber(t)
  <2>1. PICK i \in DOMAIN t.clauses : Len(t.clauses[i].numbers) = 1
    BY <1>1 DEF OneNumber
  <2>2. NumbersIn(t.clauses[i]) # {}  BY <2>1 DEF NumbersIn
  <2>3. NumbersOf(t) # {}  BY <2>2 DEF NumbersOf
  <2>. QED  BY <2>3, TextTyped, LargestIsOne
<1>2. CASE NumbersOf(t) # {}  BY <1>2, TextTyped, LargestIsOne
<1>. QED  BY <1>1, <1>2

\* A clause with an amount has it in digits or in a word.
LEMMA PricedIsSaid ==
  ASSUME NEW t \in Texts, NEW i \in Priced(t)
  PROVE  Amount(t.clauses[i]) \in SaidIn(t)
<1> DEFINE c == t.clauses[i]
<1>1. i \in DOMAIN t.clauses /\ c \in Clauses /\ Amount(c) > 0
  BY TextTyped DEF Priced
<1>2. CASE c.numbers = <<>>
  <2>1. Amount(c) = c.word  BY <1>2 DEF Amount
  <2>. QED  BY <1>1, <2>1 DEF SaidIn
<1>3. CASE c.numbers # <<>>
  <2>1. c.numbers \in Seq(Rupees)  BY <1>1 DEF Clauses
  <2>. HIDE DEF c
  <2>2. NumbersIn(c) \subseteq Rupees  BY <2>1 DEF NumbersIn
  <2>3. 1 \in 1..Len(c.numbers)  BY <2>1, <1>3
  <2>4. NumbersIn(c) # {}  BY <2>3 DEF NumbersIn
  <2>5. Amount(c) \in NumbersIn(c)  BY <1>3, <2>2, <2>4, LargestIsOne DEF Amount
  <2>. QED  BY <1>1, <2>5 DEF SaidIn, NumbersOf, c
<1>. QED  BY <1>2, <1>3

\* Amending changes amounts, and of no line but the only one.
LEMMA AmendedLines ==
  ASSUME NEW t \in Texts, NEW lines \in Transactions
  PROVE  /\ Of(Amended(t, lines)) = Of(lines)
         /\ OneNumber(t) /\ ~t.multiplier /\ Cardinality(Of(lines)) = 1 =>
              \A i \in Of(lines) :
                Amended(t, lines)[i].amount_inr = Amounting(Largest(NumbersOf(t)))
         /\ \A i \in Of(lines) :
              \/ Amended(t, lines)[i] = lines[i]
              \/ /\ OneNumber(t)
                 /\ Amended(t, lines)[i].amount_inr = Amounting(Largest(NumbersOf(t)))
<1> DEFINE amount == Amounting(Largest(NumbersOf(t)))
<1> DEFINE amends == OneNumber(t) /\ Cardinality(Of(lines)) = 1 /\ ~t.multiplier
<1>1. CASE ~amends  BY <1>1 DEF Amended
<1>2. CASE amends
  <2>1. Amended(t, lines) =
          [i \in Lines |-> IF i \notin Of(lines) THEN NoLine
                           ELSE [lines[i] EXCEPT !.amount_inr = amount]]
    BY <1>2 DEF Amended
  <2>2. \A i \in Of(lines) : i \in Lines /\ lines[i] \in Transaction
    BY DEF Of, Transactions
  <2>3. \A i \in Of(lines) : [lines[i] EXCEPT !.amount_inr = amount].amount_inr = amount
    BY <2>2 DEF Transaction
  <2>4. amount \in Amounts
    BY <1>2, LargestSaid, TextTyped DEF Amounting, Amounts
  <2>5. \A i \in Of(lines) : [lines[i] EXCEPT !.amount_inr = amount] # NoLine
    <3>1. \A i \in Of(lines) : [lines[i] EXCEPT !.amount_inr = amount] \in Transaction
      BY <2>2, <2>4 DEF Transaction
    <3>. QED  BY <3>1, WebLedgerAssumption
  <2>. HIDE DEF amount
  <2>6. Of(Amended(t, lines)) = Of(lines)  BY <2>1, <2>2, <2>5 DEF Of
  <2>7. \A i \in Of(lines) : Amended(t, lines)[i].amount_inr = amount
    BY <2>1, <2>2, <2>3
  <2>. QED  BY <1>2, <2>6, <2>7 DEF amount
<1>. QED  BY <1>1, <1>2

\* The rules invent no amount where there is one.
LEMMA FallbackSaid ==
  ASSUME NEW t \in Texts, Priced(t) # {}, NEW i \in Of(Fallback(t))
  PROVE  Fallback(t)[i].amount_inr.value \in SaidIn(t)
<1>1. i \in Priced(t) /\ Fallback(t)[i] = Single(t.clauses[i])
  BY DEF Fallback, Of
<1>. QED  BY <1>1, PricedIsSaid DEF Single, Amounting

\* What the graph reads by rules was said, too.
LEMMA ReadByRules ==
  ASSUME NEW t \in Texts, Priced(t) # {},
         NEW i \in Of(Amended(t, Truncated(Fallback(t))))
  PROVE  Amended(t, Truncated(Fallback(t)))[i].amount_inr.value \in SaidIn(t)
<1> DEFINE lines == Truncated(Fallback(t))
<1>1. lines \in Transactions  BY FallbackTyped, TruncatedTyped
<1>2. i \in Of(lines)  BY <1>1, AmendedLines
<1>3. i \in Of(Fallback(t)) /\ lines[i] = Fallback(t)[i]
  BY <1>2 DEF Truncated, Of
<1>. HIDE DEF lines
<1>4. CASE Amended(t, lines)[i] = lines[i]  BY <1>3, <1>4, FallbackSaid DEF lines
<1>5. CASE /\ OneNumber(t)
           /\ Amended(t, lines)[i].amount_inr = Amounting(Largest(NumbersOf(t)))
  BY <1>5, LargestSaid DEF lines, Amounting, SaidIn
<1>. QED  BY <1>1, <1>2, <1>4, <1>5, AmendedLines

\* An amount that continues an earlier entry is this text's own.
LEMMA ContinuedLine ==
  ASSUME NEW t \in Texts, NEW s \in States, Continues(t, s),
         NEW i \in Of(Continued(t, s))
  PROVE  /\ Continued(t, s)[i].amount_inr = Amounting(Largest(NumbersOf(t)))
         /\ Continued(t, s)[i].amount_inr.value \in SaidIn(t)
<1>1. First(s.last_discussed.transactions) \in Transaction
  BY FirstTyped DEF Continues, States, Entry
<1> DEFINE first == First(s.last_discussed.transactions)
<1>. HIDE DEF first
<1>2. 1 \in Lines /\ i = 1
  BY WebLedgerAssumption DEF Of, Continued, Nothing
<1>3. Continued(t, s)[i] = [first EXCEPT !.amount_inr = Amounting(Largest(NumbersOf(t)))]
  BY <1>2 DEF Continued, Nothing, first
<1>4. Continued(t, s)[i].amount_inr = Amounting(Largest(NumbersOf(t)))
  BY <1>1, <1>3 DEF Transaction, first
<1>. QED  BY <1>4, LargestSaid DEF Continues, Amounting, SaidIn

-----------------------------------------------------------------------------
(* The entries of the thread, step by step.                                *)

\* Later texts leave the earlier ones where they are.
LEMMA StaysSound ==
  ASSUME sent \in Seq(Texts), NEW t \in Texts, NEW entry
  PROVE  /\ PendingSound(entry, sent) => PendingSound(entry, Append(sent, t))
         /\ entry.of \in 1..Len(sent) /\ AmountsSaid(entry, sent) =>
              entry.of \in 1..Len(Append(sent, t)) /\ AmountsSaid(entry, Append(sent, t))
<1>1. \A p \in 1..Len(sent) : p \in 1..Len(Append(sent, t)) /\ Append(sent, t)[p] = sent[p]
  OBVIOUS
<1>. QED  BY <1>1 DEF PendingSound, NumberStands, AmountsSaid

\* One handler's copy changes, and perhaps the checkpoint.
LEMMA CopyChanges ==
  ASSUME WebLedgerInv, EntriesSound, NEW r \in Requests,
         request' = [request EXCEPT ![r] = request'[r]],
         PendingSound(request'[r].state.pending_ledger_entry, sent),
         PendingSound(checkpoint'.pending_ledger_entry, sent),
         UNCHANGED <<sent, answers>>
  PROVE  EntriesSound'
<1>1. \A q \in Requests : q # r => request'[q] = request[q]
  BY DEF WebLedgerInv, TypeOK
<1>. QED  BY <1>1 DEF EntriesSound

LEMMA NoEntrySound == ASSUME NEW texts PROVE PendingSound(NoEntry, texts)
BY DEF PendingSound

\* A node that leaves the pending entry.
LEMMA LeavesEntry ==
  ASSUME WebLedgerInv, EntriesSound, NEW r \in Requests,
         NEW stage, NEW s, Proceed(r, stage, s),
         s.pending_ledger_entry = request[r].state.pending_ledger_entry
           \/ PendingSound(s.pending_ledger_entry, sent),
         UNCHANGED <<sent, answers>>
  PROVE  EntriesSound'
<1>1. request[r] \in RequestRecords  BY DEF WebLedgerInv, TypeOK
<1>2. request'[r].state = s /\ checkpoint' = s
        /\ request' = [request EXCEPT ![r] = request'[r]]
  BY <1>1 DEF Proceed, RequestRecords, WebLedgerInv, TypeOK
<1>3. PendingSound(s.pending_ledger_entry, sent)  BY DEF EntriesSound
<1>. QED  BY <1>2, <1>3, CopyChanges

\* A handler that only goes on, or is done.
LEMMA LeavesThread ==
  ASSUME WebLedgerInv, EntriesSound, NEW r \in Requests, NEW q,
         request' = [request EXCEPT ![r] = q],
         q.state = request[r].state \/ q.state = Fresh,
         UNCHANGED <<checkpoint, sent, answers>>
  PROVE  EntriesSound'
<1>1. request'[r] = q /\ request' = [request EXCEPT ![r] = request'[r]]
  BY DEF WebLedgerInv, TypeOK
<1>2. PendingSound(q.state.pending_ledger_entry, sent)
  BY NoEntrySound DEF EntriesSound, Fresh
<1>. QED  BY <1>1, <1>2, CopyChanges DEF EntriesSound

LEMMA GoesSound ==
  ASSUME WebLedgerInv, EntriesSound, NEW r \in Requests, NEW stage, Goes(r, stage),
         UNCHANGED <<checkpoint, sent, answers>>
  PROVE  EntriesSound'
<1>1. request' = [request EXCEPT ![r] = [request[r] EXCEPT !.at = stage]]
  BY DEF Goes
<1>2. [request[r] EXCEPT !.at = stage].state = request[r].state
  BY DEF WebLedgerInv, TypeOK, RequestRecords
<1>. QED  BY <1>1, <1>2, LeavesThread

LEMMA ParseSound ==
  ASSUME WebLedgerInv, EntriesSound, NEW r \in Requests, NEW t \in Texts, Parse(r, t)
  PROVE  EntriesSound'
<1>1. /\ sent \in Seq(Texts) /\ checkpoint \in States
      /\ request \in [Requests -> RequestRecords]
  BY DEF WebLedgerInv, TypeOK
<1>2. sent' = Append(sent, t) /\ UNCHANGED answers
  BY DEF Parse
<1>3. checkpoint'.pending_ledger_entry = checkpoint.pending_ledger_entry
  BY <1>1 DEF Parse, States
<1>4. request'[r].state = checkpoint'
  BY <1>1 DEF Parse, Idle
<1>5. \A q \in Requests : q # r => request'[q] = request[q]
  BY <1>1 DEF Parse
<1>6. \A q \in Requests : PendingSound(request'[q].state.pending_ledger_entry, sent)
  BY <1>3, <1>4, <1>5 DEF EntriesSound
<1>7. PendingSound(checkpoint'.pending_ledger_entry, sent)
  BY <1>3 DEF EntriesSound
<1>. QED  BY <1>1, <1>2, <1>6, <1>7, StaysSound DEF EntriesSound

\* What LedgerExtract drafts goes with its text.
LEMMA DraftSound ==
  ASSUME WebLedgerInv, EntriesSound, NEW r \in Requests, Reading(r), NEW by,
         NEW lines, Drafts(r, by, lines), UNCHANGED <<sent, answers>>,
         OneNumber(Text(r)) /\ ~Text(r).multiplier /\ Cardinality(Of(lines)) = 1 =>
           \A i \in Of(lines) :
             lines[i].amount_inr = Amounting(Largest(NumbersOf(Text(r)))),
         by = "model" \/ Priced(Text(r)) = {}
           \/ \A i \in Of(lines) : lines[i].amount_inr.value \in SaidIn(Text(r))
  PROVE  EntriesSound'
<1> DEFINE entry == [of |-> request[r].parse, by |-> by, transactions |-> lines]
<1> DEFINE s == [request[r].state EXCEPT !.pending_ledger_entry = entry,
                                         !.last_discussed = entry]
<1>1. request[r].state \in States /\ request[r].parse \in 1..Len(sent)
  BY OnItsWay
<1>2. s.pending_ledger_entry = entry  BY <1>1 DEF States
<1>3. PendingSound(entry, sent)
  BY <1>1 DEF PendingSound, NumberStands, AmountsSaid, Text
<1>4. CASE Raises(lines)
  BY <1>4, GoesSound DEF Drafts
<1>5. CASE ~Raises(lines)
  <2>1. Proceed(r, "finished", s)  BY <1>5 DEF Drafts
  <2>. HIDE DEF s, entry
  <2>. QED  BY <1>2, <1>3, <2>1, LeavesEntry
<1>. QED  BY <1>4, <1>5

LEMMA LedgerExtractSound ==
  ASSUME WebLedgerInv, EntriesSound, NEW r \in Requests, LedgerExtract(r)
  PROVE  EntriesSound'
<1> DEFINE t == Text(r)
<1>0. Reading(r)  BY DEF LedgerExtract, At, Reading, InGraph
<1>1. request[r].state \in States /\ t \in Texts  BY <1>0, OnItsWay
<1>2. UNCHANGED <<sent, answers>>  BY DEF LedgerExtract
<1>3. CASE Continues(t, request[r].state) /\ Drafts(r, "context", Continued(t, request[r].state))
  <2>. HIDE DEF t
  <2>. QED  BY <1>0, <1>1, <1>2, <1>3, ContinuedLine, DraftSound DEF t
<1>4. CASE Drafts(r, "rules", Amended(t, Truncated(Fallback(t))))
  <2> DEFINE lines == Truncated(Fallback(t))
  <2>1. lines \in Transactions  BY <1>1, FallbackTyped, TruncatedTyped
  <2>2. Priced(t) = {} \/ \A i \in Of(Amended(t, lines)) :
                            Amended(t, lines)[i].amount_inr.value \in SaidIn(t)
    BY <1>1, ReadByRules
  <2>. HIDE DEF lines
  <2>3. OneNumber(t) /\ ~t.multiplier /\ Cardinality(Of(Amended(t, lines))) = 1 =>
          \A i \in Of(Amended(t, lines)) :
            Amended(t, lines)[i].amount_inr = Amounting(Largest(NumbersOf(t)))
    BY <1>1, <2>1, AmendedLines
  <2>4. Drafts(r, "rules", Amended(t, lines))  BY <1>4 DEF lines
  <2>. QED  BY <1>0, <1>2, <2>2, <2>3, <2>4, DraftSound
<1>5. ASSUME NEW a \in ModelAnswers, Drafts(r, "model", Amended(t, Truncated(a.transactions)))
      PROVE  EntriesSound'
  <2> DEFINE lines == Truncated(a.transactions)
  <2>1. lines \in Transactions  BY TruncatedTyped, WebLedgerAssumption
  <2>. HIDE DEF lines
  <2>2. OneNumber(t) /\ ~t.multiplier /\ Cardinality(Of(Amended(t, lines))) = 1 =>
          \A i \in Of(Amended(t, lines)) :
            Amended(t, lines)[i].amount_inr = Amounting(Largest(NumbersOf(t)))
    BY <1>1, <2>1, AmendedLines
  <2>3. Drafts(r, "model", Amended(t, lines))  BY <1>5 DEF lines
  <2>. QED  BY <1>0, <1>2, <2>2, <2>3, DraftSound
<1>6. CASE Unclear(r)
  <2> DEFINE s == [request[r].state EXCEPT !.pending_ledger_entry = NoEntry]
  <2>1. s.pending_ledger_entry = NoEntry  BY <1>1 DEF States
  <2>2. Proceed(r, "finished", s)  BY <1>6 DEF Unclear
  <2>. HIDE DEF s
  <2>. QED  BY <1>2, <2>1, <2>2, NoEntrySound, LeavesEntry
<1>. QED  BY <1>3, <1>4, <1>5, <1>6 DEF LedgerExtract

\* The lines that can be converted are some of the entry's.
LEMMA AnswerSound ==
  ASSUME WebLedgerInv, EntriesSound, NEW r \in Requests, Answer(r)
  PROVE  EntriesSound'
<1> DEFINE p == request[r].parse
           pending == request[r].state.pending_ledger_entry
           taken == Convertible(pending.transactions)
           kept == [pending EXCEPT !.transactions = taken]
           ruled == [of |-> p, by |-> "rules", transactions |-> Fallback(sent[p])]
           reply == IF At(r, "finished") /\ Of(taken) # {} THEN kept ELSE ruled
           Good(e) == e.of \in 1..Len(sent) /\ AmountsSaid(e, sent)
<1>1. /\ request[r].state \in States /\ sent[p] \in Texts /\ p \in 1..Len(sent)
  BY OnItsWay DEF Answer, Reading, Text
<1>2. ASSUME Of(taken) # {}  PROVE Good(kept)
  <2>1. pending \in Entry  BY <1>1 DEF States
  <2>2. pending # NoEntry
    <3>1. SUFFICES ASSUME pending = NoEntry  PROVE FALSE  OBVIOUS
    <3>2. Of(taken) = {}  BY <3>1 DEF NoEntry, Nothing, Convertible, Of
    <3>. QED  BY <1>2, <3>2
  <2>3. Good(pending)
    BY <2>2 DEF EntriesSound, PendingSound
  <2>4. ASSUME NEW i \in Of(taken)
        PROVE  /\ i \in Of(pending.transactions)
               /\ taken[i].amount_inr.value = pending.transactions[i].amount_inr.value
    <3>1. pending.transactions \in Transactions  BY <2>1 DEF Entry
    <3>2. taken[i].amount_inr = Amounting(pending.transactions[i].amount_inr.value)
            /\ i \in Of(pending.transactions)
      BY <3>1, ConvertibleTyped
    <3>. QED  BY <3>2 DEF Amounting
  <2>5. kept.of = pending.of /\ kept.by = pending.by /\ kept.transactions = taken
    <3>. HIDE DEF pending, taken
    <3>. QED  BY <2>1 DEF Entry
  <2>. HIDE DEF pending, taken, kept
  <2>. QED  BY <2>3, <2>4, <2>5 DEF AmountsSaid
<1>3. Good(ruled)
  <2>1. Priced(sent[p]) = {} \/ \A i \in Of(Fallback(sent[p])) :
          Fallback(sent[p])[i].amount_inr.value \in SaidIn(sent[p])
    BY <1>1, FallbackSaid
  <2>. QED  BY <1>1, <2>1 DEF AmountsSaid
<1>4. Good(reply)  BY <1>2, <1>3
<1>5. /\ answers' = [q \in DOMAIN answers \cup {p} |-> IF q = p THEN reply ELSE answers[q]]
      /\ request' = [request EXCEPT ![r] = Idle] /\ UNCHANGED <<checkpoint, sent>>
  BY DEF Answer
<1>. HIDE DEF reply, p
<1>6. \A q \in DOMAIN answers' : Good(answers'[q])
  BY <1>4, <1>5 DEF EntriesSound
<1>7. \A q \in Requests : PendingSound(request'[q].state.pending_ledger_entry, sent)
  <2>1. \A q \in Requests : request'[q] = IF q = r THEN Idle ELSE request[q]
    BY <1>5 DEF WebLedgerInv, TypeOK
  <2>2. PendingSound(Idle.state.pending_ledger_entry, sent)
    BY NoEntrySound DEF Idle, Fresh
  <2>. QED  BY <2>1, <2>2 DEF EntriesSound
<1>. QED  BY <1>5, <1>6, <1>7 DEF EntriesSound

LEMMA SoundStep ==
  ASSUME WebLedgerInv, EntriesSound, [Next]_vars
  PROVE  EntriesSound'
<1>1. ASSUME NEW r \in Requests, NEW t \in Texts, Parse(r, t)  PROVE EntriesSound'
  BY <1>1, ParseSound
<1>2. ASSUME NEW r \in Requests, NEW p \in DOMAIN answers, Confirm(r, p)
      PROVE EntriesSound'
  <2> DEFINE q == [Idle EXCEPT !.at = "user", !.parse = p, !.attempt = attempts + 1]
  <2>1. request' = [request EXCEPT ![r] = q] /\ UNCHANGED <<checkpoint, sent, answers>>
    BY <1>2 DEF Confirm
  <2>2. q.state = Fresh  BY DEF Idle
  <2>. HIDE DEF q
  <2>. QED  BY <2>1, <2>2, LeavesThread
<1>3. ASSUME NEW r \in Requests, Steps(r)  PROVE EntriesSound'
  <2>0. request[r].state \in States  BY DEF WebLedgerInv, TypeOK, RequestRecords
  <2>1. CASE LoadUserProfile(r)
    <3> DEFINE s == [request[r].state EXCEPT !.is_new_user = TRUE]
    <3>1. s.pending_ledger_entry = request[r].state.pending_ledger_entry
      BY <2>0 DEF States
    <3>2. \/ Proceed(r, "input_guard", request[r].state)
          \/ Proceed(r, "input_guard", s)
      BY <2>1 DEF LoadUserProfile
    <3>3. UNCHANGED <<sent, answers>>  BY <2>1 DEF LoadUserProfile
    <3>. HIDE DEF s
    <3>. QED  BY <3>1, <3>2, <3>3, LeavesEntry
  <2>2. CASE InputGuard(r)  BY <2>2, LeavesEntry DEF InputGuard
  <2>3. CASE ClassifyIntent(r)  BY <2>3, LeavesEntry DEF ClassifyIntent
  <2>4. CASE OtherNode(r)
    <3>1. ASSUME NEW b \in BOOLEAN,
                 Proceed(r, "finished", [request[r].state EXCEPT !.engaged = b])
          PROVE  EntriesSound'
      <4> DEFINE s == [request[r].state EXCEPT !.engaged = b]
      <4>1. s.pending_ledger_entry = request[r].state.pending_ledger_entry
        BY <2>0 DEF States
      <4>2. UNCHANGED <<sent, answers>>  BY <2>4 DEF OtherNode
      <4>. HIDE DEF s
      <4>. QED  BY <3>1, <4>1, <4>2, LeavesEntry DEF s
    <3>. QED  BY <2>4, <3>1, LeavesEntry DEF OtherNode
  <2>5. CASE TimesOut(r)  BY <2>5, GoesSound DEF TimesOut
  <2>6. CASE FindUser(r)  BY <2>6, GoesSound DEF FindUser
  <2>7. CASE Commit(r) \/ ConfirmFails(r)
    <3>1. request' = [request EXCEPT ![r] = Idle] /\ UNCHANGED <<checkpoint, sent, answers>>
      BY <2>7 DEF Commit, ConfirmFails
    <3>. QED  BY <3>1, LeavesThread DEF Idle
  <2>. QED
    BY <1>3, <2>1, <2>2, <2>3, <2>4, <2>5, <2>6, <2>7, LedgerExtractSound, AnswerSound DEF Steps
<1>4. CASE Restart
  <2>1. \A r \in Requests : request'[r].state = Fresh
    BY <1>4 DEF Restart, Idle
  <2>. QED  BY <1>4, <2>1, NoEntrySound DEF Restart, EntriesSound, Fresh
<1>5. CASE UNCHANGED vars  BY <1>5 DEF vars, EntriesSound
<1>. QED  BY <1>1, <1>2, <1>3, <1>4, <1>5 DEF Next

-----------------------------------------------------------------------------
(* What is read in a text, for any texts and any answers of the model.     *)

\* Every entry the thread holds, in any handler's copy, and every answer goes with the
\* text it was read in.
THEOREM EntriesSoundHolds == Spec => []EntriesSound
<1>1. Init => EntriesSound
  <2>. SUFFICES ASSUME Init PROVE EntriesSound  OBVIOUS
  <2>. QED  BY NoEntrySound DEF Init, EntriesSound, Idle, Fresh
<1>2. WebLedgerInv /\ EntriesSound /\ [Next]_vars => EntriesSound'
  BY SoundStep
<1>. QED  BY <1>1, <1>2, WebLedgerInvHolds, PTL DEF Spec

\* Where the text has one number, and the graph reads one transaction, that number is its
\* amount, whoever read it (ledger_extraction_node).
THEOREM OneNumberIsTheAmountHolds == Spec => []OneNumberIsTheAmount
<1>1. EntriesSound => OneNumberIsTheAmount
  BY DEF EntriesSound, PendingSound, OneNumberIsTheAmount
<1>. QED  BY <1>1, EntriesSoundHolds, PTL

\* No amount that the model did not give is made up where the text has one
\* (_extract_multi_ledger_fallback).
THEOREM AmountsWereSaidHolds == Spec => []AmountsWereSaid
<1>1. EntriesSound => AmountsWereSaid
  BY DEF EntriesSound, AmountsWereSaid
<1>. QED  BY <1>1, EntriesSoundHolds, PTL
=============================================================================
