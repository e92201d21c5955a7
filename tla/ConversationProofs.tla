------------------------- MODULE ConversationProofs -------------------------
(***************************************************************************)
(* Proofs about Conversation, for any words and messages, any number of    *)
(* turns and any number of them side by side: every reachable state is     *)
(* type correct; and of a user who types and taps, only their own yes      *)
(* writes the ledger, and every entry holds the words of its own message.  *)
(***************************************************************************)
EXTENDS Conversation, TLAPS

-----------------------------------------------------------------------------
(* The updates keep the type of the conversation state.                    *)

LEMMA TurnsAreNumbers == Turns \subseteq TurnOrNone
BY ConversationAssumption DEF Turns, TurnOrNone

\* Each update below returns a conversation state when it is given one.
LEMMA ReceivedType ==
  ASSUME NEW s \in ConversationState, NEW t \in Turns, NEW channel \in Channels
  PROVE  Received(s, t, channel) \in ConversationState
BY TurnsAreNumbers DEF Received, ConversationState

LEMMA ProposingType ==
  ASSUME NEW s \in ConversationState, NEW entry \in Entry, entry.by \in Turns,
         NEW turns \in 0 .. MAX_CONFIRMATION_TURNS
  PROVE  Proposing(s, entry, turns) \in ConversationState
BY DEF Proposing, ConversationState

LEMMA NoEntryType == NoEntry \in Entry
BY ConversationAssumption DEF NoEntry, Entry, TurnOrNone

LEMMA EmptyStateType == EmptyState \in ConversationState
BY NoEntryType, ConversationAssumption
   DEF EmptyState, ConversationState, TurnOrNone, Channels, MAX_CONFIRMATION_TURNS

LEMMA ClearingTypes ==
  ASSUME NEW s \in ConversationState
  PROVE  /\ Unclear(s) \in ConversationState
         /\ Reset(s) \in ConversationState
         /\ Declined(s) \in ConversationState
<1>1. 0 \in 0 .. MAX_CONFIRMATION_TURNS
  BY DEF MAX_CONFIRMATION_TURNS
<1>2. Unclear(s) \in ConversationState
  BY NoEntryType DEF Unclear, ConversationState
<1>3. Reset(s) \in ConversationState
  BY <1>1, NoEntryType DEF Reset, ConversationState
<1>4. s.pending_ledger_entry \in Entry
  BY DEF ConversationState
<1>5. Declined(s) \in ConversationState
  BY <1>3, <1>4 DEF Declined, ConversationState
<1>. QED
  BY <1>2, <1>3, <1>5

\* What extraction and the context draw on are turns and entries of the state.
LEMMA ReadingTypes ==
  ASSUME NEW s \in ConversationState
  PROVE  /\ Heard(s) \in TurnOrNone
         /\ Extracted(s) \in TurnOrNone
         /\ Context(s) \in Entry
         /\ s.pending_ledger_entry \in Entry
BY DEF Heard, Extracted, Context, ConversationState

\* A turn may be followed by every node the router and the classifier name.
LEMMA RouteType ==
  ASSUME NEW s PROVE Route(s) \in InGraph
BY DEF Route, InGraph

LEMMA NodeOfType ==
  ASSUME NEW f PROVE NodeOf(f) \in InGraph
BY DEF NodeOf, InGraph

\* A node that ends in a conversation state leaves all three variables typed.
LEMMA ProceedType ==
  ASSUME TypeOK, NEW t \in Turns, NEW n \in Node, NEW s \in ConversationState,
         Proceed(t, n, s)
  PROVE  /\ node' \in [Turns -> Node]
         /\ state' \in [Turns -> ConversationState]
         /\ checkpoint' \in ConversationState
BY DEF Proceed, TypeOK

LEMMA FaultType ==
  ASSUME TypeOK, NEW t \in Turns, Fault(t) PROVE failed' \subseteq Turns
BY DEF TypeOK, Fault

-----------------------------------------------------------------------------
(* Type correctness.                                                       *)

\* A step that ends a node, and changes no more than the history, keeps TypeOK.
LEMMA ProceedTypeOK ==
  ASSUME TypeOK, NEW t \in Turns, NEW n \in Node, NEW s \in ConversationState,
         Proceed(t, n, s), UNCHANGED <<sent, ledger_entries, shown, unsent, crashes>>,
         drafted' \subseteq Turns, failed' \subseteq Turns
  PROVE  TypeOK'
<1>1. /\ node' \in [Turns -> Node]
      /\ state' \in [Turns -> ConversationState]
      /\ checkpoint' \in ConversationState
  BY ProceedType
<1>. QED
  BY <1>1 DEF TypeOK

LEMMA StartTypeOK ==
  ASSUME TypeOK, NEW t \in Turns, NEW m \in Messages, Start(t, m)
  PROVE  TypeOK'
<1>1. m.channel \in Channels
  BY ConversationAssumption
<1>2. Received(checkpoint, t, m.channel) \in ConversationState
  BY <1>1, ReceivedType DEF TypeOK
<1>3. "load_user_profile" \in Node
  BY DEF Node, InProgress, InGraph
<1>4. /\ node' \in [Turns -> Node]
      /\ state' \in [Turns -> ConversationState]
      /\ checkpoint' \in ConversationState
  BY <1>2, <1>3, ProceedType DEF Start
<1>. QED
  BY <1>4 DEF Start, TypeOK

LEMMA LoadUserProfileTypeOK ==
  ASSUME TypeOK, NEW t \in Turns, LoadUserProfile(t)
  PROVE  TypeOK'
<1>1. \A b \in BOOLEAN :
        [state[t] EXCEPT !.is_new_user = b] \in ConversationState
  BY DEF TypeOK, ConversationState
<1>2. failed' \subseteq Turns
  BY FaultType DEF LoadUserProfile, TypeOK
<1>3. PICK s \in ConversationState : Proceed(t, "input_guard", s)
  BY <1>1 DEF LoadUserProfile
<1>4. "input_guard" \in Node
  BY DEF Node, InProgress, InGraph
<1>. QED
  BY <1>2, <1>3, <1>4, ProceedTypeOK DEF LoadUserProfile, TypeOK

LEMMA RoutingTypeOK ==
  ASSUME TypeOK, NEW t \in Turns, InputGuard(t) \/ ClassifyIntent(t) \/ OtherNode(t)
  PROVE  TypeOK'
<1>1. state[t] \in ConversationState
  BY DEF TypeOK
<1>2. \A b \in BOOLEAN : [state[t] EXCEPT !.engaged = b] \in ConversationState
  BY <1>1 DEF ConversationState
<1>3. PICK n \in InProgress, s \in ConversationState : Proceed(t, n, s)
  <2>1. CASE InputGuard(t)
    BY <2>1, <1>1, RouteType DEF InputGuard, InProgress
  <2>2. CASE ClassifyIntent(t)
    BY <2>2, <1>1, NodeOfType DEF ClassifyIntent, InProgress
  <2>3. CASE OtherNode(t)
    BY <2>3, <1>1, <1>2 DEF OtherNode, InProgress
  <2>. QED
    BY <2>1, <2>2, <2>3
<1>4. UNCHANGED <<sent, ledger_entries, drafted, shown, unsent, failed, crashes>>
  BY DEF InputGuard, ClassifyIntent, OtherNode
<1>. QED
  BY <1>3, <1>4, ProceedTypeOK DEF TypeOK, Node

LEMMA ProposeTypeOK ==
  ASSUME TypeOK, NEW t \in Turns, NEW entry \in Entry, entry.by = t,
         NEW turns \in 0 .. MAX_CONFIRMATION_TURNS, Propose(t, entry, turns),
         UNCHANGED <<sent, ledger_entries, shown, unsent, failed, crashes>>
  PROVE  TypeOK'
<1>1. Proposing(state[t], entry, turns) \in ConversationState
  BY ProposingType DEF TypeOK
<1>2. "reply" \in Node
  BY DEF Node, InProgress
<1>. QED
  BY <1>1, <1>2, ProceedTypeOK DEF Propose, TypeOK

LEMMA LedgerExtractTypeOK ==
  ASSUME TypeOK, NEW t \in Turns, LedgerExtract(t)
  PROVE  TypeOK'
<1> DEFINE s == state[t]
           amended(a) == [by |-> t, words |-> Extracted(s), base |-> Context(s).by,
                          amount |-> a]
           drawn(a) == [by |-> t, words |-> Extracted(s), base |-> 0, amount |-> a]
<1>1. s \in ConversationState
  BY DEF TypeOK
<1>2. \A a \in Amounts : amended(a) \in Entry /\ drawn(a) \in Entry
  BY <1>1, ReadingTypes, TurnsAreNumbers, NoEntryType, ConversationAssumption
     DEF Entry, NoEntry
<1>3. {0, 1} \subseteq 0 .. MAX_CONFIRMATION_TURNS
  BY DEF MAX_CONFIRMATION_TURNS
<1>4. "reply" \in Node
  BY DEF Node, InProgress
<1>5. CASE \E a \in Amounts : Propose(t, amended(a), 1)
  BY <1>2, <1>3, <1>5, ProposeTypeOK DEF LedgerExtract
<1>6. CASE \E a \in Amounts : Propose(t, drawn(a), 0)
  BY <1>2, <1>3, <1>6, ProposeTypeOK DEF LedgerExtract
<1>7. CASE Proceed(t, "reply", Unclear(s)) /\ UNCHANGED drafted
  BY <1>1, <1>4, <1>7, ClearingTypes, ProceedTypeOK DEF LedgerExtract, TypeOK
<1>. QED
  BY <1>5, <1>6, <1>7 DEF LedgerExtract

\* The reply that is counted is one of the first three.
LEMMA LedgerConfirmTypeOK ==
  ASSUME TypeOK, NEW t \in Turns, LedgerConfirm(t)
  PROVE  TypeOK'
<1> DEFINE s == state[t]
           old == s.pending_ledger_entry
           turns == s.ledger_confirmation_turns + 1
           corrected(a) == [by |-> t, words |-> old.words, base |-> old.by, amount |-> a]
           asked == [s EXCEPT !.ledger_confirmation_turns = turns,
                              !.awaiting_confirmation = TRUE]
<1>1. s \in ConversationState /\ old \in Entry
  BY ReadingTypes DEF TypeOK
<1>2. \A a \in Amounts : corrected(a) \in Entry
  BY <1>1, TurnsAreNumbers, ConversationAssumption DEF Entry
<1>3. ~ turns > MAX_CONFIRMATION_TURNS => turns \in 0 .. MAX_CONFIRMATION_TURNS
  BY <1>1 DEF ConversationState, MAX_CONFIRMATION_TURNS
<1>4. turns \in 0 .. MAX_CONFIRMATION_TURNS => asked \in ConversationState
  BY <1>1 DEF ConversationState
<1>5. "reply" \in Node
  BY DEF Node, InProgress
<1>6. UNCHANGED <<sent, ledger_entries, shown, unsent, failed, crashes>>
  BY DEF LedgerConfirm
<1>7. CASE Proceed(t, "reply", Reset(s)) /\ UNCHANGED drafted
  BY <1>1, <1>5, <1>6, <1>7, ClearingTypes, ProceedTypeOK DEF TypeOK
<1>8. CASE Proceed(t, "reply", Declined(s)) /\ UNCHANGED drafted
  BY <1>1, <1>5, <1>6, <1>8, ClearingTypes, ProceedTypeOK DEF TypeOK
<1>9. CASE /\ turns \in 0 .. MAX_CONFIRMATION_TURNS
           /\ \E a \in Amounts : Propose(t, corrected(a), turns)
  BY <1>2, <1>6, <1>9, ProposeTypeOK
<1>10. CASE /\ turns \in 0 .. MAX_CONFIRMATION_TURNS
            /\ Proceed(t, "reply", asked) /\ UNCHANGED drafted
  BY <1>4, <1>5, <1>6, <1>10, ProceedTypeOK DEF TypeOK
<1>. QED
  BY <1>3, <1>7, <1>8, <1>9, <1>10 DEF LedgerConfirm

LEMMA SettlingTypeOK ==
  ASSUME TypeOK, NEW t \in Turns,
         LedgerConfirmFlow(t) \/ SaveRefuses(t) \/ SaveFails(t) \/ SaveReturns(t)
  PROVE  TypeOK'
<1>1. state[t] \in ConversationState
  BY DEF TypeOK
<1>2. [state[t] EXCEPT !.awaiting_confirmation = TRUE] \in ConversationState
  BY <1>1 DEF ConversationState
<1>3. PICK s \in ConversationState : Proceed(t, "reply", s)
  BY <1>1, <1>2, ClearingTypes DEF LedgerConfirmFlow, SaveRefuses, SaveFails, SaveReturns
<1>4. "reply" \in Node
  BY DEF Node, InProgress
<1>5. UNCHANGED <<sent, ledger_entries, drafted, shown, unsent, crashes>>
  BY DEF LedgerConfirmFlow, SaveRefuses, SaveFails, SaveReturns
<1>6. failed' \subseteq Turns
  BY FaultType DEF LedgerConfirmFlow, SaveRefuses, SaveFails, SaveReturns, TypeOK
<1>. QED
  BY <1>3, <1>4, <1>5, <1>6, ProceedTypeOK DEF TypeOK

LEMMA SaveCommitsTypeOK ==
  ASSUME TypeOK, NEW t \in Turns, SaveCommits(t)
  PROVE  TypeOK'
<1>1. [entry |-> state[t].pending_ledger_entry, turn |-> t] \in [entry : Entry, turn : Turns]
  BY ReadingTypes DEF TypeOK
<1>2. ledger_entries' \subseteq [entry : Entry, turn : Turns]
  BY <1>1 DEF SaveCommits, TypeOK
<1>3. node' \in [Turns -> Node]
  BY DEF SaveCommits, TypeOK, Node, InProgress, InGraph
<1>. QED
  BY <1>2, <1>3 DEF SaveCommits, TypeOK

LEMMA EndingTypeOK ==
  ASSUME TypeOK, NEW t \in Turns, GraphFails(t) \/ SaveRaises(t) \/ Reply(t)
  PROVE  TypeOK'
<1>1. /\ node' \in [Turns -> Node]
      /\ state' \in [Turns -> ConversationState]
  BY EmptyStateType DEF GraphFails, SaveRaises, Reply, TypeOK, Node
<1>2. failed' \subseteq Turns
  BY FaultType DEF GraphFails, SaveRaises, Reply, TypeOK
<1>3. shown' \subseteq Turns /\ unsent' \subseteq Turns
  <2>1. state[t].prompts \subseteq Turns /\ shown \subseteq Turns /\ unsent \subseteq Turns
    BY DEF TypeOK, ConversationState
  <2>. QED
    BY <2>1 DEF GraphFails, SaveRaises, Reply
<1>. QED
  BY <1>1, <1>2, <1>3 DEF GraphFails, SaveRaises, Reply, TypeOK

LEMMA CrashTypeOK ==
  ASSUME TypeOK, Crash
  PROVE  TypeOK'
<1>1. crashes' \in 0 .. MaxCrashes
  BY ConversationAssumption DEF Crash, TypeOK
<1>2. node' \in [Turns -> Node]
  BY DEF Crash, TypeOK, Node
<1>. QED
  BY <1>1, <1>2, EmptyStateType DEF Crash, TypeOK

LEMMA InitTypeOK == Init => TypeOK
<1>1. "idle" \in Node /\ 0 \in 0 .. MaxCrashes
  BY ConversationAssumption DEF Node
<1>. QED
  BY <1>1, EmptyStateType DEF Init, TypeOK

\* Every variable keeps its type; in particular no reply is counted beyond
\* MAX_CONFIRMATION_TURNS (ledger_confirm_node), whatever turns run side by side.
THEOREM TypeCorrect == Spec => []TypeOK
<1>1. Init => TypeOK
  BY InitTypeOK
<1>2. TypeOK /\ [Next]_vars => TypeOK'
  <2> SUFFICES ASSUME TypeOK, [Next]_vars PROVE TypeOK'
    OBVIOUS
  <2>1. ASSUME NEW t \in Turns, NEW m \in Messages, Start(t, m) PROVE TypeOK'
    BY <2>1, StartTypeOK
  <2>2. ASSUME NEW t \in Turns, RunTurn(t) PROVE TypeOK'
    BY <2>2, LoadUserProfileTypeOK, RoutingTypeOK, LedgerExtractTypeOK,
       LedgerConfirmTypeOK, SettlingTypeOK, SaveCommitsTypeOK, EndingTypeOK
       DEF RunTurn
  <2>3. CASE Crash
    BY <2>3, CrashTypeOK
  <2>4. CASE UNCHANGED vars
    BY <2>4 DEF vars, TypeOK
  <2>. QED
    BY <2>1, <2>2, <2>3, <2>4 DEF Next
<1>. QED
  BY <1>1, <1>2, PTL DEF Spec

-----------------------------------------------------------------------------
(* A user who types and taps.                                              *)

\* An entry some turn drafted, from its own words if it is a fresh one; and a
\* conversation state that holds no others.
Fine(e) == (e.by = 0 => e = NoEntry) /\ (e.base = 0 => e.words = e.by)

Sound(s) ==
  \A e \in {s.pending_ledger_entry, s.last_discussed, s.last_rejected} : Fine(e)

\* What TypistInv says of entries, state by state.
LEMMA SoundEverywhere ==
  ASSUME ExtractsOwnMessage, EntriesAreDrafted
  PROVE  /\ Sound(checkpoint) /\ \A t \in Turns : Sound(state[t])
         /\ \A r \in ledger_entries : Fine(r.entry)
<1>1. \A r \in ledger_entries : r.entry \in EntriesHeld
  BY DEF EntriesHeld
<1>2. \A s \in {checkpoint} \cup {state[t] : t \in Turns} :
        {s.pending_ledger_entry, s.last_discussed, s.last_rejected} \subseteq EntriesHeld
  BY DEF EntriesHeld
<1>3. /\ checkpoint \in {checkpoint} \cup {state[t] : t \in Turns}
      /\ \A u \in Turns : state[u] \in {checkpoint} \cup {state[t] : t \in Turns}
  OBVIOUS
<1>. QED
  BY <1>1, <1>2, <1>3 DEF ExtractsOwnMessage, EntriesAreDrafted, Sound, Fine

LEMMA SoundNext ==
  ASSUME Sound(checkpoint'), \A t \in Turns : Sound(state'[t]),
         \A r \in ledger_entries' : Fine(r.entry)
  PROVE  ExtractsOwnMessage' /\ EntriesAreDrafted'
<1>1. SUFFICES ASSUME NEW e \in EntriesHeld'
               PROVE  Fine(e)
  BY DEF ExtractsOwnMessage, EntriesAreDrafted, Fine
<1>2. \/ \E r \in ledger_entries' : e = r.entry
      \/ \E s \in {checkpoint'} \cup {state'[t] : t \in Turns} :
           e \in {s.pending_ledger_entry, s.last_discussed, s.last_rejected}
  BY DEF EntriesHeld
<1>. QED
  BY <1>1, <1>2 DEF Sound

LEMMA EmptyIsSound == Sound(EmptyState) /\ EmptyState.raw_input_transcript = 0
BY DEF Sound, Fine, EmptyState, NoEntry

\* What such a turn hears, extracts and chooses from is its own message.
LEMMA HearsItself ==
  ASSUME TypistInv, OnlyTypes, NEW t \in Turns, node[t] \in InProgress
  PROVE  /\ Heard(state[t]) = t /\ Extracted(state[t]) = t
         /\ Said(t) = sent[t].words
<1>1. /\ sent[t] \in Messages /\ state[t].raw_input_text = t
      /\ state[t].raw_input_transcript = 0
  BY DEF TypistInv, OwnWords
<1>2. sent[t].words # Silence
  BY <1>1, ConversationAssumption DEF OnlyTypes
<1>3. t # 0
  BY ConversationAssumption DEF Turns
<1>. QED
  BY <1>1, <1>2, <1>3 DEF Heard, Extracted, Said

\* A node of a turn ends: what must hold of the state it returns.
LEMMA ProceedTypist ==
  ASSUME TypistInv, TypeOK', NEW t \in Turns, node[t] \in InProgress,
         NEW n \in InProgress, NEW s,
         n = "ledger_confirm_flow" => sent[t].channel = "flow",
         Sound(s), s.raw_input_transcript = 0,
         s.raw_input_text = state[t].raw_input_text,
         s.last_message_type = state[t].last_message_type,
         Proceed(t, n, s), UNCHANGED <<sent, ledger_entries>>
  PROVE  TypistInv'
<1>1. state' = [state EXCEPT ![t] = s] /\ node' = [node EXCEPT ![t] = n] /\ checkpoint' = s
  BY DEF Proceed
<1>2. state \in [Turns -> ConversationState] /\ node \in [Turns -> Node]
  BY DEF TypistInv, TypeOK
<1>3. OwnWords' /\ FormsAreTapped'
  BY <1>1, <1>2 DEF TypistInv, OwnWords, FormsAreTapped, At
<1>4. ledger_entries \subseteq [entry : Entry, turn : Turns]
  BY DEF TypistInv, TypeOK
<1>5. (\A r \in ledger_entries : ~ At(r.turn, "idle"))'
  BY <1>1, <1>2, <1>4 DEF TypistInv, At, InProgress, InGraph
<1>6. ConsentGiven'
  BY DEF TypistInv, ConsentGiven, Consents
<1>7. ExtractsOwnMessage' /\ EntriesAreDrafted'
  <2>1. /\ \A u \in Turns : Sound(state[u])
        /\ \A r \in ledger_entries : Fine(r.entry)
    BY SoundEverywhere DEF TypistInv
  <2>2. \A u \in Turns : Sound(state'[u])
    BY <1>1, <1>2, <2>1
  <2>. QED
    BY <1>1, <2>1, <2>2, SoundNext
<1>. QED
  BY <1>3, <1>5, <1>6, <1>7 DEF TypistInv

\* A turn starts: its message is applied to the checkpoint.
LEMMA StartTypist ==
  ASSUME TypistInv, TypeOK', OnlyTypes, NEW t \in Turns, NEW m \in Messages, Start(t, m)
  PROVE  TypistInv'
<1> DEFINE s == Received(checkpoint, t, m.channel)
<1>1. /\ sent' = [sent EXCEPT ![t] = m] /\ node' = [node EXCEPT ![t] = "load_user_profile"]
      /\ state' = [state EXCEPT ![t] = s] /\ checkpoint' = s
      /\ ledger_entries' = ledger_entries /\ node[t] = "idle"
  BY DEF Start, Proceed, At
<1>2. /\ sent \in [Turns -> Messages \cup {NotSent}] /\ node \in [Turns -> Node]
      /\ state \in [Turns -> ConversationState] /\ checkpoint \in ConversationState
      /\ ledger_entries \subseteq [entry : Entry, turn : Turns]
  BY DEF TypistInv, TypeOK
<1>3. m.channel \in {"text", "chat", "flow"}
  BY DEF OnlyTypes
<1>4. /\ s.raw_input_text = t /\ s.last_message_type = m.channel
      /\ s.raw_input_transcript = checkpoint.raw_input_transcript
      /\ s.pending_ledger_entry = checkpoint.pending_ledger_entry
      /\ s.last_discussed = checkpoint.last_discussed
      /\ s.last_rejected = checkpoint.last_rejected
  BY <1>2, <1>3 DEF Received, ConversationState
<1>5. /\ Sound(checkpoint) /\ \A u \in Turns : Sound(state[u])
      /\ \A r \in ledger_entries : Fine(r.entry)
  BY SoundEverywhere DEF TypistInv
<1>6. Sound(s)
  BY <1>4, <1>5 DEF Sound
<1>7. OwnWords' /\ FormsAreTapped'
  <2>1. /\ checkpoint.raw_input_transcript = 0
        /\ \A u \in Turns : state[u].raw_input_transcript = 0
    BY DEF TypistInv, OwnWords
  <2>2. /\ sent'[t] = m /\ node'[t] = "load_user_profile" /\ state'[t] = s
        /\ \A u \in Turns \ {t} :
             sent'[u] = sent[u] /\ node'[u] = node[u] /\ state'[u] = state[u]
    BY <1>1, <1>2
  <2>3. OwnWords'
    BY <1>1, <1>4, <2>1, <2>2 DEF TypistInv, OwnWords
  <2>. QED
    BY <2>2, <2>3 DEF TypistInv, FormsAreTapped, At
<1>8. \A r \in ledger_entries : r.turn \in Turns /\ r.turn # t
  BY <1>1, <1>2 DEF TypistInv, At
<1>9. (\A r \in ledger_entries : ~ At(r.turn, "idle"))' /\ ConsentGiven'
  BY <1>1, <1>2, <1>8 DEF TypistInv, At, ConsentGiven, Consents
<1>10. ExtractsOwnMessage' /\ EntriesAreDrafted'
  <2>1. \A u \in Turns : Sound(state'[u])
    BY <1>1, <1>2, <1>5, <1>6
  <2>. QED
    BY <1>1, <1>5, <1>6, <2>1, SoundNext
<1>. QED
  BY <1>7, <1>9, <1>10 DEF TypistInv

\* Loading, guarding, classifying and the other features pass the entries on.
LEMMA RoutingTypist ==
  ASSUME TypistInv, TypeOK', OnlyTypes, NEW t \in Turns,
         LoadUserProfile(t) \/ InputGuard(t) \/ ClassifyIntent(t) \/ OtherNode(t)
  PROVE  TypistInv'
<1> DEFINE s0 == state[t]
<1>1. /\ s0 \in ConversationState /\ Sound(s0) /\ s0.raw_input_transcript = 0
  BY SoundEverywhere DEF TypistInv, TypeOK, OwnWords
<1>2. node[t] \in InProgress
  BY DEF LoadUserProfile, InputGuard, ClassifyIntent, OtherNode, At, InProgress, InGraph
<1>3. s0.last_message_type = sent[t].channel
  BY <1>2 DEF TypistInv, OwnWords
<1>4. PICK n, s :
        /\ n \in InProgress
        /\ Proceed(t, n, s)
        /\ n = "ledger_confirm_flow" => s0.last_message_type = "flow"
        /\ s = s0 \/ \E b \in BOOLEAN : \/ s = [s0 EXCEPT !.is_new_user = b]
                                      \/ s = [s0 EXCEPT !.engaged = b]
  <2>1. CASE LoadUserProfile(t)
    BY <2>1 DEF LoadUserProfile, InProgress, InGraph
  <2>2. CASE InputGuard(t)
    <3>1. Route(s0) = "ledger_confirm_flow" => s0.last_message_type = "flow"
      BY DEF Route
    <3>. QED
      BY <2>2, <3>1, RouteType DEF InputGuard, InProgress
  <2>3. CASE ClassifyIntent(t)
    <3>1. \A f : NodeOf(f) # "ledger_confirm_flow"
      BY DEF NodeOf
    <3>. QED
      BY <2>3, <3>1, NodeOfType DEF ClassifyIntent, InProgress
  <2>4. CASE OtherNode(t)
    BY <2>4 DEF OtherNode, InProgress
  <2>. QED
    BY <2>1, <2>2, <2>3, <2>4
<1>5. /\ Sound(s) /\ s.raw_input_transcript = 0
      /\ s.raw_input_text = s0.raw_input_text
      /\ s.last_message_type = s0.last_message_type
  BY <1>1, <1>4 DEF Sound, ConversationState
<1>6. UNCHANGED <<sent, ledger_entries>>
  BY DEF LoadUserProfile, InputGuard, ClassifyIntent, OtherNode
<1>. QED
  BY <1>2, <1>3, <1>4, <1>5, <1>6, ProceedTypist

\* The updates ledger_confirm and its form return to wait for another reply.
Counted(s, turns) ==
  [s EXCEPT !.ledger_confirmation_turns = turns, !.awaiting_confirmation = TRUE]

Waiting(s) == [s EXCEPT !.awaiting_confirmation = TRUE]

\* What an update of a ledger node leaves alone and what it may put in.
Keeps(s0, s) ==
  /\ Sound(s) /\ s.raw_input_transcript = 0
  /\ s.raw_input_text = s0.raw_input_text
  /\ s.last_message_type = s0.last_message_type

LEMMA UpdatesKeepWords ==
  ASSUME NEW s0 \in ConversationState, Sound(s0), s0.raw_input_transcript = 0
  PROVE  /\ \A entry, k : Fine(entry) => Keeps(s0, Proposing(s0, entry, k))
         /\ Keeps(s0, Unclear(s0)) /\ Keeps(s0, Reset(s0)) /\ Keeps(s0, Declined(s0))
         /\ \A turns : Keeps(s0, Counted(s0, turns))
         /\ Keeps(s0, Waiting(s0))
<1>0. Fine(NoEntry)
  BY DEF Fine, NoEntry
<1> USE <1>0 DEF ConversationState, Sound, Keeps
<1>1. ASSUME NEW entry, NEW k, Fine(entry)
      PROVE  Keeps(s0, Proposing(s0, entry, k))
  BY <1>1 DEF Proposing
<1>2. Keeps(s0, Unclear(s0))
  BY DEF Unclear
<1>3. Keeps(s0, Reset(s0))
  BY DEF Reset
<1>4. Keeps(s0, Declined(s0))
  BY DEF Declined, Reset
<1>5. ASSUME NEW turns PROVE Keeps(s0, Counted(s0, turns))
  BY DEF Counted
<1>6. Keeps(s0, Waiting(s0))
  BY DEF Waiting
<1>. QED
  BY <1>1, <1>2, <1>3, <1>4, <1>5, <1>6

\* Every ledger node that writes nothing ends in one of those updates.
LEMMA LedgerTypist ==
  ASSUME TypistInv, TypeOK', OnlyTypes, NEW t \in Turns,
         \/ LedgerExtract(t) \/ LedgerConfirm(t) \/ LedgerConfirmFlow(t)
         \/ SaveRefuses(t) \/ SaveFails(t) \/ SaveReturns(t)
  PROVE  TypistInv'
<1> DEFINE s0 == state[t]
           old == s0.pending_ledger_entry
           turns == s0.ledger_confirmation_turns + 1
           amended(a) == [by |-> t, words |-> Extracted(s0), base |-> Context(s0).by,
                          amount |-> a]
           drawn(a) == [by |-> t, words |-> Extracted(s0), base |-> 0, amount |-> a]
           corrected(a) == [by |-> t, words |-> old.words, base |-> old.by, amount |-> a]
<1>1. /\ s0 \in ConversationState /\ Sound(s0) /\ s0.raw_input_transcript = 0
  BY SoundEverywhere DEF TypistInv, TypeOK, OwnWords
<1>2. node[t] \in InProgress /\ "reply" \in InProgress
  BY DEF LedgerExtract, LedgerConfirm, LedgerConfirmFlow, SaveRefuses, SaveFails,
         SaveReturns, Saving, At, InProgress, InGraph
<1>3. Extracted(s0) = t
  BY <1>2, HearsItself
<1>4. UNCHANGED <<sent, ledger_entries>>
  BY DEF LedgerExtract, LedgerConfirm, LedgerConfirmFlow, SaveRefuses, SaveFails, SaveReturns
<1>5. /\ Fine(NoEntry) /\ \A a : Fine(drawn(a))
      /\ Context(s0) # NoEntry => \A a : Fine(amended(a))
      /\ old # NoEntry => \A a : Fine(corrected(a))
  <2>1. t # 0
    BY ConversationAssumption DEF Turns
  <2>2. Fine(Context(s0)) /\ Fine(old)
    BY <1>1 DEF Context, Sound
  <2>. QED
    BY <1>3, <2>1, <2>2 DEF Fine, NoEntry
<1>6. /\ \A entry, k : Fine(entry) => Keeps(s0, Proposing(s0, entry, k))
      /\ Keeps(s0, Unclear(s0)) /\ Keeps(s0, Reset(s0)) /\ Keeps(s0, Declined(s0))
      /\ \A n : Keeps(s0, Counted(s0, n))
      /\ Keeps(s0, Waiting(s0))
  BY <1>1, UpdatesKeepWords
<1>7. \E s : Proceed(t, "reply", s) /\ Keeps(s0, s)
  <2>1. CASE LedgerExtract(t)
    BY <1>5, <1>6, <2>1 DEF LedgerExtract, Propose
  <2>2. CASE LedgerConfirm(t)
    <3>1. Keeps(s0, [s0 EXCEPT !.ledger_confirmation_turns = turns,
                               !.awaiting_confirmation = TRUE])
      BY <1>6 DEF Counted
    <3>. HIDE DEF corrected
    <3>2. \/ Proceed(t, "reply", Reset(s0))
          \/ Proceed(t, "reply", Declined(s0))
          \/ \E a : old # NoEntry /\ Proceed(t, "reply", Proposing(s0, corrected(a), turns))
          \/ Proceed(t, "reply", [s0 EXCEPT !.ledger_confirmation_turns = turns,
                                            !.awaiting_confirmation = TRUE])
      BY <2>2 DEF LedgerConfirm, Propose, corrected
    <3>. QED
      BY <1>5, <1>6, <3>1, <3>2
  <2>3. CASE LedgerConfirmFlow(t)
    <3>1. Keeps(s0, [s0 EXCEPT !.awaiting_confirmation = TRUE])
      BY <1>6 DEF Waiting
    <3>. QED
      BY <1>6, <2>3, <3>1 DEF LedgerConfirmFlow
  <2>4. CASE SaveRefuses(t) \/ SaveFails(t) \/ SaveReturns(t)
    BY <1>6, <2>4 DEF SaveRefuses, SaveFails, SaveReturns
  <2>. QED
    BY <2>1, <2>2, <2>3, <2>4
<1>8. PICK s : Proceed(t, "reply", s) /\ Keeps(s0, s)
  BY <1>7
<1>9. state[t].last_message_type = sent[t].channel
  BY <1>2 DEF TypistInv, OwnWords
<1>. QED
  BY <1>2, <1>4, <1>8, <1>9, ProceedTypist DEF Keeps

\* The one step that writes a row: its turn's own message says yes, or taps save.
LEMMA SaveCommitsTypist ==
  ASSUME TypistInv, TypeOK', OnlyTypes, NEW t \in Turns, SaveCommits(t)
  PROVE  TypistInv'
<1> DEFINE row == [entry |-> state[t].pending_ledger_entry, turn |-> t]
<1>1. /\ ledger_entries' = ledger_entries \cup {row}
      /\ node' = [node EXCEPT ![t] = "committed"]
      /\ sent' = sent /\ state' = state /\ checkpoint' = checkpoint
  BY DEF SaveCommits
<1>2. /\ node \in [Turns -> Node] /\ ledger_entries \subseteq [entry : Entry, turn : Turns]
  BY DEF TypistInv, TypeOK
<1>3. node[t] \in InProgress /\ "committed" \in InProgress
  BY DEF SaveCommits, Saving, At, InProgress, InGraph
<1>4. Consents(sent[t])
  <2>1. Heard(state[t]) = t /\ Said(t) = sent[t].words /\ state[t].raw_input_text = t
    BY <1>3, HearsItself DEF TypistInv, OwnWords
  <2>2. CASE At(t, "ledger_confirm") /\ Accepts(state[t])
    BY <2>1, <2>2 DEF Accepts, Is, Consents
  <2>3. CASE At(t, "ledger_confirm_flow") /\ Chose(state[t], "confirm_save")
    BY <2>1, <2>3 DEF TypistInv, FormsAreTapped, Chose, Consents
  <2>. QED
    BY <2>2, <2>3 DEF SaveCommits, Saving
<1>5. OwnWords' /\ FormsAreTapped'
  BY <1>1, <1>2, <1>3 DEF TypistInv, OwnWords, FormsAreTapped, At
<1>6. (\A r \in ledger_entries : ~ At(r.turn, "idle"))'
  BY <1>1, <1>2 DEF TypistInv, At
<1>7. ConsentGiven'
  BY <1>1, <1>4 DEF TypistInv, ConsentGiven, Consents
<1>8. ExtractsOwnMessage' /\ EntriesAreDrafted'
  <2>1. /\ Sound(checkpoint) /\ \A u \in Turns : Sound(state[u])
        /\ \A r \in ledger_entries : Fine(r.entry)
    BY SoundEverywhere DEF TypistInv
  <2>2. Fine(row.entry)
    BY <2>1 DEF Sound
  <2>. QED
    BY <1>1, <2>1, <2>2, SoundNext
<1>. QED
  BY <1>5, <1>6, <1>7, <1>8 DEF TypistInv

\* A turn that ends, and a crash that ends them all, forgets what it held.
LEMMA EndingTypist ==
  ASSUME TypistInv, TypeOK', NEW ending \in SUBSET Turns,
         \A u \in ending : node'[u] \in {"done", "lost"} /\ state'[u] = EmptyState,
         \A u \in Turns \ ending :
           /\ node'[u] = node[u]
           /\ state'[u] = state[u] \/ (state'[u] = EmptyState /\ node[u] \notin InProgress),
         checkpoint' \in {checkpoint, EmptyState}, UNCHANGED <<sent, ledger_entries>>
  PROVE  TypistInv'
<1>1. /\ Sound(checkpoint) /\ \A u \in Turns : Sound(state[u])
      /\ \A r \in ledger_entries : Fine(r.entry)
  BY SoundEverywhere DEF TypistInv
<1>2. \A u \in Turns : Sound(state'[u]) /\ state'[u].raw_input_transcript = 0
  BY <1>1, EmptyIsSound DEF TypistInv, OwnWords
<1>3. Sound(checkpoint') /\ checkpoint'.raw_input_transcript = 0
  BY <1>1, EmptyIsSound DEF TypistInv, OwnWords
<1>4. \A u \in Turns : node'[u] \in InProgress =>
        u \notin ending /\ node'[u] = node[u] /\ state'[u] = state[u]
  BY DEF InProgress, InGraph
<1>5. OwnWords' /\ FormsAreTapped'
  <2>1. OwnWords'
    BY <1>2, <1>3, <1>4 DEF TypistInv, OwnWords
  <2>2. "ledger_confirm_flow" \in InProgress
    BY DEF InProgress, InGraph
  <2>. QED
    BY <1>4, <2>1, <2>2 DEF TypistInv, FormsAreTapped, At
<1>6. ledger_entries \subseteq [entry : Entry, turn : Turns]
  BY DEF TypistInv, TypeOK
<1>7. (\A r \in ledger_entries : ~ At(r.turn, "idle"))' /\ ConsentGiven'
  BY <1>6 DEF TypistInv, At, ConsentGiven, Consents
<1>8. ExtractsOwnMessage' /\ EntriesAreDrafted'
  BY <1>1, <1>2, <1>3, SoundNext
<1>. QED
  BY <1>5, <1>7, <1>8 DEF TypistInv

LEMMA StepsTypist ==
  ASSUME TypistInv, TypeOK', OnlyTypes, [Next]_vars
  PROVE  TypistInv'
<1>1. ASSUME NEW t \in Turns, NEW m \in Messages, Start(t, m) PROVE TypistInv'
  BY <1>1, StartTypist
<1>2. ASSUME NEW t \in Turns, RunTurn(t) PROVE TypistInv'
  <2>1. CASE LoadUserProfile(t) \/ InputGuard(t) \/ ClassifyIntent(t) \/ OtherNode(t)
    BY <2>1, RoutingTypist
  <2>2. CASE \/ LedgerExtract(t) \/ LedgerConfirm(t) \/ LedgerConfirmFlow(t)
             \/ SaveRefuses(t) \/ SaveFails(t) \/ SaveReturns(t)
    BY <2>2, LedgerTypist
  <2>3. CASE SaveCommits(t)
    BY <2>3, SaveCommitsTypist
  <2>4. CASE GraphFails(t) \/ SaveRaises(t) \/ Reply(t)
    <3>1. /\ node' = [node EXCEPT ![t] = "done"]
          /\ state' = [state EXCEPT ![t] = EmptyState]
          /\ UNCHANGED <<checkpoint, sent, ledger_entries>>
      BY <2>4 DEF GraphFails, SaveRaises, Reply
    <3>2. node \in [Turns -> Node] /\ state \in [Turns -> ConversationState]
      BY DEF TypistInv, TypeOK
    <3>. QED
      BY <3>1, <3>2, EndingTypist, {t} \in SUBSET Turns
  <2>. QED
    BY <1>2, <2>1, <2>2, <2>3, <2>4 DEF RunTurn
<1>3. CASE Crash
  <2> DEFINE running == {u \in Turns : node[u] \in InProgress}
  <2>1. /\ \A u \in running : node'[u] = "lost" /\ state'[u] = EmptyState
        /\ \A u \in Turns \ running : node'[u] = node[u] /\ state'[u] = EmptyState
        /\ checkpoint' = EmptyState /\ UNCHANGED <<sent, ledger_entries>>
    BY <1>3 DEF Crash
  <2>. QED
    BY <2>1, EndingTypist
<1>4. CASE UNCHANGED vars
  BY <1>4 DEF vars, TypistInv, TypeOK, OwnWords, FormsAreTapped, EntriesAreDrafted,
     EntriesHeld, At, ConsentGiven, Consents, ExtractsOwnMessage
<1>. QED
  BY <1>1, <1>2, <1>3, <1>4 DEF Next

\* For a user who types and taps, whatever they send, however many turns run
\* side by side, and whatever the model guesses, fails or forgets in a crash: a
\* turn hears and extracts its own message, forms are answered by taps, and every
\* entry anywhere was drafted by a turn, from its own words if it is a fresh one.
THEOREM TypistInvHolds ==
  ASSUME OnlyTypes
  PROVE  Spec => []TypistInv
<1>1. Init => TypistInv
  <2> SUFFICES ASSUME Init PROVE TypistInv
    OBVIOUS
  <2>1. TypeOK
    BY InitTypeOK
  <2>2. OwnWords /\ FormsAreTapped
    BY EmptyIsSound DEF Init, OwnWords, FormsAreTapped, At, InProgress, InGraph
  <2>3. EntriesHeld \subseteq {NoEntry}
    BY DEF Init, EntriesHeld, EmptyState
  <2>. QED
    BY <2>1, <2>2, <2>3 DEF Init, TypistInv, EntriesAreDrafted, ConsentGiven,
       ExtractsOwnMessage, NoEntry
<1>2. TypistInv /\ TypeOK' /\ [Next]_vars => TypistInv'
  BY StepsTypist
<1>3. Spec => []TypeOK
  BY TypeCorrect
<1>. QED
  BY <1>1, <1>2, <1>3, PTL DEF Spec

\* A user who types and taps has no row written but by a message of their own
\* that says yes or taps save (ledger_confirm_node, ledger_confirm_flow_node),
\* however many of their messages are answered at once.
THEOREM ConsentGivenHolds ==
  ASSUME OnlyTypes
  PROVE  Spec => []ConsentGiven
<1>1. TypistInv => ConsentGiven
  BY DEF TypistInv
<1>. QED
  BY <1>1, TypistInvHolds, PTL

\* For the same user no fresh entry is made of the words of an earlier message
\* (ledger_extract_node), in the checkpoint, in any turn or in the database.
THEOREM ExtractsOwnMessageHolds ==
  ASSUME OnlyTypes
  PROVE  Spec => []ExtractsOwnMessage
<1>1. TypistInv => ExtractsOwnMessage
  BY DEF TypistInv
<1>. QED
  BY <1>1, TypistInvHolds, PTL
=============================================================================
