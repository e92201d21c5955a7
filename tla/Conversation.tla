---------------------------- MODULE Conversation ----------------------------
(***************************************************************************)
(* The ledger conversation of one registered phone: the LangGraph state    *)
(* machine of services/orchestrator on one thread_id, from a message to    *)
(* the rows of ledger_entries.  A turn is one graph.ainvoke: it starts     *)
(* from the thread's checkpoint with the message applied, works on a copy  *)
(* of its own, and writes the copy back as the newest checkpoint after     *)
(* every node.  Checkpoints live in the process (MemorySaver); the ledger  *)
(* lives in the database.  Two messages in quick succession are two turns  *)
(* side by side.                                                           *)
(*                                                                         *)
(* What a message says is a member of Words; Means(w) are the facts about  *)
(* it the code branches on.  A fragment of conversation state that holds   *)
(* words (raw_input_text, ...) is represented by the number of the turn    *)
(* whose message put them there, 0 for none.                               *)
(***************************************************************************)
EXTENDS Integers, FiniteSets

CONSTANTS
  Words, Silence,   \* what messages say; Silence: no text, empty transcript
  Means,            \* Means[w]: the traits of w, a subset of Traits
  Keyword,          \* Keyword[w]: the feature the keyword router gives w
  Guess,            \* Guess[w]: the features the model may take w for
  Amounts,          \* what the amounts of an extracted entry may be
  Messages,         \* the messages this user may send
  MaxTurns,         \* bound: messages sent
  MaxInFlight,      \* bound: turns side by side; 1: the user awaits replies
  MaxFaults,        \* bound: turns that meet an error of any kind
  MaxCrashes        \* bound: process crashes

\* text, flow (a tapped form), audio and image come in through the webhook,
\* chat and voice through the web API.
Channels == {"text", "chat", "flow", "audio", "voice", "image"}

Traits == {
  "affirmative", "negative",           \* AFFIRMATIVE, NEGATIVE
  "digits", "wrong",                   \* _looks_like_correction; "ভুল হয়েছে"
  "transaction", "simple_confirm",     \* txn_indicators, is_simple_confirm
  "blocked",                           \* evaluate_input answers by itself
  "item", "followup",                  \* RURAL_ITEM_PATTERNS, context_words
  "choice", "confirm_save", "discard"} \* confirmation_choice of the form

\* excessive: a number _validate_amount refuses; garbled: not a number, which the
\* prompt shows as it is for the kinds it has no wording for (KISTI, WAGES, ...).
AmountKinds == {"good", "excessive", "garbled"}

Features == {"LEDGER", "LEDGER_REPORT", "MARKET", "PRICING", "NEGOTIATION",
             "PRICE_CHAT", "UPGRADE", "IDLE"}

Turns == 1 .. MaxTurns
TurnOrNone == 0 .. MaxTurns

ASSUME ConversationAssumption ==
  /\ Silence \in Words /\ Means \in [Words -> SUBSET Traits]
  /\ Means[Silence] = {}
  /\ Keyword \in [Words -> Features \cup {"none"}]
  /\ Guess \in [Words -> SUBSET Features]
  /\ Amounts \subseteq AmountKinds /\ "good" \in Amounts
  /\ Messages \subseteq [channel : Channels, words : Words]
  /\ \A m \in Messages :
       m.words = Silence => m.channel \in {"audio", "image"}
  /\ {MaxTurns, MaxInFlight, MaxFaults, MaxCrashes} \subseteq Nat

\* A pending ledger entry: drafted in turn `by` from the words of turn `words`,
\* or by changing the entry drafted in turn `base` (0: a fresh extraction).
\* amount: the first of its amounts that is not good, if one is not.
Entry == [by : TurnOrNone, words : TurnOrNone, base : TurnOrNone, amount : AmountKinds]
NoEntry == [by |-> 0, words |-> 0, base |-> 0, amount |-> "good"]

MAX_CONFIRMATION_TURNS == 3

\* ConversationState, as far as the ledger goes.  engaged: awaiting_negotiation
\* or awaiting_price_chat; prompts: the entries outbound_messages asks about.
ConversationState ==
  [raw_input_text : TurnOrNone, raw_input_transcript : TurnOrNone,
   last_message_type : Channels, is_new_user : BOOLEAN, engaged : BOOLEAN,
   pending_ledger_entry : Entry, awaiting_confirmation : BOOLEAN,
   ledger_confirmation_turns : 0 .. MAX_CONFIRMATION_TURNS,
   last_discussed : Entry, last_rejected : Entry, prompts : SUBSET Turns]

EmptyState ==
  [raw_input_text |-> 0, raw_input_transcript |-> 0,
   last_message_type |-> "text", is_new_user |-> FALSE, engaged |-> FALSE,
   pending_ledger_entry |-> NoEntry, awaiting_confirmation |-> FALSE,
   ledger_confirmation_turns |-> 0,
   last_discussed |-> NoEntry, last_rejected |-> NoEntry, prompts |-> {}]

VARIABLES
  sent,            \* sent[t]: the message of turn t, or NotSent
  node,            \* node[t]: the graph node turn t is about to run
  state,           \* state[t]: turn t's own copy of the conversation state
  checkpoint,      \* the newest checkpoint of the thread
  ledger_entries,  \* rows: the entry written and the turn that wrote it
  drafted,         \* history: turns that drafted an entry
  shown,           \* history: entries whose confirmation prompt was sent
  unsent,          \* history: entries whose prompt failed to be sent, once at least
  failed,          \* history: turns that met an error
  crashes

vars == <<sent, node, state, checkpoint, ledger_entries, drafted, shown, unsent,
          failed, crashes>>

NotSent == [channel |-> "text", words |-> Silence]   \* no message: text is never silent

InGraph == {"load_user_profile", "input_guard", "onboarding", "classify_intent",
            "ledger", "ledger_confirm", "ledger_confirm_flow", "committed",
            "negotiation", "other"}
InProgress == InGraph \cup {"reply"}
Node == InProgress \cup {"idle", "done", "lost"}

Init ==
  /\ sent = [t \in Turns |-> NotSent]
  /\ node = [t \in Turns |-> "idle"]
  /\ state = [t \in Turns |-> EmptyState]
  /\ checkpoint = EmptyState
  /\ ledger_entries = {} /\ drafted = {} /\ shown = {} /\ unsent = {}
  /\ failed = {} /\ crashes = 0

-----------------------------------------------------------------------------
(* Reading the conversation state.                                         *)

Said(i) == IF i = 0 THEN Silence ELSE sent[i].words

\* raw_input_text or raw_input_transcript: guard, router and confirmation.
Heard(s) ==
  IF Said(s.raw_input_text) # Silence
    THEN s.raw_input_text ELSE s.raw_input_transcript

\* Deliberately wrong variant: the entry under discussion is extracted again.
ExtractedAgain(s) ==
  IF s.last_discussed.words # 0 THEN s.last_discussed.words ELSE s.raw_input_text

\* raw_input_transcript or raw_input_text: extraction.
Extracted(s) ==
  IF Said(s.raw_input_transcript) # Silence
    THEN s.raw_input_transcript ELSE s.raw_input_text

Is(s, trait) == trait \in Means[Said(Heard(s))]

\* last_rejected_ledger_entry or last_discussed_ledger_entry
Context(s) == IF s.last_rejected # NoEntry THEN s.last_rejected ELSE s.last_discussed

\* The payload of a form is read from raw_input_text, whoever wrote it there.
Chose(s, choice) == choice \in Means[Said(s.raw_input_text)]

\* _route_after_profile_load.  The branch for a new transaction also clears the
\* pending entry, in a copy of the state that the graph throws away.
Route(s) ==
  IF s.is_new_user THEN "onboarding"
  ELSE IF s.awaiting_confirmation
    THEN IF Is(s, "transaction") /\ ~ Is(s, "simple_confirm") THEN "classify_intent"
         ELSE IF s.last_message_type = "flow" /\ Chose(s, "choice")
           THEN "ledger_confirm_flow" ELSE "ledger_confirm"
  ELSE IF s.engaged THEN "negotiation"
  ELSE IF s.last_message_type = "image" THEN "other"
  ELSE "classify_intent"

\* The features classify_intent may answer: a keyword decides, then a number
\* said in the context of an earlier entry, then the model, whose failures
\* all read as IDLE.
Classes(s) ==
  LET w == Said(Heard(s)) IN
  IF Keyword[w] # "none" THEN {Keyword[w]}
  ELSE IF {"digits", "followup"} \subseteq Means[w] /\ Context(s) # NoEntry
    THEN {"LEDGER"}
  ELSE IF w = Silence THEN {"IDLE"} ELSE Guess[w] \cup {"IDLE"}

NodeOf(feature) ==
  CASE feature = "LEDGER" -> "ledger"
    [] feature \in {"NEGOTIATION", "PRICE_CHAT"} -> "negotiation"
    [] OTHER -> "other"

-----------------------------------------------------------------------------
(* Updates the nodes return.                                               *)

\* A turn's input overwrites the keys it brings and leaves the others.
Received(s, t, channel) ==
  [s EXCEPT
    !.last_message_type = channel,
    !.raw_input_text =
       IF channel \in {"text", "chat", "flow", "voice"} THEN t ELSE @,
    !.raw_input_transcript = IF channel \in {"audio", "voice"} THEN t ELSE @]

\* Deliberately wrong variants: the entry is changed without asking again, and
\* the reply is counted twice.
ProposingSilently(s, entry, turns) ==
  [s EXCEPT !.pending_ledger_entry = entry, !.last_discussed = entry,
            !.awaiting_confirmation = TRUE, !.ledger_confirmation_turns = turns]

ProposingLate(s, entry, turns) ==
  [s EXCEPT !.pending_ledger_entry = entry, !.last_discussed = entry,
            !.awaiting_confirmation = TRUE, !.ledger_confirmation_turns = turns + 1,
            !.prompts = @ \cup {entry.by}]

\* An entry is put to the user for confirmation.
Proposing(s, entry, turns) ==
  [s EXCEPT !.pending_ledger_entry = entry, !.last_discussed = entry,
            !.awaiting_confirmation = TRUE, !.ledger_confirmation_turns = turns,
            !.prompts = @ \cup {entry.by}]

\* ledger_extract_node asks for clarification.
Unclear(s) ==
  [s EXCEPT !.pending_ledger_entry = NoEntry, !.awaiting_confirmation = FALSE]

\* _reset_with_message, and what _save returns.
Reset(s) ==
  [s EXCEPT !.pending_ledger_entry = NoEntry, !.awaiting_confirmation = FALSE,
            !.ledger_confirmation_turns = 0]

\* Deliberately wrong variant: the declined entry stays pending.
DeclinedOnly(s) ==
  [s EXCEPT !.last_rejected = s.pending_ledger_entry,
            !.last_discussed = s.pending_ledger_entry]

Declined(s) ==
  [Reset(s) EXCEPT !.last_rejected = s.pending_ledger_entry,
                   !.last_discussed = s.pending_ledger_entry]

At(t, n) == node[t] = n

\* A node ends: the turn moves on and its copy becomes the newest checkpoint.
Proceed(t, next, s) ==
  /\ node' = [node EXCEPT ![t] = next]
  /\ state' = [state EXCEPT ![t] = s]
  /\ checkpoint' = s

Fault(t) ==
  /\ t \in failed \/ Cardinality(failed) < MaxFaults
  /\ failed' = failed \cup {t}

-----------------------------------------------------------------------------
(* A turn, node by node.                                                   *)

\* ainvoke applies the message to the newest checkpoint.
Start(t, m) ==
  /\ At(t, "idle")
  /\ t > 1 => ~ At(t - 1, "idle")
  /\ Cardinality({u \in Turns : node[u] \in InProgress}) < MaxInFlight
  /\ sent' = [sent EXCEPT ![t] = m]
  /\ Proceed(t, "load_user_profile", Received(checkpoint, t, m.channel))
  /\ UNCHANGED <<ledger_entries, drafted, shown, unsent, failed, crashes>>

\* A database error makes a registered user look new for this turn.
LoadUserProfile(t) ==
  /\ At(t, "load_user_profile")
  /\ \/ /\ Proceed(t, "input_guard", [state[t] EXCEPT !.is_new_user = FALSE])
        /\ UNCHANGED failed
     \/ /\ Proceed(t, "input_guard", [state[t] EXCEPT !.is_new_user = TRUE])
        /\ Fault(t)
  /\ UNCHANGED <<sent, ledger_entries, drafted, shown, unsent, crashes>>

\* Spam, injections and small talk are answered here; forms are not looked at.
InputGuard(t) ==
  /\ At(t, "input_guard")
  /\ Proceed(t, IF state[t].last_message_type # "flow" /\ Is(state[t], "blocked")
                  THEN "reply" ELSE Route(state[t]), state[t])
  /\ UNCHANGED <<sent, ledger_entries, drafted, shown, unsent, failed, crashes>>

ClassifyIntent(t) ==
  /\ At(t, "classify_intent")
  /\ \E f \in Classes(state[t]) : Proceed(t, NodeOf(f), state[t])
  /\ UNCHANGED <<sent, ledger_entries, drafted, shown, unsent, failed, crashes>>

Propose(t, entry, turns) ==
  /\ Proceed(t, "reply", Proposing(state[t], entry, turns))
  /\ drafted' = drafted \cup {t}

\* An amount without an item continues the entry last rejected or discussed;
\* anything else is extracted, or not understood.
LedgerExtract(t) ==
  LET s == state[t]
      traits == Means[Said(Extracted(s))]
  IN
  /\ At(t, "ledger")
  /\ IF "digits" \in traits /\ "item" \notin traits /\ Context(s) # NoEntry
       THEN \E a \in Amounts \ {"garbled"} :
              Propose(t, [by |-> t, words |-> Extracted(s), base |-> Context(s).by,
                          amount |-> a], 1)
       ELSE \/ \E a \in Amounts :
                 Propose(t, [by |-> t, words |-> Extracted(s), base |-> 0, amount |-> a], 0)
            \/ Proceed(t, "reply", Unclear(s)) /\ UNCHANGED drafted
  /\ UNCHANGED <<sent, ledger_entries, shown, unsent, failed, crashes>>

\* Deliberately wrong variant: what is not a no is a yes.
AcceptsUnlessNo(s) ==
  s.pending_ledger_entry # NoEntry /\ s.ledger_confirmation_turns < MAX_CONFIRMATION_TURNS
    /\ ~ Is(s, "negative")

\* Deliberately wrong variant: the last reply that may save is taken for one too many.
AcceptsEarly(s) ==
  s.pending_ledger_entry # NoEntry /\ s.ledger_confirmation_turns + 1 < MAX_CONFIRMATION_TURNS
    /\ Is(s, "affirmative")

\* Where ledger_confirm_node decides to call _save.
Accepts(s) ==
  s.pending_ledger_entry # NoEntry /\ s.ledger_confirmation_turns < MAX_CONFIRMATION_TURNS
    /\ Is(s, "affirmative")

Saving(t) ==
  \/ At(t, "ledger_confirm") /\ Accepts(state[t])
  \/ /\ At(t, "ledger_confirm_flow")
     /\ state[t].pending_ledger_entry # NoEntry
     /\ Chose(state[t], "confirm_save")

\* The turn's node, as ledger_confirm_node goes through its cases.
LedgerConfirm(t) ==
  LET s == state[t]
      old == s.pending_ledger_entry
      turns == s.ledger_confirmation_turns + 1
      amends == Is(s, "digits") \/ Is(s, "wrong")
  IN
  /\ At(t, "ledger_confirm") /\ ~ Accepts(s)
  /\ IF old = NoEntry \/ turns > MAX_CONFIRMATION_TURNS
       THEN Proceed(t, "reply", Reset(s)) /\ UNCHANGED drafted
     ELSE IF Is(s, "negative") /\ ~ Is(s, "digits")
       THEN Proceed(t, "reply", Declined(s)) /\ UNCHANGED drafted
     ELSE IF amends
       THEN \/ \E a \in Amounts :
                 Propose(t, [by |-> t, words |-> old.words, base |-> old.by,
                             amount |-> a], turns)
            \/ Proceed(t, "reply", Reset(s)) /\ UNCHANGED drafted
     ELSE /\ Proceed(t, "reply", [s EXCEPT !.ledger_confirmation_turns = turns,
                                           !.awaiting_confirmation = TRUE])
          /\ UNCHANGED drafted
  /\ UNCHANGED <<sent, ledger_entries, shown, unsent, failed, crashes>>

\* Discard; the other answers leave the entry waiting for another reply.
LedgerConfirmFlow(t) ==
  LET s == state[t] IN
  /\ At(t, "ledger_confirm_flow") /\ ~ Saving(t)
  /\ Proceed(t, "reply",
       IF s.pending_ledger_entry = NoEntry \/ Chose(s, "discard")
         THEN Reset(s) ELSE [s EXCEPT !.awaiting_confirmation = TRUE])
  /\ UNCHANGED <<sent, ledger_entries, drafted, shown, unsent, failed, crashes>>

AmountIs(t, kind) == state[t].pending_ledger_entry.amount = kind

\* _save refuses an amount out of range.
SaveRefuses(t) ==
  /\ Saving(t) /\ AmountIs(t, "excessive")
  /\ Proceed(t, "reply", Reset(state[t]))
  /\ UNCHANGED <<sent, ledger_entries, drafted, shown, unsent, failed, crashes>>

\* float() raises on an amount that is none, before the try of _save: the turn ends in
\* an apology, and the entry stays pending, for the next yes to fail on it.
SaveRaises(t) ==
  /\ Saving(t) /\ AmountIs(t, "garbled")
  /\ node' = [node EXCEPT ![t] = "done"]
  /\ state' = [state EXCEPT ![t] = EmptyState]
  /\ UNCHANGED <<sent, checkpoint, ledger_entries, drafted, shown, unsent, failed, crashes>>

\* The transaction fails: the entry is put aside with a message.
SaveFails(t) ==
  /\ Saving(t) /\ AmountIs(t, "good") /\ Fault(t)
  /\ Proceed(t, "reply", Reset(state[t]))
  /\ UNCHANGED <<sent, ledger_entries, drafted, shown, unsent, crashes>>

\* The rows are committed before the graph hears of it.
SaveCommits(t) ==
  /\ Saving(t) /\ AmountIs(t, "good")
  /\ ledger_entries' =
       ledger_entries \cup {[entry |-> state[t].pending_ledger_entry, turn |-> t]}
  /\ node' = [node EXCEPT ![t] = "committed"]
  /\ UNCHANGED <<sent, state, checkpoint, drafted, shown, unsent, failed, crashes>>

\* Deliberately wrong variant: _save forgets to clear the pending entry.
SaveReturnsPending(t) ==
  /\ At(t, "committed")
  /\ Proceed(t, "reply", state[t])
  /\ UNCHANGED <<sent, ledger_entries, drafted, shown, unsent, failed, crashes>>

\* _save returns, or takes a lost answer to the commit for a failure.
SaveReturns(t) ==
  /\ At(t, "committed")
  /\ Proceed(t, "reply", Reset(state[t]))
  /\ UNCHANGED <<sent, ledger_entries, drafted, shown, unsent, failed, crashes>>

\* Onboarding, reports, market, prices, catalog and small talk leave the ledger
\* conversation alone; a negotiation may start or end.
OtherNode(t) ==
  /\ \/ /\ node[t] \in {"onboarding", "other"}
        /\ Proceed(t, "reply", state[t])
     \/ /\ At(t, "negotiation")
        /\ \E b \in BOOLEAN : Proceed(t, "reply", [state[t] EXCEPT !.engaged = b])
  /\ UNCHANGED <<sent, ledger_entries, drafted, shown, unsent, failed, crashes>>

\* An exception no node catches: the turn ends in an apology, the checkpoint
\* stays as the last finished node left it.
GraphFails(t) ==
  /\ node[t] \in {"classify_intent", "ledger", "ledger_confirm", "negotiation", "other"}
  /\ ~ Saving(t)
  /\ Fault(t)
  /\ node' = [node EXCEPT ![t] = "done"]
  /\ state' = [state EXCEPT ![t] = EmptyState]
  /\ UNCHANGED <<sent, checkpoint, ledger_entries, drafted, shown, unsent, crashes>>

\* The webhook sends every message in outbound_messages, the web API the last.  Each
\* may fail to be sent, which is logged: the checkpoint does not learn of it.
Reply(t) ==
  LET prompts == IF sent[t].channel \in {"chat", "voice"}
                   THEN state[t].prompts \cap {t} ELSE state[t].prompts
  IN
  /\ At(t, "reply")
  /\ \E undelivered \in SUBSET prompts :
       /\ shown' = shown \cup (prompts \ undelivered)
       /\ unsent' = unsent \cup undelivered
       /\ IF undelivered = {} THEN UNCHANGED failed ELSE Fault(t)
  /\ node' = [node EXCEPT ![t] = "done"]
  /\ state' = [state EXCEPT ![t] = EmptyState]
  /\ UNCHANGED <<sent, checkpoint, ledger_entries, drafted, crashes>>

\* The process dies with its turns and its checkpoints.
Crash ==
  /\ crashes < MaxCrashes
  /\ crashes' = crashes + 1
  /\ checkpoint' = EmptyState
  /\ node' = [t \in Turns |-> IF node[t] \in InProgress THEN "lost" ELSE node[t]]
  /\ state' = [t \in Turns |-> EmptyState]
  /\ UNCHANGED <<sent, ledger_entries, drafted, shown, unsent, failed>>

RunTurn(t) ==
  \/ LoadUserProfile(t) \/ InputGuard(t) \/ ClassifyIntent(t)
  \/ LedgerExtract(t) \/ LedgerConfirm(t) \/ LedgerConfirmFlow(t)
  \/ SaveRefuses(t) \/ SaveRaises(t) \/ SaveFails(t)
  \/ SaveCommits(t) \/ SaveReturns(t)
  \/ OtherNode(t) \/ GraphFails(t) \/ Reply(t)

Next ==
  \/ \E t \in Turns : (\E m \in Messages : Start(t, m)) \/ RunTurn(t)
  \/ Crash

Spec == Init /\ [][Next]_vars

\* The event loop runs every turn on; users send messages when they please.
FairSpec == Spec /\ \A t \in Turns : WF_vars(RunTurn(t))

-----------------------------------------------------------------------------
(* Properties.                                                             *)

TypeOK ==
  /\ sent \in [Turns -> Messages \cup {NotSent}]
  /\ node \in [Turns -> Node]
  /\ state \in [Turns -> ConversationState]
  /\ checkpoint \in ConversationState
  /\ ledger_entries \subseteq [entry : Entry, turn : Turns]
  /\ drafted \subseteq Turns
  /\ shown \subseteq Turns /\ unsent \subseteq Turns
  /\ failed \subseteq Turns
  /\ crashes \in 0 .. MaxCrashes

Consents(m) ==
  \/ "affirmative" \in Means[m.words]
  \/ m.channel = "flow" /\ "confirm_save" \in Means[m.words]

\* A row is written only by a turn whose own message says yes, whatever turns
\* run beside it and whatever the checkpoint holds (docs/security.md 8.1,
\* "Human-in-the-Loop Isolation").  It holds of a user who types and taps.
ConsentGiven == \A r \in ledger_entries : Consents(sent[r.turn])

EntriesHeld ==
  {r.entry : r \in ledger_entries}
    \cup UNION {{s.pending_ledger_entry, s.last_discussed, s.last_rejected} :
                  s \in {checkpoint} \cup {state[t] : t \in Turns}}

\* A freshly extracted entry holds the words of the message that turn was
\* sent, never those of an earlier one (docs/architecture.md 13.4).  It holds of
\* a user who only types, or only speaks.
ExtractsOwnMessage ==
  \A e \in EntriesHeld : e.base = 0 => e.words = e.by

\* Why both hold of a user who types and taps.  A turn's own words are the ones
\* it reads, no transcript is ever there to be read instead (OwnWords), forms are
\* answered by taps (FormsAreTapped), what is amended was drafted by some turn
\* (EntriesAreDrafted), and the turns of rows have begun.
OnlyTypes == \A m \in Messages : m.channel \in {"text", "chat", "flow"}

OwnWords ==
  /\ checkpoint.raw_input_transcript = 0
  /\ \A t \in Turns :
       /\ state[t].raw_input_transcript = 0
       /\ node[t] \in InProgress =>
            /\ sent[t] \in Messages
            /\ state[t].raw_input_text = t
            /\ state[t].last_message_type = sent[t].channel

FormsAreTapped ==
  \A t \in Turns : At(t, "ledger_confirm_flow") => sent[t].channel = "flow"

EntriesAreDrafted == \A e \in EntriesHeld : e.by = 0 => e = NoEntry

TypistInv ==
  /\ TypeOK /\ OwnWords /\ FormsAreTapped /\ EntriesAreDrafted
  /\ \A r \in ledger_entries : ~ At(r.turn, "idle")
  /\ ConsentGiven /\ ExtractsOwnMessage

\* A user who awaits replies has no entry written twice, whatever errors,
\* crashes and replies follow it (_save, ledger_confirm_node).
SavedOnce ==
  \A r1, r2 \in ledger_entries : r1.entry.by = r2.entry.by => r1 = r2

\* An entry the user said no to is never written; only a new entry made from it
\* may be, and is put to the user first (_reset_with_message, rejected_entry).
DeclinedStaysOut ==
  \A r \in ledger_entries : r.entry # checkpoint.last_rejected

\* Seen as what becomes of each entry, the conversation of a user who awaits
\* replies implements LedgerConsent: drafted, then shown or failed to be, then saved or
\* dropped (process_turn_and_dispatch, _save).
statusOf ==
  [e \in Turns |->
     IF \E r \in ledger_entries : r.entry.by = e THEN "saved"
     ELSE IF checkpoint.pending_ledger_entry.by = e
       THEN IF e \in shown THEN "shown"
            ELSE IF e \in unsent THEN "unseen" ELSE "drafted"
     ELSE IF e \in drafted THEN "dropped" ELSE "none"]

C == INSTANCE LedgerConsent WITH Entries <- Turns, status <- statusOf

ImplementsConsent == C!CSpec

\* Why all three hold of a user who awaits replies.  One turn runs at a time, on
\* a copy that is the checkpoint (OneAtATime); an entry is drafted by a turn that
\* ends in a reply, and no other entry comes to be in the checkpoint or the ledger
\* (OnlyDrafts); the prompt of what is pending was handed to the sender, or is about
\* to be, and it is not what was last rejected (PendingIsAsked); and it is in the
\* ledger only between the commit and the return of _save (SavedIsSettled).
AwaitsReplies == MaxInFlight = 1

Ongoing(t) == node[t] \in InProgress

OneAtATime ==
  /\ \A t, u \in Turns : Ongoing(t) /\ Ongoing(u) => t = u
  /\ \A t \in Turns : Ongoing(t) => state[t] = checkpoint

Drafted(e) == e = NoEntry \/ e.by \in drafted

OnlyDrafts ==
  /\ Drafted(checkpoint.pending_ledger_entry) /\ Drafted(checkpoint.last_rejected)
  /\ \A r \in ledger_entries : r.entry.by \in drafted
  /\ checkpoint.prompts \subseteq drafted /\ shown \cup unsent \subseteq drafted
  /\ \A t \in drafted : node[t] \in {"reply", "done", "lost"}

PendingIsAsked ==
  LET p == checkpoint.pending_ledger_entry IN
  p # NoEntry =>
    /\ p.by # checkpoint.last_rejected.by
    /\ p.by \in shown \cup unsent \/ (At(p.by, "reply") /\ p.by \in checkpoint.prompts)

SavedIsSettled ==
  \A r \in ledger_entries :
    r.entry.by = checkpoint.pending_ledger_entry.by => At(r.turn, "committed")

SerialInv ==
  /\ TypeOK /\ OneAtATime /\ OnlyDrafts /\ PendingIsAsked /\ SavedIsSettled
  /\ SavedOnce /\ DeclinedStaysOut

PlainYes(m) ==
  /\ m.channel \in {"text", "chat"}
  /\ "affirmative" \in Means[m.words]
  /\ Means[m.words] \cap {"blocked", "transaction"} = {}

\* Turn t is a plain yes to a pending entry of good amounts, heard in time or not.
YesTo(t) ==
  /\ At(t, "load_user_profile") /\ PlainYes(sent[t]) /\ state[t].awaiting_confirmation
  /\ state[t].pending_ledger_entry # NoEntry /\ AmountIs(t, "good")

InTime(t) == state[t].ledger_confirmation_turns < MAX_CONFIRMATION_TURNS

Writes(t) == \E r \in ledger_entries : r.turn = t

\* A typed yes saves the entry it answers, of good amounts, unless its own turn meets an
\* error or is lost in a crash; the one reply too many drops it instead, whatever it
\* says (ledger_confirm_node, _save).
YesSettles ==
  \A t \in Turns :
    /\ YesTo(t) /\ InTime(t) ~> Writes(t) \/ t \in failed \/ At(t, "lost")
    /\ YesTo(t) /\ ~ InTime(t)
         ~> (checkpoint.pending_ledger_entry = NoEntry /\ ~ Writes(t))
              \/ t \in failed \/ At(t, "lost")

-----------------------------------------------------------------------------
(* What the documents say and the code does not do.                        *)

\* docs/security.md: "Cancellations (না) and general chit-chat execute with 0
\* database write operations."
CancelWritesNothing ==
  \A r \in ledger_entries : "negative" \notin Means[sent[r.turn].words]
=============================================================================
