---------------------------- MODULE ConsentProofs ----------------------------
(***************************************************************************)
(* Proofs about Conversation with a user who awaits each reply, whatever   *)
(* they say and by whichever channel: nothing is written twice or after a  *)
(* no, and the conversation implements LedgerConsent.                      *)
(***************************************************************************)
EXTENDS ConversationProofs, FiniteSetTheorems

-----------------------------------------------------------------------------
(* What the step of a turn does to the pending entry.                      *)

pending == checkpoint.pending_ledger_entry
rejected == checkpoint.last_rejected
asked == shown \cup unsent   \* entries whose prompt the sender was given

\* The turn moves on with a copy that is the new checkpoint.
MovesOn(t, next) ==
  /\ node' = [node EXCEPT ![t] = next]
  /\ state' = [state EXCEPT ![t] = checkpoint']
  /\ UNCHANGED <<ledger_entries, shown, unsent>>

\* Nothing becomes of the entry.
Keeping(t) ==
  /\ node[t] \in InGraph \ {"committed"}
  /\ \E next \in InProgress \ {"committed"} : MovesOn(t, next)
  /\ pending' = pending /\ rejected' = rejected
  /\ checkpoint'.prompts = checkpoint.prompts /\ drafted' = drafted

\* The entry is no longer pending: it is saved, given up, or declined.
PuttingAside(t) ==
  /\ node[t] \in InGraph
  /\ MovesOn(t, "reply")
  /\ pending' = NoEntry
  /\ rejected' = rejected \/ (node[t] # "committed" /\ rejected' = pending)
  /\ checkpoint'.prompts = checkpoint.prompts /\ drafted' = drafted

\* A new entry takes its place.
Drafting(t) ==
  /\ node[t] \in InGraph \ {"committed"}
  /\ MovesOn(t, "reply")
  /\ pending'.by = t /\ rejected' = rejected
  /\ checkpoint'.prompts = checkpoint.prompts \cup {t}
  /\ drafted' = drafted \cup {t}

\* What a node's update keeps of the conversation state.
LEMMA ProceedMoves ==
  ASSUME NEW t \in Turns, NEW next, NEW s, Proceed(t, next, s),
         UNCHANGED <<ledger_entries, shown, unsent>>
  PROVE  MovesOn(t, next) /\ checkpoint' = s
BY DEF Proceed, MovesOn

\* The fields the classification is about.
LEMMA FieldsKept ==
  ASSUME NEW s \in ConversationState, NEW r,
         \/ r = s
         \/ \E b \in BOOLEAN : r = [s EXCEPT !.is_new_user = b]
         \/ \E b \in BOOLEAN : r = [s EXCEPT !.engaged = b]
         \/ r = [s EXCEPT !.awaiting_confirmation = TRUE]
         \/ \E n : r = [s EXCEPT !.ledger_confirmation_turns = n,
                                 !.awaiting_confirmation = TRUE]
  PROVE  /\ r.pending_ledger_entry = s.pending_ledger_entry
         /\ r.last_rejected = s.last_rejected /\ r.prompts = s.prompts
BY DEF ConversationState

LEMMA FieldsCleared ==
  ASSUME NEW s \in ConversationState
  PROVE  /\ \A r \in {Unclear(s), Reset(s), Declined(s)} :
              r.pending_ledger_entry = NoEntry /\ r.prompts = s.prompts
         /\ Unclear(s).last_rejected = s.last_rejected
         /\ Reset(s).last_rejected = s.last_rejected
         /\ Declined(s).last_rejected = s.pending_ledger_entry
BY DEF Unclear, Reset, Declined, ConversationState

LEMMA FieldsProposed ==
  ASSUME NEW s \in ConversationState, NEW entry, NEW n
  PROVE  /\ Proposing(s, entry, n).pending_ledger_entry = entry
         /\ Proposing(s, entry, n).last_rejected = s.last_rejected
         /\ Proposing(s, entry, n).prompts = s.prompts \cup {entry.by}
BY DEF Proposing, ConversationState

LEMMA ProposeDrafts ==
  ASSUME TypeOK, NEW t \in Turns, state[t] = checkpoint,
         node[t] \in InGraph \ {"committed"},
         NEW entry, entry.by = t, NEW n, Propose(t, entry, n),
         UNCHANGED <<ledger_entries, shown, unsent>>
  PROVE  Drafting(t)
<1>1. Proceed(t, "reply", Proposing(checkpoint, entry, n)) /\ drafted' = drafted \cup {t}
  BY DEF Propose
<1>2. MovesOn(t, "reply") /\ checkpoint' = Proposing(checkpoint, entry, n)
  BY <1>1, ProceedMoves
<1>3. checkpoint \in ConversationState
  BY DEF TypeOK
<1>. QED
  BY <1>1, <1>2, <1>3, FieldsProposed DEF Drafting, pending, rejected

LEMMA Classified ==
  ASSUME TypeOK, NEW t \in Turns, OneAtATime, RunTurn(t)
  PROVE  \/ Keeping(t) \/ PuttingAside(t) \/ Drafting(t)
         \/ SaveCommits(t) \/ GraphFails(t) \/ SaveRaises(t) \/ Reply(t)
<1> DEFINE s == state[t]
<1>1. s \in ConversationState /\ checkpoint \in ConversationState
  BY DEF TypeOK
<1>2. Ongoing(t) => s = checkpoint
  BY DEF OneAtATime
<1> USE DEF pending, rejected
<1>3. CASE LoadUserProfile(t)
  <2>1. PICK b \in BOOLEAN : Proceed(t, "input_guard", [s EXCEPT !.is_new_user = b])
    BY <1>3 DEF LoadUserProfile
  <2>2. node[t] = "load_user_profile" /\ UNCHANGED <<ledger_entries, shown, unsent, drafted>>
    BY <1>3 DEF LoadUserProfile, At
  <2>3. MovesOn(t, "input_guard") /\ checkpoint' = [s EXCEPT !.is_new_user = b]
    BY <2>1, <2>2, ProceedMoves
  <2>4. Keeping(t)
    BY <1>1, <1>2, <2>2, <2>3, FieldsKept DEF Keeping, InGraph, InProgress, Ongoing
  <2>. QED
    BY <2>4
<1>4. CASE InputGuard(t) \/ ClassifyIntent(t)
  <2>1. PICK next \in InGraph \cup {"reply"} : next # "committed" /\ Proceed(t, next, s)
    BY <1>4 DEF InputGuard, ClassifyIntent, Route, NodeOf, InGraph
  <2>2. /\ node[t] \in {"input_guard", "classify_intent"}
        /\ UNCHANGED <<ledger_entries, shown, unsent, drafted>>
    BY <1>4 DEF InputGuard, ClassifyIntent, At
  <2>3. MovesOn(t, next) /\ checkpoint' = s
    BY <2>1, <2>2, ProceedMoves
  <2>4. Keeping(t)
    BY <1>2, <2>1, <2>2, <2>3 DEF Keeping, InGraph, InProgress, Ongoing
  <2>. QED
    BY <2>4
<1>5. CASE OtherNode(t)
  <2>1. PICK r : /\ r = s \/ \E b \in BOOLEAN : r = [s EXCEPT !.engaged = b]
                 /\ Proceed(t, "reply", r)
    BY <1>5 DEF OtherNode
  <2>2. /\ node[t] \in {"onboarding", "other", "negotiation"}
        /\ UNCHANGED <<ledger_entries, shown, unsent, drafted>>
    BY <1>5 DEF OtherNode, At
  <2>3. MovesOn(t, "reply") /\ checkpoint' = r
    BY <2>1, <2>2, ProceedMoves
  <2>4. /\ r.pending_ledger_entry = s.pending_ledger_entry
        /\ r.last_rejected = s.last_rejected /\ r.prompts = s.prompts
    BY <1>1, <2>1, FieldsKept
  <2>5. Keeping(t)
    BY <1>2, <2>2, <2>3, <2>4 DEF Keeping, InGraph, InProgress, Ongoing
  <2>. QED
    BY <2>5
<1>6. ASSUME node[t] \in InGraph, UNCHANGED <<ledger_entries, shown, unsent, drafted>>,
             \/ Proceed(t, "reply", Unclear(s)) \/ Proceed(t, "reply", Reset(s))
             \/ node[t] # "committed" /\ Proceed(t, "reply", Declined(s))
      PROVE  PuttingAside(t)
  <2>1. /\ MovesOn(t, "reply")
        /\ \/ checkpoint' \in {Unclear(s), Reset(s)}
           \/ node[t] # "committed" /\ checkpoint' = Declined(s)
    BY <1>6, ProceedMoves
  <2>. QED
    BY <1>1, <1>2, <1>6, <2>1, FieldsCleared DEF PuttingAside, Ongoing, InProgress
<1>7. ASSUME NEW r, node[t] \in InGraph \ {"committed"}, Proceed(t, "reply", r),
             UNCHANGED <<ledger_entries, shown, unsent, drafted>>,
             \/ r = [s EXCEPT !.awaiting_confirmation = TRUE]
             \/ \E n : r = [s EXCEPT !.ledger_confirmation_turns = n,
                                     !.awaiting_confirmation = TRUE]
      PROVE  Keeping(t)
  <2>1. MovesOn(t, "reply") /\ checkpoint' = r
    BY <1>7, ProceedMoves
  <2>2. /\ r.pending_ledger_entry = s.pending_ledger_entry
        /\ r.last_rejected = s.last_rejected /\ r.prompts = s.prompts
    BY <1>1, <1>7, FieldsKept
  <2>. QED
    BY <1>2, <1>7, <2>1, <2>2 DEF Keeping, InGraph, InProgress, Ongoing
<1>8. CASE LedgerExtract(t)
  <2>1. node[t] = "ledger" /\ UNCHANGED <<ledger_entries, shown, unsent>>
    BY <1>8 DEF LedgerExtract, At
  <2>2. \/ \E entry, n : entry.by = t /\ Propose(t, entry, n)
        \/ Proceed(t, "reply", Unclear(s)) /\ UNCHANGED drafted
    BY <1>8 DEF LedgerExtract
  <2>. QED
    BY <1>2, <1>6, <2>1, <2>2, ProposeDrafts DEF InGraph, InProgress, Ongoing
<1>9. CASE LedgerConfirm(t)
  <2>1. node[t] = "ledger_confirm" /\ UNCHANGED <<ledger_entries, shown, unsent>>
    BY <1>9 DEF LedgerConfirm, At
  <2>2. \/ \E entry, n : entry.by = t /\ Propose(t, entry, n)
        \/ Proceed(t, "reply", Reset(s)) /\ UNCHANGED drafted
        \/ Proceed(t, "reply", Declined(s)) /\ UNCHANGED drafted
        \/ \E n : Proceed(t, "reply", [s EXCEPT !.ledger_confirmation_turns = n,
                                                !.awaiting_confirmation = TRUE])
                  /\ UNCHANGED drafted
    BY <1>9 DEF LedgerConfirm
  <2>. QED
    BY <1>2, <1>6, <1>7, <2>1, <2>2, ProposeDrafts DEF InGraph, InProgress, Ongoing
<1>10. CASE LedgerConfirmFlow(t)
  <2>1. /\ node[t] = "ledger_confirm_flow"
        /\ UNCHANGED <<ledger_entries, shown, unsent, drafted>>
    BY <1>10 DEF LedgerConfirmFlow, At
  <2>2. \/ Proceed(t, "reply", Reset(s))
        \/ Proceed(t, "reply", [s EXCEPT !.awaiting_confirmation = TRUE])
    BY <1>10 DEF LedgerConfirmFlow
  <2>. QED
    BY <1>6, <1>7, <2>1, <2>2 DEF InGraph
<1>11. CASE SaveRefuses(t) \/ SaveFails(t) \/ SaveReturns(t)
  BY <1>6, <1>11 DEF SaveRefuses, SaveFails, SaveReturns, Saving, At, InGraph
<1>. QED
  BY <1>3, <1>4, <1>5, <1>8, <1>9, <1>10, <1>11 DEF RunTurn


-----------------------------------------------------------------------------
(* One turn at a time.                                                     *)

LEMMA Alone ==
  ASSUME TypeOK, OneAtATime, NEW t \in Turns, Ongoing(t)
  PROVE  \A u \in Turns : u # t => ~ Ongoing(u)
BY DEF OneAtATime

LEMMA MovesOnAlone ==
  ASSUME TypeOK, OneAtATime, NEW t \in Turns, Ongoing(t), NEW next, MovesOn(t, next)
  PROVE  /\ OneAtATime' /\ node'[t] = next
         /\ \A u \in Turns : u # t => node'[u] = node[u] /\ ~ Ongoing(u)
<1>1. /\ node'[t] = next /\ state'[t] = checkpoint'
      /\ \A u \in Turns : u # t => node'[u] = node[u]
  BY DEF MovesOn, TypeOK
<1>. QED
  BY <1>1, Alone DEF OneAtATime, Ongoing

\* The prompt of an entry that is pending when a node starts was handed to the sender.
LEMMA PendingAsked ==
  ASSUME SerialInv, NEW t \in Turns, node[t] \in InGraph, pending # NoEntry
  PROVE  pending.by \in asked
<1>1. Ongoing(t) /\ node[t] # "reply" /\ OneAtATime
  BY DEF Ongoing, InProgress, InGraph, SerialInv
<1>2. pending.by \in Turns
  BY DEF SerialInv, OnlyDrafts, Drafted, TypeOK, pending
<1>3. ~ At(pending.by, "reply")
  BY <1>1, <1>2 DEF OneAtATime, At, Ongoing, InProgress
<1>. QED
  BY <1>3 DEF SerialInv, PendingIsAsked, pending, asked

\* Unless _save has just committed it, what is pending is not in the ledger.
LEMMA PendingUnsaved ==
  ASSUME SerialInv, NEW t \in Turns, Ongoing(t), node[t] # "committed"
  PROVE  \A r \in ledger_entries : r.entry.by # pending.by
<1> SUFFICES ASSUME NEW r \in ledger_entries, r.entry.by = pending.by PROVE FALSE
  OBVIOUS
<1>1. At(r.turn, "committed") /\ r.turn \in Turns
  BY DEF SerialInv, SavedIsSettled, TypeOK, pending
<1>2. Ongoing(r.turn)
  BY <1>1 DEF At, Ongoing, InProgress, InGraph
<1>. QED
  BY <1>1, <1>2 DEF SerialInv, OneAtATime, At

\* A turn drafts its entry last of all.
LEMMA NotYetDrafted ==
  ASSUME SerialInv, NEW t \in Turns, node[t] \in InGraph \cup {"idle"}
  PROVE  t \notin drafted
BY DEF SerialInv, OnlyDrafts, InGraph

LEMMA DraftsAreTurns ==
  ASSUME TypeOK PROVE drafted \subseteq Turns /\ 0 \notin Turns /\ NoEntry.by = 0
BY ConversationAssumption DEF TypeOK, Turns, NoEntry

LEMMA KeepingSerial ==
  ASSUME SerialInv, TypeOK', NEW t \in Turns, Keeping(t)
  PROVE  SerialInv'
<1>1. PICK next \in InProgress \ {"committed"} : MovesOn(t, next)
  BY DEF Keeping
<1>2. Ongoing(t) /\ node[t] \in InGraph /\ node[t] # "committed"
  BY DEF Keeping, Ongoing, InProgress
<1>3. TypeOK /\ OneAtATime
  BY DEF SerialInv
<1>4. /\ OneAtATime' /\ node'[t] = next
      /\ \A u \in Turns : u # t => node'[u] = node[u] /\ ~ Ongoing(u)
  BY <1>1, <1>2, <1>3, MovesOnAlone
<1>5. /\ pending' = pending /\ rejected' = rejected /\ drafted' = drafted
      /\ checkpoint'.prompts = checkpoint.prompts
      /\ UNCHANGED <<ledger_entries, shown, unsent>>
  BY <1>1 DEF Keeping, MovesOn
<1>6. t \notin drafted /\ drafted \subseteq Turns
  BY <1>2, <1>3, NotYetDrafted, DraftsAreTurns
<1>7. OnlyDrafts'
  BY <1>4, <1>5, <1>6 DEF SerialInv, OnlyDrafts, Drafted, pending, rejected
<1>8. PendingIsAsked'
  BY <1>2, <1>5, PendingAsked DEF SerialInv, PendingIsAsked, pending, asked, rejected
<1>9. SavedIsSettled'
  BY <1>2, <1>5, PendingUnsaved DEF SavedIsSettled, pending
<1>10. SavedOnce' /\ DeclinedStaysOut'
  BY <1>5 DEF SerialInv, SavedOnce, DeclinedStaysOut, rejected
<1>. QED
  BY <1>4, <1>7, <1>8, <1>9, <1>10 DEF SerialInv

LEMMA PuttingAsideSerial ==
  ASSUME SerialInv, TypeOK', NEW t \in Turns, PuttingAside(t)
  PROVE  SerialInv'
<1>1. Ongoing(t) /\ node[t] \in InGraph /\ MovesOn(t, "reply") /\ TypeOK /\ OneAtATime
  BY DEF PuttingAside, Ongoing, InProgress, SerialInv
<1>2. /\ OneAtATime' /\ node'[t] = "reply"
      /\ \A u \in Turns : u # t => node'[u] = node[u]
  BY <1>1, MovesOnAlone
<1>3. /\ pending' = NoEntry /\ drafted' = drafted
      /\ checkpoint'.prompts = checkpoint.prompts
      /\ UNCHANGED <<ledger_entries, shown, unsent>>
  BY <1>1 DEF PuttingAside, MovesOn
<1>4. rejected' = rejected \/ (node[t] # "committed" /\ rejected' = pending)
  BY DEF PuttingAside
<1>5. drafted \subseteq Turns /\ 0 \notin drafted /\ NoEntry.by = 0
  BY <1>1, DraftsAreTurns
<1>6. \A r \in ledger_entries : r.entry.by \in drafted
  BY DEF SerialInv, OnlyDrafts
<1>7. OnlyDrafts'
  BY <1>2, <1>3, <1>4, <1>5 DEF SerialInv, OnlyDrafts, Drafted, pending, rejected
<1>8. PendingIsAsked'
  BY <1>3 DEF PendingIsAsked, pending, asked
<1>9. SavedIsSettled'
  BY <1>3, <1>5, <1>6 DEF SavedIsSettled, pending
<1>10. SavedOnce'
  BY <1>3 DEF SerialInv, SavedOnce
<1>11. \A r \in ledger_entries : r.entry # rejected'
  BY <1>1, <1>4, PendingUnsaved DEF SerialInv, DeclinedStaysOut, rejected
<1>12. DeclinedStaysOut'
  BY <1>3, <1>11 DEF DeclinedStaysOut, rejected
<1>. QED
  BY <1>2, <1>7, <1>8, <1>9, <1>10, <1>12 DEF SerialInv

LEMMA DraftingSerial ==
  ASSUME SerialInv, TypeOK', NEW t \in Turns, Drafting(t)
  PROVE  SerialInv'
<1>1. Ongoing(t) /\ node[t] \in InGraph /\ MovesOn(t, "reply") /\ TypeOK /\ OneAtATime
  BY DEF Drafting, Ongoing, InProgress, SerialInv
<1>2. /\ OneAtATime' /\ node'[t] = "reply"
      /\ \A u \in Turns : u # t => node'[u] = node[u]
  BY <1>1, MovesOnAlone
<1>3. /\ pending'.by = t /\ rejected' = rejected /\ drafted' = drafted \cup {t}
      /\ checkpoint'.prompts = checkpoint.prompts \cup {t}
      /\ UNCHANGED <<ledger_entries, shown, unsent>>
  BY <1>1 DEF Drafting, MovesOn
<1>4. t \notin drafted /\ drafted \subseteq Turns /\ 0 \notin Turns /\ NoEntry.by = 0
  BY <1>1, NotYetDrafted, DraftsAreTurns
<1>5. OnlyDrafts'
  BY <1>2, <1>3, <1>4 DEF SerialInv, OnlyDrafts, Drafted, pending, rejected
<1>6. rejected.by # t
  BY <1>4 DEF SerialInv, OnlyDrafts, Drafted, rejected
<1>7. PendingIsAsked'
  BY <1>2, <1>3, <1>6 DEF PendingIsAsked, At, pending, asked, rejected
<1>8. SavedIsSettled'
  BY <1>3, <1>4 DEF SerialInv, OnlyDrafts, SavedIsSettled, pending
<1>9. SavedOnce' /\ DeclinedStaysOut'
  BY <1>3 DEF SerialInv, SavedOnce, DeclinedStaysOut, rejected
<1>. QED
  BY <1>2, <1>5, <1>7, <1>8, <1>9 DEF SerialInv

LEMMA SaveCommitsSerial ==
  ASSUME SerialInv, TypeOK', NEW t \in Turns, SaveCommits(t)
  PROVE  SerialInv'
<1> DEFINE row == [entry |-> pending, turn |-> t]
<1>1. /\ node[t] \in {"ledger_confirm", "ledger_confirm_flow"}
      /\ state[t].pending_ledger_entry # NoEntry
  BY DEF SaveCommits, Saving, Accepts, At
<1>2. Ongoing(t) /\ node[t] \in InGraph /\ TypeOK /\ OneAtATime /\ state[t] = checkpoint
  BY <1>1 DEF Ongoing, InProgress, InGraph, SerialInv, OneAtATime
<1>3. pending # NoEntry
  BY <1>1, <1>2 DEF pending
<1>4. /\ ledger_entries' = ledger_entries \cup {row}
      /\ node' = [node EXCEPT ![t] = "committed"]
      /\ UNCHANGED <<state, checkpoint, drafted, shown, unsent>>
  BY <1>2 DEF SaveCommits, pending
<1>5. node'[t] = "committed" /\ \A u \in Turns : u # t => node'[u] = node[u]
  BY <1>2, <1>4 DEF TypeOK
<1>6. OneAtATime'
  BY <1>2, <1>4, <1>5, Alone DEF OneAtATime, Ongoing
<1>7. pending.by \in drafted /\ t \notin drafted /\ drafted \subseteq Turns
  BY <1>2, <1>3, NotYetDrafted, DraftsAreTurns DEF SerialInv, OnlyDrafts, Drafted, pending
<1>8. OnlyDrafts'
  BY <1>4, <1>5, <1>7 DEF SerialInv, OnlyDrafts, Drafted
<1>9. PendingIsAsked'
  BY <1>2, <1>3, <1>4, PendingAsked DEF SerialInv, PendingIsAsked, pending, asked
<1>10. \A r \in ledger_entries : r.entry.by # pending.by
  BY <1>1, <1>2, PendingUnsaved
<1>11. row.entry = pending /\ row.turn = t
  OBVIOUS
<1>. HIDE DEF row
<1>12. SavedIsSettled'
  BY <1>4, <1>5, <1>10, <1>11 DEF SavedIsSettled, At, pending
<1>13. SavedOnce'
  BY <1>4, <1>10, <1>11 DEF SerialInv, SavedOnce
<1>14. pending.by # rejected.by
  BY <1>3 DEF SerialInv, PendingIsAsked, pending, asked, rejected
<1>15. DeclinedStaysOut'
  BY <1>4, <1>11, <1>14 DEF SerialInv, DeclinedStaysOut, rejected
<1>. QED
  BY <1>6, <1>8, <1>9, <1>12, <1>13, <1>15 DEF SerialInv


\* Whatever happens, no entry but the pending one waits to be asked about, and that
\* one only until the turn that drafted it replies.
LEMMA PendingOfReply ==
  ASSUME SerialInv, NEW t \in Turns, Ongoing(t), pending # NoEntry, pending.by \notin asked
  PROVE  pending.by = t /\ t \in checkpoint.prompts
<1>1. pending.by \in Turns
  BY DEF SerialInv, OnlyDrafts, Drafted, TypeOK, pending
<1>2. At(pending.by, "reply") /\ pending.by \in checkpoint.prompts
  BY DEF SerialInv, PendingIsAsked, pending, asked
<1>3. Ongoing(pending.by)
  BY <1>2 DEF At, Ongoing, InProgress
<1>. QED
  BY <1>1, <1>2, <1>3 DEF SerialInv, OneAtATime

\* A reply hands every prompt it is to send to the sender.
LEMMA ReplyAsks ==
  ASSUME TypeOK, NEW t \in Turns, Reply(t)
  PROVE  /\ asked \subseteq asked' /\ asked' \subseteq asked \cup state[t].prompts
         /\ t \in state[t].prompts => t \in asked'
<1> DEFINE prompts == IF sent[t].channel \in {"chat", "voice"}
                        THEN state[t].prompts \cap {t} ELSE state[t].prompts
<1>1. /\ prompts \subseteq state[t].prompts
      /\ t \in state[t].prompts => t \in prompts
  OBVIOUS
<1>2. PICK undelivered \in SUBSET prompts :
        /\ shown' = shown \cup (prompts \ undelivered)
        /\ unsent' = unsent \cup undelivered
  BY DEF Reply
<1>3. asked' = asked \cup prompts
  BY <1>2 DEF asked
<1>. QED
  BY <1>1, <1>3

\* What a turn that ends must leave behind.
LEMMA EndedSerial ==
  ASSUME SerialInv, TypeOK', OneAtATime', NEW t \in Turns, Ongoing(t),
         node[t] # "committed", node'[t] = "done",
         \A u \in Turns : u # t => node'[u] = node[u],
         UNCHANGED <<checkpoint, ledger_entries, drafted>>,
         asked' \subseteq drafted, pending # NoEntry => pending.by \in asked'
  PROVE  SerialInv'
<1>1. OnlyDrafts'
  BY DraftsAreTurns DEF SerialInv, OnlyDrafts, Drafted, asked
<1>2. PendingIsAsked'
  BY DEF SerialInv, PendingIsAsked, pending, asked
<1>3. SavedIsSettled'
  BY PendingUnsaved DEF SavedIsSettled, pending
<1>4. SavedOnce' /\ DeclinedStaysOut'
  BY DEF SerialInv, SavedOnce, DeclinedStaysOut
<1>. QED
  BY <1>1, <1>2, <1>3, <1>4 DEF SerialInv

LEMMA EndingSerial ==
  ASSUME SerialInv, TypeOK', NEW t \in Turns, GraphFails(t) \/ SaveRaises(t) \/ Reply(t)
  PROVE  SerialInv'
<1>1. Ongoing(t) /\ node[t] # "committed" /\ TypeOK /\ OneAtATime
  BY DEF GraphFails, SaveRaises, Saving, Reply, At, Ongoing, InProgress, InGraph, SerialInv
<1>2. node' = [node EXCEPT ![t] = "done"] /\ UNCHANGED <<checkpoint, ledger_entries, drafted>>
      /\ state' = [state EXCEPT ![t] = EmptyState]
  BY DEF GraphFails, SaveRaises, Reply
<1>3. /\ node'[t] = "done"
      /\ \A u \in Turns : u # t => node'[u] = node[u] /\ ~ Ongoing(u)
  BY <1>1, <1>2, Alone DEF TypeOK
<1>4. OneAtATime'
  BY <1>3 DEF OneAtATime, Ongoing, InProgress, InGraph
<1>5. CASE GraphFails(t) \/ SaveRaises(t)
  <2>1. UNCHANGED <<shown, unsent>> /\ node[t] \in InGraph
    BY <1>5 DEF GraphFails, SaveRaises, Saving, At, InGraph
  <2>2. pending # NoEntry => pending.by \in asked
    BY <2>1, PendingAsked
  <2>3. asked' = asked /\ asked \subseteq drafted
    BY <2>1 DEF asked, SerialInv, OnlyDrafts
  <2>. QED
    BY <1>1, <1>2, <1>3, <1>4, <2>2, <2>3, EndedSerial
<1>6. CASE Reply(t)
  <2>1. state[t] = checkpoint
    BY <1>1 DEF OneAtATime
  <2>2. /\ asked \subseteq asked' /\ asked' \subseteq asked \cup checkpoint.prompts
        /\ t \in checkpoint.prompts => t \in asked'
    BY <1>1, <1>6, <2>1, ReplyAsks
  <2>3. asked' \subseteq drafted
    BY <2>2 DEF SerialInv, OnlyDrafts, asked
  <2>4. pending # NoEntry => pending.by \in asked'
    BY <1>1, <2>2, PendingOfReply
  <2>. QED
    BY <1>1, <1>2, <1>3, <1>4, <2>3, <2>4, EndedSerial
<1>. QED
  BY <1>5, <1>6

\* A user who awaits replies writes when no turn runs.
LEMMA NoneOngoing ==
  ASSUME AwaitsReplies, NEW t \in Turns, NEW m, Start(t, m)
  PROVE  \A u \in Turns : ~ Ongoing(u)
<1> DEFINE busy == {u \in Turns : node[u] \in InProgress}
<1>1. IsFiniteSet(Turns)
  BY ConversationAssumption, FS_Interval DEF Turns
<1>2. IsFiniteSet(busy)
  BY <1>1, FS_Subset
<1>3. Cardinality(busy) < 1 /\ Cardinality(busy) \in Nat
  BY <1>2, FS_CardinalityType DEF AwaitsReplies, Start
<1>4. busy = {}
  <2>1. Cardinality(busy) = 0
    BY <1>3
  <2>. QED
    BY <1>2, <2>1, FS_EmptySet
<1>. QED
  BY <1>4 DEF Ongoing

LEMMA ReceivedKeeps ==
  ASSUME NEW s \in ConversationState, NEW t, NEW channel
  PROVE  LET r == Received(s, t, channel) IN
         /\ r.pending_ledger_entry = s.pending_ledger_entry
         /\ r.last_rejected = s.last_rejected /\ r.prompts = s.prompts
BY DEF Received, ConversationState

LEMMA StartSerial ==
  ASSUME SerialInv, TypeOK', AwaitsReplies, NEW t \in Turns, NEW m \in Messages, Start(t, m)
  PROVE  SerialInv'
<1>1. \A u \in Turns : ~ Ongoing(u)
  BY NoneOngoing
<1>2. node[t] = "idle" /\ TypeOK
  BY DEF Start, At, SerialInv
<1>3. /\ Proceed(t, "load_user_profile", Received(checkpoint, t, m.channel))
      /\ UNCHANGED <<ledger_entries, drafted, shown, unsent>>
  BY DEF Start
<1>4. /\ node'[t] = "load_user_profile" /\ state'[t] = checkpoint'
      /\ \A u \in Turns : u # t => node'[u] = node[u]
  BY <1>2, <1>3 DEF Proceed, TypeOK
<1>5. /\ pending' = pending /\ rejected' = rejected
      /\ checkpoint'.prompts = checkpoint.prompts
  BY <1>2, <1>3, ReceivedKeeps DEF Proceed, pending, rejected, TypeOK
<1>6. OneAtATime'
  BY <1>1, <1>4 DEF OneAtATime, Ongoing
<1>7. t \notin drafted /\ drafted \subseteq Turns
  BY <1>2, NotYetDrafted, DraftsAreTurns
<1>8. OnlyDrafts'
  BY <1>3, <1>4, <1>5, <1>7 DEF SerialInv, OnlyDrafts, Drafted, pending, rejected
<1>9. pending # NoEntry => pending.by \in asked
  <2>1. pending # NoEntry => pending.by \in Turns
    BY <1>7 DEF SerialInv, OnlyDrafts, Drafted, pending
  <2>2. pending # NoEntry /\ pending.by \notin asked => At(pending.by, "reply")
    BY DEF SerialInv, PendingIsAsked, pending, asked
  <2>. QED
    BY <1>1, <2>1, <2>2 DEF At, Ongoing, InProgress
<1>10. PendingIsAsked'
  BY <1>3, <1>5, <1>9 DEF SerialInv, PendingIsAsked, pending, asked, rejected
<1>11. \A r \in ledger_entries : r.entry.by # pending.by
  <2> SUFFICES ASSUME NEW r \in ledger_entries, r.entry.by = pending.by PROVE FALSE
    OBVIOUS
  <2>1. At(r.turn, "committed") /\ r.turn \in Turns
    BY <1>2 DEF SerialInv, SavedIsSettled, TypeOK, pending
  <2>. QED
    BY <1>1, <2>1 DEF At, Ongoing, InProgress, InGraph
<1>12. SavedIsSettled'
  BY <1>3, <1>5, <1>11 DEF SavedIsSettled, pending
<1>13. SavedOnce' /\ DeclinedStaysOut'
  BY <1>3, <1>5 DEF SerialInv, SavedOnce, DeclinedStaysOut, rejected
<1>. QED
  BY <1>6, <1>8, <1>10, <1>12, <1>13 DEF SerialInv

LEMMA EmptyHolds ==
  /\ EmptyState.pending_ledger_entry = NoEntry /\ EmptyState.last_rejected = NoEntry
  /\ EmptyState.prompts = {} /\ NoEntry.by = 0
BY DEF EmptyState, NoEntry

LEMMA CrashSerial ==
  ASSUME SerialInv, TypeOK', Crash
  PROVE  SerialInv'
<1>1. /\ checkpoint' = EmptyState /\ UNCHANGED <<ledger_entries, drafted, shown, unsent>>
      /\ node' = [t \in Turns |-> IF node[t] \in InProgress THEN "lost" ELSE node[t]]
  BY DEF Crash
<1>2. \A t \in Turns : node'[t] \notin InProgress
  BY <1>1 DEF InProgress, InGraph
<1>3. drafted \subseteq Turns /\ 0 \notin drafted
  BY DraftsAreTurns DEF SerialInv
<1>4. \A t \in drafted : node'[t] \in {"reply", "done", "lost"}
  BY <1>1, <1>3 DEF SerialInv, OnlyDrafts
<1>5. OneAtATime'
  BY <1>2 DEF OneAtATime, Ongoing
<1>6. OnlyDrafts'
  BY <1>1, <1>4, EmptyHolds DEF SerialInv, OnlyDrafts, Drafted
<1>7. PendingIsAsked' /\ SavedIsSettled'
  BY <1>1, <1>3, EmptyHolds DEF PendingIsAsked, SavedIsSettled, SerialInv, OnlyDrafts
<1>8. SavedOnce' /\ DeclinedStaysOut'
  BY <1>1, <1>3, EmptyHolds DEF SerialInv, OnlyDrafts, SavedOnce, DeclinedStaysOut
<1>. QED
  BY <1>5, <1>6, <1>7, <1>8 DEF SerialInv

LEMMA InitSerial == Init => SerialInv
<1> SUFFICES ASSUME Init PROVE SerialInv
  OBVIOUS
<1>1. TypeOK
  BY InitTypeOK
<1>2. \A t \in Turns : ~ Ongoing(t)
  BY DEF Init, Ongoing, InProgress, InGraph
<1>3. OneAtATime
  BY <1>2 DEF OneAtATime
<1>4. OnlyDrafts /\ PendingIsAsked
  BY EmptyHolds DEF Init, OnlyDrafts, Drafted, PendingIsAsked
<1>5. SavedIsSettled /\ SavedOnce /\ DeclinedStaysOut
  BY DEF Init, SavedIsSettled, SavedOnce, DeclinedStaysOut
<1>. QED
  BY <1>1, <1>3, <1>4, <1>5 DEF SerialInv

\* The invariant of a user who awaits replies, for any words, channels, guesses of
\* the model, turns, faults and crashes.
THEOREM SerialInvHolds == AwaitsReplies => (Spec => []SerialInv)
<1> SUFFICES ASSUME AwaitsReplies PROVE Spec => []SerialInv
  OBVIOUS
<1>1. Init => SerialInv
  BY InitSerial
<1>2. SerialInv /\ TypeOK' /\ [Next]_vars => SerialInv'
  <2> SUFFICES ASSUME SerialInv, TypeOK', [Next]_vars PROVE SerialInv'
    OBVIOUS
  <2>1. ASSUME NEW t \in Turns, NEW m \in Messages, Start(t, m) PROVE SerialInv'
    BY <2>1, StartSerial
  <2>2. ASSUME NEW t \in Turns, RunTurn(t) PROVE SerialInv'
    <3>1. TypeOK /\ OneAtATime
      BY DEF SerialInv
    <3>. QED
      BY <2>2, <3>1, Classified, KeepingSerial, PuttingAsideSerial, DraftingSerial,
         SaveCommitsSerial, EndingSerial
  <2>3. CASE Crash
    BY <2>3, CrashSerial
  <2>4. CASE UNCHANGED vars
    BY <2>4 DEF vars, SerialInv, TypeOK, OneAtATime, Ongoing, OnlyDrafts, Drafted,
                PendingIsAsked, SavedIsSettled, SavedOnce, DeclinedStaysOut, At
  <2>. QED
    BY <2>1, <2>2, <2>3, <2>4 DEF Next
<1>. QED
  BY <1>1, <1>2, TypeCorrect, PTL DEF Spec

\* Where the user awaits replies, no entry is written twice, whichever saves and
\* replies fail and whatever is restarted.
THEOREM SavedOnceHolds == AwaitsReplies => (Spec => []SavedOnce)
<1>1. SerialInv => SavedOnce
  BY DEF SerialInv
<1>. QED
  BY <1>1, SerialInvHolds, PTL

\* Where the user awaits replies, the entry last declined is never in the ledger.
THEOREM DeclinedStaysOutHolds == AwaitsReplies => (Spec => []DeclinedStaysOut)
<1>1. SerialInv => DeclinedStaysOut
  BY DEF SerialInv
<1>. QED
  BY <1>1, SerialInvHolds, PTL


-----------------------------------------------------------------------------
(* The conversation implements LedgerConsent.                              *)

LEMMA AheadIs ==
  /\ {"shown", "unseen", "dropped"} \subseteq C!Ahead("drafted") \ {"drafted"}
  /\ {"shown", "saved", "dropped"} \subseteq C!Ahead("unseen") \ {"drafted"}
  /\ {"saved", "dropped"} \subseteq C!Ahead("shown") \ {"drafted"}
BY DEF C!Ahead

Saved(e) == \E r \in ledger_entries : r.entry.by = e

LEMMA StatusIs ==
  \A e \in Turns :
    statusOf[e] = IF Saved(e) THEN "saved"
                  ELSE IF pending.by = e
                    THEN IF e \in shown THEN "shown"
                         ELSE IF e \in unsent THEN "unseen" ELSE "drafted"
                  ELSE IF e \in drafted THEN "dropped" ELSE "none"
BY DEF statusOf, Saved, pending

LEMMA StatusIsNext ==
  \A e \in Turns :
    statusOf'[e] = IF Saved(e)' THEN "saved"
                   ELSE IF pending'.by = e
                     THEN IF e \in shown' THEN "shown"
                          ELSE IF e \in unsent' THEN "unseen" ELSE "drafted"
                   ELSE IF e \in drafted' THEN "dropped" ELSE "none"
BY DEF statusOf, Saved, pending

LEMMA StatusDomain ==
  /\ statusOf = [e \in Turns |-> statusOf[e]]
  /\ statusOf' = [e \in Turns |-> statusOf'[e]]
BY DEF statusOf

\* One entry's status goes on, or none does.
LEMMA OneMoves ==
  ASSUME NEW e \in Turns, \A o \in Turns : o # e => statusOf'[o] = statusOf[o],
         statusOf'[e] = statusOf[e] \/ statusOf'[e] \in C!Ahead(statusOf[e]) \ {"drafted"}
  PROVE  [C!CNext]_statusOf
<1>1. CASE statusOf'[e] = statusOf[e]
  BY <1>1, StatusDomain
<1>2. CASE statusOf'[e] \in C!Ahead(statusOf[e]) \ {"drafted"}
  <2>1. statusOf' = [statusOf EXCEPT ![e] = statusOf'[e]]
    BY StatusDomain
  <2>2. C!MoveOn(e)
    BY <1>2, <2>1 DEF C!MoveOn
  <2>. QED
    BY <2>2 DEF C!CNext
<1>. QED
  BY <1>1, <1>2

LEMMA NoneMoves ==
  ASSUME \A e \in Turns : statusOf'[e] = statusOf[e]
  PROVE  [C!CNext]_statusOf
BY StatusDomain

LEMMA SameSaved ==
  ASSUME ledger_entries' = ledger_entries
  PROVE  \A e : Saved(e)' <=> Saved(e)
BY DEF Saved

\* An entry that is no longer pending, and is not saved, is dropped.
LEMMA PendingGoes ==
  ASSUME SerialInv, pending' = NoEntry, UNCHANGED <<ledger_entries, drafted, shown, unsent>>
  PROVE  [C!CNext]_statusOf
<1>1. drafted \subseteq Turns /\ 0 \notin Turns /\ NoEntry.by = 0
  BY DraftsAreTurns DEF SerialInv
<1>2. pending # NoEntry => pending.by \in drafted
  BY DEF SerialInv, OnlyDrafts, Drafted, pending
<1>3. \A e \in Turns : e # pending.by => statusOf'[e] = statusOf[e]
  BY <1>1, SameSaved, StatusIs, StatusIsNext
<1>4. CASE pending = NoEntry
  BY <1>1, <1>3, <1>4, NoneMoves
<1>5. CASE pending # NoEntry
  <2>1. \/ statusOf'[pending.by] = statusOf[pending.by]
        \/ statusOf[pending.by] \in {"shown", "unseen", "drafted"} /\ statusOf'[pending.by] = "dropped"
    BY <1>1, <1>2, <1>5, SameSaved, StatusIs, StatusIsNext
  <2>2. \/ statusOf'[pending.by] = statusOf[pending.by]
        \/ statusOf'[pending.by] \in C!Ahead(statusOf[pending.by]) \ {"drafted"}
    BY <2>1, AheadIs
  <2>. QED
    BY <1>1, <1>2, <1>3, <1>5, <2>2, OneMoves
<1>. QED
  BY <1>4, <1>5

LEMMA DraftingRefines ==
  ASSUME SerialInv, NEW t \in Turns, Drafting(t)
  PROVE  [C!CNext]_statusOf
<1>1. /\ pending'.by = t /\ drafted' = drafted \cup {t}
      /\ UNCHANGED <<ledger_entries, shown, unsent>>
  BY DEF Drafting, MovesOn
<1>2. t \notin drafted /\ shown \cup unsent \subseteq drafted /\ drafted \subseteq Turns
  BY NotYetDrafted, DraftsAreTurns DEF Drafting, SerialInv, OnlyDrafts
<1>3. ~ Saved(t) /\ pending.by # t
  BY <1>2, DraftsAreTurns DEF SerialInv, OnlyDrafts, Drafted, Saved, pending
<1>4. statusOf[t] = "none" /\ statusOf'[t] = "drafted"
  BY <1>1, <1>2, <1>3, SameSaved, StatusIs, StatusIsNext
<1> DEFINE old == {o \in Turns : statusOf[o] \in {"shown", "unseen", "drafted"}}
<1>5. \A o \in old : "dropped" \in C!Ahead(statusOf[o])
  BY AheadIs
<1>6. ASSUME NEW o \in Turns, o # t
      PROVE  statusOf'[o] = IF o \in old THEN "dropped" ELSE statusOf[o]
  <2>1. pending.by = o => o \in drafted
    BY <1>6, DraftsAreTurns DEF SerialInv, OnlyDrafts, Drafted, pending
  <2>. QED
    BY <1>1, <1>6, <2>1, SameSaved, StatusIs, StatusIsNext
<1>. HIDE DEF old
<1>7. statusOf' = [o \in Turns |-> IF o = t THEN "drafted"
                                   ELSE IF o \in old THEN "dropped" ELSE statusOf[o]]
  BY <1>4, <1>6, StatusDomain
<1>8. old \in SUBSET {o \in Turns : "dropped" \in C!Ahead(statusOf[o])}
  BY <1>5 DEF old
<1>9. C!Draft(t)
  BY <1>4, <1>7, <1>8 DEF C!Draft
<1>. QED
  BY <1>9 DEF C!CNext

LEMMA SavingRefines ==
  ASSUME SerialInv, NEW t \in Turns, SaveCommits(t)
  PROVE  [C!CNext]_statusOf
<1>1. /\ node[t] \in {"ledger_confirm", "ledger_confirm_flow"}
      /\ state[t].pending_ledger_entry # NoEntry
  BY DEF SaveCommits, Saving, Accepts, At
<1>2. Ongoing(t) /\ node[t] \in InGraph /\ node[t] # "committed" /\ state[t] = checkpoint
  BY <1>1 DEF Ongoing, InProgress, InGraph, SerialInv, OneAtATime
<1>3. /\ pending # NoEntry /\ pending' = pending
      /\ ledger_entries' = ledger_entries \cup {[entry |-> pending, turn |-> t]}
      /\ UNCHANGED <<drafted, shown, unsent>>
  BY <1>1, <1>2 DEF SaveCommits, pending
<1>4. pending.by \in Turns
  BY <1>3, DraftsAreTurns DEF SerialInv, OnlyDrafts, Drafted, pending
<1>5. pending.by \in asked
  BY <1>2, <1>3, PendingAsked
<1>6. ~ Saved(pending.by)
  BY <1>2, PendingUnsaved DEF Saved
<1> DEFINE row == [entry |-> pending, turn |-> t]
<1>a. row.entry = pending /\ ledger_entries' = ledger_entries \cup {row}
  BY <1>3
<1>. HIDE DEF row
<1>b. \A e \in Turns : e = pending.by => \E r \in ledger_entries' : r.entry.by = e
  BY <1>a
<1>7. \A e \in Turns : e # pending.by => (Saved(e)' <=> Saved(e))
  BY <1>a DEF Saved
<1>8. statusOf[pending.by] \in {"shown", "unseen"} /\ statusOf'[pending.by] = "saved"
  <2>1. \A e \in Turns : e = pending.by => Saved(e)'
    BY <1>b DEF Saved
  <2>. QED
    BY <1>4, <1>5, <1>6, <2>1, StatusIs, StatusIsNext DEF asked
<1>9. \A e \in Turns : e # pending.by => statusOf'[e] = statusOf[e]
  BY <1>3, <1>7, StatusIs, StatusIsNext
<1>. QED
  BY <1>4, <1>8, <1>9, AheadIs, OneMoves

LEMMA ReplyRefines ==
  ASSUME SerialInv, NEW t \in Turns, Reply(t)
  PROVE  [C!CNext]_statusOf
<1>1. Ongoing(t) /\ UNCHANGED <<ledger_entries, drafted>> /\ pending' = pending
  BY DEF Reply, At, Ongoing, InProgress, pending
<1>2. shown \subseteq shown' /\ unsent \subseteq unsent'
  BY DEF Reply
<1>3. \A e \in Turns : e # pending.by => statusOf'[e] = statusOf[e]
  BY <1>1, SameSaved, StatusIs, StatusIsNext
<1>4. CASE pending = NoEntry
  <2>1. pending.by \notin Turns
    BY <1>4, DraftsAreTurns DEF SerialInv
  <2>. QED
    BY <1>3, <2>1, NoneMoves
<1>5. CASE pending # NoEntry
  <2>1. pending.by \in Turns
    BY <1>5, DraftsAreTurns DEF SerialInv, OnlyDrafts, Drafted, pending
  <2>2. \/ statusOf'[pending.by] = statusOf[pending.by]
        \/ statusOf[pending.by] \in {"drafted", "unseen"} /\ statusOf'[pending.by] = "shown"
        \/ statusOf[pending.by] = "drafted" /\ statusOf'[pending.by] = "unseen"
    BY <1>1, <1>2, <2>1, SameSaved, StatusIs, StatusIsNext
  <2>. QED
    BY <1>3, <2>1, <2>2, AheadIs, OneMoves
<1>. QED
  BY <1>4, <1>5

LEMMA ConsentStep ==
  ASSUME SerialInv, [Next]_vars
  PROVE  [C!CNext]_statusOf
<1>1. TypeOK /\ OneAtATime
  BY DEF SerialInv
<1>2. ASSUME pending' = pending, UNCHANGED <<ledger_entries, drafted, shown, unsent>>
      PROVE  [C!CNext]_statusOf
  BY <1>2, SameSaved, StatusIs, StatusIsNext, NoneMoves
<1>3. ASSUME NEW t \in Turns, NEW m \in Messages, Start(t, m)
      PROVE  [C!CNext]_statusOf
  <2>1. pending' = pending
    BY <1>1, <1>3, ReceivedKeeps DEF Start, Proceed, pending, TypeOK
  <2>. QED
    BY <1>2, <1>3, <2>1 DEF Start
<1>4. ASSUME NEW t \in Turns, RunTurn(t) PROVE [C!CNext]_statusOf
  <2>1. CASE Keeping(t)
    BY <1>2, <2>1 DEF Keeping, MovesOn
  <2>2. CASE PuttingAside(t)
    BY <2>2, PendingGoes DEF PuttingAside, MovesOn
  <2>3. CASE GraphFails(t) \/ SaveRaises(t)
    BY <1>2, <2>3 DEF GraphFails, SaveRaises, pending
  <2>. QED
    BY <1>1, <1>4, <2>1, <2>2, <2>3, Classified, DraftingRefines, SavingRefines, ReplyRefines
<1>5. CASE Crash
  <2>1. pending' = NoEntry
    BY <1>5, EmptyHolds DEF Crash, pending
  <2>. QED
    BY <1>5, <2>1, PendingGoes DEF Crash
<1>6. CASE UNCHANGED vars
  BY <1>2, <1>6 DEF vars, pending
<1>. QED
  BY <1>3, <1>4, <1>5, <1>6 DEF Next

\* The conversation of a user who awaits replies implements LedgerConsent: the question
\* about an entry is handed to the sender before the entry is saved, it is saved at most
\* once, and once it is put aside it is never saved.
THEOREM ImplementsConsentHolds == AwaitsReplies => (Spec => ImplementsConsent)
<1> SUFFICES ASSUME AwaitsReplies PROVE Spec => ImplementsConsent
  OBVIOUS
<1>1. Init => C!CInit
  <2> SUFFICES ASSUME Init PROVE C!CInit
    OBVIOUS
  <2>1. \A e \in Turns : statusOf[e] = "none"
    BY EmptyHolds, StatusIs, InitTypeOK, DraftsAreTurns DEF Init, Saved, pending
  <2>. QED
    BY <2>1, StatusDomain DEF C!CInit
<1>2. SerialInv /\ [Next]_vars => [C!CNext]_statusOf
  BY ConsentStep
<1>. QED
  BY <1>1, <1>2, SerialInvHolds, PTL DEF Spec, ImplementsConsent, C!CSpec
=============================================================================
