# A TLA+ model of AI-SATHI

AI-SATHI keeps the books of small sellers over a chat: people say or type what
they sold and spent, the program extracts a ledger entry, asks whether it is
right, and writes it when they say yes. This directory holds TLA+ modules that
model the parts of the program where the order of events matters, the TLC
configurations that check them on small instances, and proofs checked by TLAPS.

Paths below are relative to the repository; `backend/` is left out where it is
obvious. `PROJECT.json` names, for every definition that models code, the lines
it stands for.

## 1. The system

| Part | Code | State it keeps | Operations |
|---|---|---|---|
| Webhook | `services/gateway/main.py` | none of its own | receive a delivery, answer 200, start a background turn |
| Dedup, rate limit, daily caps | `shared/db/dedup.py`, migrations 0007 to 0009 | `webhook_dedup`, `rate_limit_counters`, `feature_usage_counters` | insert-or-skip, count, prune |
| Turn processor | `services/gateway/turn_processor.py` | none | run the graph once, send what it answers |
| Conversation graph | `services/orchestrator/graph.py`, `state.py` | the checkpoint of each thread, in memory | load profile, guard, route, one feature node |
| Ledger conversation | `ledger_node`, `ledger_confirm_node`, `ledger_confirm_flow_node` | pending, discussed and rejected entry, turn counter; `ledger_entries` | extract, confirm, correct, decline, save |
| Accounts | `onboarding_node`, `user_profile_node`, `api_router` | onboarding step; `users` | ask name, pin code, consent; create, register, log in, look up |
| Model router | `orchestrator/model_router.py` | circuit breaker, in memory | complete, translate, look at a picture |
| Budget, usage | `guardrails/budget.py`, `metering/usage_tracker.py` | `credit_budget`, cached status, `api_usage` | charge, read status, count |
| Bargaining | `negotiation_node`, `price_chat_node`, `pricing_node` | pending negotiation, pending price chat, agreed price | start, counter, accept, finalize |
| Catalog | `catalog_node`, `vision_service`, `poster_dedup` | blobs, `catalog_creations`, `credit_usage_log` | count, analyse, price, draw, charge, upload, record |
| Voice gateway | `voice_gateway/provider_cascade.py` | none | try providers until one is confident |
| Web API | `services/gateway/api_router.py` | none; `/chat/parse` has a thread of its own | register, login, chat, voice, parse, confirm, list, delete |
| Reports | `ledger_report_node`, `pdf_service` | blobs | count, read, render, upload, link |
| Market, schemes, documents | `market_service`, `rag_service` | read-only | answer questions |

How they interact.  A WhatsApp delivery is an asyncio task.  It awaits the dedup insert and then
the rate-limit upsert, and hands the message to a background task, which downloads media,
transcribes voice and calls `graph.ainvoke` with the phone number as `thread_id`.  The web API
calls the same graph on the same threads, and for `/chat/parse` on the thread `<phone>_parse`.
Nothing serializes two turns of one thread.  A turn reads the newest checkpoint when it starts
and writes one after every node.  Checkpoints are in the process's memory, everything else is in
PostgreSQL.

What is hard:

- *Redelivery.* The platform repeats messages. What keeps a message from running twice is
  one row, and a cron job deletes old rows.
- *Counting across an await.* The hour of the quota is computed before the upsert.
- *State that outlives its message.* A turn's input overwrites only the keys it brings;
  `raw_input_text` of a typed message is still there when a voice note comes, and the other
  way round.
- *Two turns of one thread* each with its own copy of the state.
- *Partial failure.* A save commits before the graph hears of it; a failed save clears the
  pending entry; a database error makes a registered user look new; an answer that cannot be
  sent is logged, and nothing else learns of it.
- *Restart.* The pending entry is lost, the ledger is not.
- *Concurrent calls against a cached budget* and a shared circuit breaker.
- *One person under several names.* A number is stored as it was written, and looked up by
  two different searches, which a username with digits may answer too; rows are made by
  onboarding, by saving, by reading, by registering and by an administrator's login, none
  under a lock.
- *Paying before or after.* A cap is counted before the work, the poster's vendor is charged
  after it, the link is sent later still; each step may fail.
- *Giving up.* `/chat/parse` abandons the graph after three seconds, and the checkpoint
  keeps what the graph had done.

The properties that make each part correct:

| Part | Correct when |
|---|---|
| Webhook | a message starts at most one turn; a phone starts at most its quota; a message that gets in is answered unless its own handler or turn met a failure |
| Ledger conversation | only the user's own yes writes; an entry holds what was said for it; nothing is written unasked, twice, or after a no; a yes saves the entry it answers |
| Accounts | what a person saves is under a row that is of their number, and they see it; who is told to be ready has a row; consent was given |
| Model router, budget | the breaker closes only after a success; spending stays within a stated overshoot of the hard stop |
| Bargaining | no price below the floor is offered or agreed to; a yes settles what was named; a bargain that is over stays over; a settled price is put to one picture |
| Metering | no more work than the cap, none outside it; what is shown was paid for, once, and exists; a limit refuses nobody early |
| Web ledger | a text is answered from itself; amounts were said; a row is the line that was shown |

## 2. The modules

| Module | Models |
|---|---|
| `Admission` | what the webhook promises, without the webhook |
| `Gateway` | deliveries, the two tables, the background task, crash, clock and cron job |
| `MCGateway` | small instances of `Gateway` |
| `GatewayProofs` | proofs about `Gateway` |
| `LedgerConsent` | what becomes of an entry: drafted, shown or failed to be, saved or dropped |
| `Conversation` | one registered phone's turns through the graph, as far as the ledger goes |
| `MCConversation` | small instances: what users say and by which channel |
| `ConversationProofs` | proofs about `Conversation` with any number of turns at once |
| `ConsentProofs` | proofs about `Conversation` with a user who awaits each reply, and that it implements `LedgerConsent` |
| `ModelRouter` | calls to the paid model vendor, its circuit breaker and its credit budget |
| `MCModelRouter` | small instances: which tiers the calls ask for and what they cost |
| `ModelRouterProofs` | proofs about `ModelRouter` |
| `Bargaining` | negotiation, price chat and the poster's price on one phone's thread |
| `MCBargaining` | small instances: what sellers write, and what their profiles hold |
| `BargainingProofs` | proofs about `Bargaining` |
| `Accounts` | `users`, and the books under its rows: onboarding, registration, logins, the web ledger's requests |
| `MCAccounts` | small instances: who writes, registers and logs in |
| `AccountsProofs` | proofs about `Accounts` |
| `WebLedger` | `/chat/parse`, what it reads in a text, and `/ledger/confirm` |
| `MCWebLedger` | a small instance: six texts and what the model makes of them |
| `WebLedgerProofs` | proofs about `WebLedger` |
| `Metering` | daily caps, posters and their charge, reports, voice notes and their limit |
| `MCMetering` | a small instance of `Metering` |
| `MeteringProofs` | proofs about `Metering` |

The modules do not share variables. Each takes from the others' subject what its
own properties need, as an action that may happen either way: `Conversation` takes
the words of a note from `Metering`'s cascade, `Accounts` has one action for all
features, `Metering` reads a budget that is `ModelRouter`'s either way. The two
pairs that are composed are `Gateway` with `Admission` and `Conversation` with
`LedgerConsent`, by refinement.

### Gateway

`stage[d]` is how far the handler of delivery `d` has come; each action is the code between two
awaits. `MarkSeen` is the plain `INSERT` with its primary key, and `hour_bucket`, computed
before the next await. `MarkSeenFails` is the `except` that returns False: the delivery is
dropped, and if the row was committed its retries are taken for duplicates (`swallowed`).
`CountMessage` counts and compares in one statement, as the upsert does, and counts refused
messages too. `CountMessageFails` goes to the catch-all. `StartTurn` and `FinishTurn` are the
background task: a message of an unsupported type ends in silence, every other path sends
something, the failure of the graph included. `FinishTurnUnsent` is the sending that fails: of
an answer it is caught and logged, of an apology it ends the task, and either way the message
has no answer and nothing tries again. `Crash` kills handlers and tasks and keeps the tables.
`Prune` deletes rows older than the retention; a row exactly that old, in hours, may go or stay.

Time is counted in hours. `RetryWindow` and `MaxLatency` are not in the code:
they are the platform's retry period and the longest a handler can take. The
assumption `RetryWindow + MaxLatency < DedupRetention` is what the retention of
the migration must respect for deduplication to work at all; `Tick` stops the
clock while a handler would exceed its latency. `Refused` stands for the checks
before the first database call (size, signature, JSON, phone number).

### Conversation

A turn is a number; what a message says is a member of `Words`, and `Means[w]`
the set of facts the code's tests find in it (is it in AFFIRMATIVE, has it
digits, does it name a crop, ...). State that holds words holds the number of
the turn whose message put them there, so that the model can tell which message
an entry was made from. `Heard` and `Extracted` are the two expressions
`raw_input_text or raw_input_transcript` and `raw_input_transcript or
raw_input_text`; `Received` is how a turn's input is merged into the checkpoint.
A turn works on `state[t]`, and every action that ends a node writes it to
`checkpoint`, as LangGraph does. `SaveCommits` and `SaveReturns` are `_save` on
either side of its commit. Of the amounts of an entry the model keeps whether `_save` takes them
(`AmountKinds`): one out of range is refused with a message and the entry is put aside
(`SaveRefuses`); one that is no number raises at `float()`, before the `try`, so that the turn
ends in an apology and the entry stays pending for the next yes to fail on (`SaveRaises`).
`Reply` hands the turn's messages to the sender, and each may fail: the checkpoint does not learn
of it, so an entry whose question nobody saw stays pending, and the next yes saves it.
`shown`, `unsent` and `failed` are history: the questions that were sent, those that failed to be, and
the turns that met an error.

What is abstracted: items and multi-transaction entries (an entry is the
turn it was drafted in, the words it was drafted from, the entry it changes and the first of its
amounts that is not good);
the keyword lists (`Keyword` gives each word one feature); the language model (it
may answer any feature in `Guess[w]`, or IDLE, which is what every failure
reads as); the nodes of other features, which leave the ledger conversation
alone. The user is registered: their profile loads unless the database fails.

### ModelRouter

The calls of one process (the gateway runs one worker): text calls of the standard
and the advanced tier, and calls about pictures. They share the breaker and
`_status_cache`, which are Python variables, and the vendor's row of
`credit_budget`. `Begin` is a call up to its first await: a fresh cached status
decides at once, otherwise the database is asked. `Select` is the database taking
the statement, `Remember` the row coming back, being cached over whatever was
cached meanwhile, and deciding; between them other calls are charged, so that
statuses are cached late and out of order. `ChargeCommits` and `ChargeReturns`
are the charge on either side of its commit, in the same way. `SelectFails` is
the `except` that reads an unreadable budget as unlimited and caches nothing;
`blind` remembers which calls that happened to. `ChargeFails` loses an answer
the vendor already gave. Pictures neither ask the breaker nor feed it.

The clock is in units of the configuration's choosing. `MaxLatency` is not in the
code: it is the longest a statement's result can be on its way, and `Tick` stops
the clock while one would be older. The vendor and the local model answer when they like,
and either may fail. `degradedAt`, `stoppedAt` and `failedAt` are history: when a
threshold was reached and when a failure was last recorded.

What is abstracted: prompts and answers; the vendor's key is configured. Posters
(`flux_poster_client.py`) follow the same protocol on another vendor's row;
`Metering` has what they are charged for. `route_translation` keeps and changes no state, and
`check_min_request_gap` is called by nothing. A restart would begin again with an
empty cache and a closed breaker, which is `Init` with more credits used.

### Bargaining

Turns, copies and checkpoints are as in `Conversation`. `Route` is the end of
`_route_after_profile_load`: a bargain or a price chat under way takes every
message, a picture too. Prices are in paise. `Offer[w]` is what `_extract_amount`
finds in words `w`, in rupees, and `Signal[w]` what `_confidence_signal` makes of
them. A picture carries the words of the message before it, and the guard reads
those words again.

`ReadFloor` is the one await that matters, the read of `seller_profiles`: once for a bargain,
when it is opened, and once for every reply of a price chat. `StartNegotiation` and
`ContinueNegotiation` are the rest of `negotiation_node`, `ChatAboutPrice` that of
`price_chat_node`, which may go on to `Catalog` in the same turn. `catalog_node` is reduced to
the price and the picture: an early return keeps the price, and a turn whose picture is uploaded
spends it (`Deliver`), whether or not the poster's upload, its link or its row then fails.
`attempts` are those turns, `catalog_creations` the ones that have a row. `outbound[t]` is what
turn `t` says about prices and `opened` the turn that opened the bargain it speaks in; the
second is history.

What is abstracted: the sentences the model adds, which carry no number or are dropped;
`product_type`; the cached poster, whose key has no price in it (the cache never has anything in
it). The products of 0.92 and 1.08 lose fractions of a paisa, and the costs of the instances are
ones for which rounding is exact. No ledger entry is pending (`Conversation` has that part of
the routing), messages are typed or pictures, and a restart, which forgets the bargain, is not
modelled. Nothing in the program writes `seller_profiles`, so `ProfileChanges` is external. A
price chat starts only if the model answers PRICE_CHAT, which its prompt does not list and
nothing forbids.

### Accounts

An identifier is a number in one of the ways it is written (`Bare`, `Plus`, with the country
code only), `web_<username>`, or the literal `admin_session` when it is taken for a number. A
username may have digits in it: `Digits` and `Ends` say which number its last ten digits make
and `web_<username>` ends in, `Tails` what ends in its digits when they are fewer, `Spells`
which identifier the username itself spells out, `Stem` what `phone_number` keeps of it,
`AdminLike` which usernames contain the administrator's number. `Finds` is the search by
`phone_number`, by its ending or by `username`, `FindsLoosely` the `endswith` of the ledger
routes, which every row satisfies when there are no digits, `FindsEnding` the last search of
`_create_user`. `SELECT ... first()` has no order, so any row that matches may be the one.

A request is a handler at work: a turn of the graph (`Receive`, `LoadUserProfile`,
`InputGuard`, `Onboarding`, `OnboardingConsent`, `CreateUser` and what follows, `Feature`), a
request of the web ledger (`Ask`, `FindUser`, `MakeUser`, `WriteEntries`,
`GetEntries`, `DeleteEntries`), a registration, a login. One action is the code
between two awaits of the database, so that two requests find no row and both
insert. `AsyncSession` expires a row when it commits: where the code reads a column
afterwards, the action ends in the answer that failure gives (`UpdateUser`,
`Login`, `LoginAdminUpdates`). `_save` passes over a lookup that fails (`SaveLookupFails`): it
goes on to search by the digits of the row's id (`FindUserById`), and makes a row of those digits
(`Stray`), under which the entry is filed. `agreed`, `unmade` and `registered` are history.

What is abstracted: names, places, profile fields, entries (a line of a batch),
hashing and tokens (the token is its `sub`); `expires`. The pin code's key is not in
`ConversationState`, so LangGraph drops it, and no action has it.

### WebLedger

A text is what the program finds in it: for each clause its numbers in digits, the
amount of a number word, the kinds whose words it has, an item, a word for
money; and for the whole whether a word for a measure, a keyword of a feature or a
word of a follow-up is in it. `Fallback` is `_extract_multi_ledger_fallback`,
`Amended` the rule that the only number is the amount, `Continued` the amount said
without its item. `LedgerExtract` is `ledger_extraction_node` on the web's thread,
`Answer` what `/chat/parse` makes of the pending entry, line by line up to one
`float()` refuses (`Convertible`); an amount the model gave as a string converts, but raises where
the confirmation adds it up (`Raises`). `TimesOut` is `wait_for` giving up in any node:
the node's own update is lost and earlier ones stay in `checkpoint`.
`Confirm`, `FindUser`, `Commit` and `ConfirmFails` are `/ledger/confirm`, asked for as often as a
client likes.

What is abstracted: items, dates and confidence (`"unsure"` is below the
threshold); translation, texts being in Bengali letters for the most part; the
user's row, which is `Accounts`.

### Metering

A turn is a number, and everything stored, charged or written names its turn. A
handler goes from stage to stage, one per await: `ChargeCap` is the upsert and the
comparison, with the date read before; `UploadPhoto`, `HardStop`, `FluxSubmit`,
`FluxPoll`, `FluxDownload`, `FluxCharge`, `Compose`, `UploadPoster`, `LinkPhoto`
and `Record` are the rest of `catalog_node`, `generate_poster` and
`generate_poster_image`. `FluxFails` is whatever `FluxUnavailableError` is raised for.
An upload, a charge or a count that fails may have happened. `Tier` and `Count` are
`check_and_increment_api_usage` with the month read between two statements;
`CountFails` is its `except`, and all there is when the table is missing
(`has_api_usage`: no migration makes `api_usage`). `Saaras` tries the models, `Whisper` is
the last resort. `worked`, `metered`, `saaras` and `heard` are history: who was let
through as which of the day, what was said of each note, whom the paid transcriber
was asked for, and what words came of it.

What is abstracted: pictures, captions and PDFs, what a report sums up; the poster cache, which
never has anything in it. A phone number is no `users.id`, so the plan is the free one.

## 3. The runs

| Run | What it shows | States |
|---|---|---|
| `gateway` | `AtMostOneTurn`, `RateBound`, the inductive invariant; `Gateway` implements `Admission`; a delivery that gets in is answered | 0.78 M |
| `conversation_typed` | two turns at a time, typing and tapping: `ConsentGiven`, `ExtractsOwnMessage`, the inductive invariant | 4.4 M |
| `conversation_serial` | four turns, one at a time, all channels: `SavedOnce`, `DeclinedStaysOut`; implements `LedgerConsent` | 7.7 M |
| `conversation_settles` | five turns: a typed yes in time saves the entry it answers, and one too late drops it | 0.25 M |
| `conversation_stale_yes` | violated: a spoken no saves the entry | |
| `router` | an advanced and a standard text call beside a picture: `BudgetHeeded`, `RefusedForCause`, `BooksBalance`, `DownVendorLeftAlone`, the inductive invariant | 2.9 M |
| `bargaining_overlap` | two turns at a time and a profile that changes: `NoDealBelowFloor`, `SettledWasNamed`, `PriceCoversCost`, the inductive invariant | 2.5 M |
| `bargaining_serial` | six messages and pictures, one at a time: `BargainCapped`, `SettledPriceServesOnce` | 7.6 M |
| `accounts` | a seller over chat and the web ledger while her number, or a username that is her number, is registered and the administrator logs in: `FiledUnderCaller`, `ReadyHasRow`, `ListsOwnBook`, the inductive invariant with `ConsentAnswered` | 2.6 M |
| `accounts_handles` | violated: a user without a number is shown another's books | |
| `web_ledger` | two handlers on one `_parse` thread: `AnswersOwnText`, `OneNumberIsTheAmount`, `AmountsWereSaid`, `SavedAsShown`, the inductive invariant; a reading is answered | 0.58 M |
| `metering` | posters, reports and notes, two at work at once, two days: `CapHeld`, `OnlyAdmittedWork`, `PosterPaidOnce`, `DeliveredIsStored`, `LimitHeld`, `RefusedForCause`, the inductive invariant with `TranscriptTrusted` | 4.4 M |

Bounds. Two messages of one phone, two deliveries of each, one crash and one error are enough
for every pair of handlers to race and for each step to be interrupted. A quota of one makes the
messages compete; four hours (0 to 3) are longer than the retention plus the latency, so that
rows and counters are really pruned, and buckets change, under a handler. A conversation needs
three turns for draft-correct-confirm, and four for draft, decline, amend, confirm; two turns at
a time is the least that interleaves. `MAX_CONFIRMATION_TURNS` replies follow a draft in five
turns, or in four when the entry was itself an amendment: `conversation_settles` has five,
without a crash, which would only begin again. The amounts are good ones only where what is
asked is who consented, good and refused ones where it is what is saved, and of all kinds where
it is whether a yes settles. One turn may meet errors; in it everything that can fail may.

In `router` the three calls cost enough to pass both thresholds while one
of them is still in flight, and the clock outlasts a status and a statement, so
that a stale status is both used and given up. The breaker opens at the first failure,
while another call is in flight, whose late answer closes or extends it, and is
asked again after its cooldown.

A bargain needs two turns to name a price and settle it, and a third to overlap
with the second; its limit is met in five (an opening that makes an offer, three
more, and the one that is refused), and the sixth would be heard in a bargain that
is over. Of the offers one is far below the floor, one above it, and one is the floor as
it is printed, 40 paise short. A price chat that is opened, lowered and settled, and two
pictures after it, are five turns too. The profiles are a floor that is not whole, a
dearer one, and one with figures below zero, which the columns allow.

In `accounts` one seller is enough: what goes wrong with a row goes wrong between two
handlers about one number, written in two ways, beside the administrator, whose number and
username the program knows by heart. Three requests besides the messages let a
registration, a save and a list interleave, or a save, a list and a deletion; messages are
bounded by the thread's steps, as the states of a conversation are finite. A username registers with
the seller's number, or without one; it is itself the seller's number as her messages have it, so
that every search by ending or by username may find a stranger's row. (Two usernames, one with the
number and the other without, were checked apart in 3.6 M states, and a third with the
administrator's number in 5.6 M; both hold, and take too long for a run.) `accounts_handles` has
a user without a number, beside one with the seller's.

In `web_ledger` the six texts differ in what the rules tell apart (one number,
several, none, a measure, an amount without an item, small talk, a bargain), and the model's answers
are sure, unsure, malformed, missing, of an unknown type, of an amount that is a
string or no number, and of more lines than are taken. Two readings and two attempts are the least
in which one leaves something for the other; more than two change nothing but which of
them it was.

In `metering` caps and limit are one, so that the second request is the one too
many, and the third is the one after; days and months are the same length, so that
midnight comes between any two steps and is the end of a month, too.

Every inductive invariant begins with its module's `TypeOK`, so that the runs which
check it check the types as well.

Deadlock checking is off: the clock, the number of deliveries, turns and calls
are bounded, and users may stop writing.

Fairness. `Gateway!FairSpec` and `Conversation!FairSpec` say only that the event
loop runs every task that is ready: asyncio's scheduler is FIFO, and each
action's await ends (every client call in the code has a timeout). `WebLedger!FairSpec`
assumes less: the clock of `wait_for` and the code after it; neither the graph nor the
model nor the database need ever answer. Nothing is
assumed of users, of the platform's retries, of the clock or the cron job.

Which users. `ConsentGiven` and `ExtractsOwnMessage` hold of a user who types and taps, with any
number of turns side by side. A user who speaks as well meets the first finding and the stale
words of section 5. `SavedOnce`, `DeclinedStaysOut` and `ImplementsConsent` hold of a user who
awaits each reply, whatever channel they use. They do not hold of overlapping turns: two yes in
a row both find the pending entry, and both save it. `NoDealBelowFloor`, `PriceCoversCost` and
`SettledWasNamed` hold with any number of turns side by side. `BargainCapped` and
`SettledPriceServesOnce` hold of a user who awaits each reply, and fail without: a turn that
read its copy before a bargain ended, or before an attempt at a poster spent the price, writes
it back. `ConsentAnswered` holds where nobody mixes typing and speaking. `FiledUnderCaller` says
that an entry is under a row that is of the caller's number: one whose `phone_number` ends in
it, one that registered with the number as its username, or one `_save` made of the id of either
(`OwnRow`). It does not say whose row that is: a registration with another's number for a
username makes a row that her searches find (section 5). `ListsOwnBook` holds as long as one row
is of a number; a registration that spells the number in another way, or has it for a username,
makes a second, and then a list shows one part. `DeliveredIsAnswered` excepts a message whose
admitted delivery met an error or a crash, or none of whose deliveries came as far as a row;
other messages' errors are no excuse. `YesSettles` excepts a yes whose own turn met an error.
`AnswersOwnText` excepts readings that found the profile unreadable or a bargain under way.
`LimitHeld` excepts notes whose counting failed, which are let through.

## 4. What is proved

`GatewayProofs`, for any messages, attempts, phones, quotas, retention and
numbers of faults and crashes, from `GatewayAssumption` and `RetentionAssumption`:

- `TypeCorrect`: `Spec => []TypeOK`;
- `Inductive`: `Spec => []IInv`;
- `AtMostOneTurnHolds`, `RateBoundHolds`: the two safety properties;
- `ImplementsAdmissionHolds`: the webhook implements `Admission`.

`AtMostOneTurn` is not inductive: nothing in it prevents a second delivery from
finding the dedup row gone. `IInv` says why it cannot. All retries of a message
arrive within `RetryWindow` of each other and are handled within `MaxLatency`
(`Timely`); a fresh delivery's row stays until `DedupRetention` after it
(`RowOutlivesRetries`); so no second delivery is in its handler when the row goes,
and at most one is fresh (`FreshIsUnique`). `RateBound` needs that the counter
of a bucket covers the turns admitted in it until it may be pruned, and that no
handler holds a bucket that old (`CounterCovers`). The refinement follows from both
properties: what `Admission` calls the status of a message is the stage of the one
delivery of it that was admitted (`TurnsAreAdmitted`), and its quota the turns
started.

`ConversationProofs`, for any words and meanings, keyword table, model guesses,
messages, and numbers of turns, turns at once, faults and crashes, from
`ConversationAssumption`:

- `TypeCorrect`: `Spec => []TypeOK`;
- `TypistInvHolds`, `ConsentGivenHolds`, `ExtractsOwnMessageHolds`: the invariant
  and the two safety properties, for a user who types and taps (`OnlyTypes`, which
  is a hypothesis of the three theorems: without it they are false, section 5).

`ConsentGiven` is not inductive: a turn at `ledger_confirm` may in principle be
hearing another turn's yes. `TypistInv` adds that it cannot. A turn that is in the
graph has its own message as `raw_input_text`, although it took its state from a
checkpoint another turn wrote, and no transcript is there to be extracted in its
place (`OwnWords`); the node of the form is reached by taps only
(`FormsAreTapped`); and whatever entry is pending, discussed or rejected somewhere
was drafted by some turn (`EntriesAreDrafted`), so that an amendment is never
mistaken for a fresh entry. The words of the checkpoint are not part of the
invariant: they are an older turn's, and `Received` replaces them.

`ConsentProofs`, from the same assumption and the hypothesis `AwaitsReplies` (one turn at a
time), whatever the user says and by whichever channel: `SerialInvHolds`, `SavedOnceHolds`,
`DeclinedStaysOutHolds` and `ImplementsConsentHolds`. That an entry is written once is not
inductive either: a turn that saves must not find its entry in the ledger already, although
`_save` commits some awaits before the pending entry is cleared, and a crash or an error may
come in between. `SerialInv` says why it does not: the turn at work has the checkpoint as its
state, and is alone (`OneAtATime`); every entry anywhere is the draft of a turn that has come to
its reply (`OnlyDrafts`), so that a turn drafts something new; the question about what is
pending was handed to the sender, or its drafting turn is about to, and it differs from what was
last rejected (`PendingIsAsked`); and it is in the ledger only while its turn is between commit
and return (`SavedIsSettled`); a crash there forgets the checkpoint, and an error there is one
that the turn survives by clearing the entry. The refinement goes by the steps of one turn:
`Keeping`, `PuttingAside`, drafting, the commit, and the reply. What it promises is what the
code can know: an entry whose question failed to be sent is `unseen`, and may be saved like one
that was shown. TLC finds `SerialInv` true of the instance of `conversation_serial`.

`ModelRouterProofs`, for any calls, costs, thresholds, cooldown, lifetime of a
status, latency and number of faults, from `RouterAssumption`:

- `TypeCorrect`: `Spec => []TypeOK`;
- `RouterInvHolds`: the inductive invariant;
- `RefusedForCauseHolds`, `BudgetHeededHolds`, `DownVendorLeftAloneHolds`: an
  invariant and two action properties;
- `BooksInvHolds`, `BooksBalanceHolds`: the inductive invariant of the books, and the
  books.

`BudgetHeeded` is about two instants: a threshold is reached, and some time later a call asks
the vendor. What connects them is the status in between. `RouterInv` says of a status on its way
that it is at most `MaxLatency` old and was true of the budget when it was read
(`ReadsAreRecent`), and of the cached one that it was true no earlier than `MaxLatency` before
it was cached (`CacheIsRecent`); credits only grow, so that a status which says "reached" stays
true and one which does not dates from before. Together with the lifetime of a cached status
this is the bound of `StatusTTL + MaxLatency`. The database is asked a second time only by calls
that could not read it the first (`AsksTwiceIfBlind`), which the property excepts.
`DownVendorLeftAlone` needs that `open_until` always is the cooldown after the last failure once
the threshold is reached (`BreakerCoolsDown`). `BooksBalance` is a sum over the log, by
`MapThenSumSet`, which adds the rows in an order of its own. The proof shows, by induction on
the number of rows, that its recursive function exists (`SumsExist`), that the rows may be added
in any order (`AnyOrder`) and among others as well as alone (`SumsAgree`), so that a new row
adds its price (`TotalGrows`). The induction is `AllNats`, from the least number outside a set:
the library's induction theorems take an operator and cannot be used here. `BooksInv` adds that
the log is finite and that a charged call is in it until it returns; a call being charged is in
no row yet, so its row is new.

`BargainingProofs`, for any words, offers, profiles, and numbers of turns, turns at
once, faults and changes, from `BargainingAssumption`:

- `TypeCorrect`: `Spec => []TypeOK`;
- `BargainInvHolds`: the inductive invariant;
- `NoDealBelowFloorHolds`, `PriceCoversCostHolds`, `SettledWasNamedHolds`: the three
  safety properties;
- `CounterIsFloorHolds`: haggling moves nothing, what is offered in a bargain is its floor
  (TLC finds the same of both instances);
- with `AwaitsReplies` (one turn at a time) as a hypothesis: `SerialInvHolds`, a second inductive
  invariant, and `BargainCappedHolds` and `SettledPriceServesOnceHolds`.

They speak of answers; what a turn answers depends on a copy of the state that any other turn
may have written, long ago. `BargainInv` therefore says of every copy, the checkpoint and each
turn's (`CopiesSound`), that the bargain in it has the floor computed by the turn that opened it
and a counter offer that some turn gave, and the chat in it a price that covers some computed
floor and that some turn proposed. Overwriting one sound copy by another keeps this. It stays
true as floors are read and answers given because a turn reads once and answers once
(`AnswersLater`): what a copy goes back to never changes.

`BargainCapped` counts answers, and the code counts in `pending_negotiation.turns`, which an
overlapping turn may set back; with turns side by side it is false. `SerialInv` says that
without them it cannot be: a turn starts when those before it are over (`InOrder`), so its copy
is the checkpoint (`CopyIsNewest`); the counter offers made in the pending bargain are at most
its `turns`, and it has not ended (`BargainCounted`). A bargain that has ended is not pending,
and can be neither continued nor opened again, since each is opened by a turn of its own.
`SettledPriceServesOnce` looks back from an attempt at a poster over all the answers;
`AgreedIsUnused` says the same looking forward: `agreed_price` is the price settled last, while
no attempt was made since, and 0 once there was one. An attempt depends on earlier answers only
(`PosterStaysRight`), so later turns leave it right. TLC finds `SerialInv` true of the instance
of `bargaining_serial`.

`AccountsProofs`, for any numbers, usernames, writers, registrations, requests, entries and
faults, from `AccountsAssumption`: `TypeCorrect`, `AccountsInvHolds`, `FiledUnderCallerHolds`,
`ReadyHasRowHolds`, `ConsentAnsweredHolds` (under `OnlyTypes`) and `ListsOwnBookHolds`. A row is
found, or made, some awaits before an entry is filed under it, so `FiledUnderCaller` is not
inductive. `AccountsInv` says of a handler what it has found (`FindsOwnRow`, `LoadsOwnProfile`):
a row of the number it acts for, or of someone who is nobody's seller; that no request makes a
row of a seller but under her number (`MakesNoSeller`); that a username is the one its row
registered with, or the administrator's (`NamesAreRegistered`); and of a thread that is past its
questions that a row was there, since rows are never deleted. Of the usernames,
`AccountsAssumption` says only what their digits are, and that the administrator's has none; of
a row made of an id, that its digits are nobody's number and that nobody logs in with them.

`WebLedgerProofs`, for any texts, model's answers, handlers and faults, from
`WebLedgerAssumption`: `TypeCorrect`, `WebLedgerInvHolds`, `AnswersOwnTextHolds`,
`SavedAsShownHolds`, `EntriesSoundHolds`, `OneNumberIsTheAmountHolds` and
`AmountsWereSaidHolds`. The types need that the largest number and the first kind exist
(`LargestIsOne`, `KindTyped`, by the well-foundedness of the naturals). `AnswersOwnText` is
about what a handler's own copy holds when it ends: a plain entry goes from the guard to
`ledger_extraction_node` and nowhere else, and that node leaves either its own entry or none
(`ReadsOwn`). `SavedAsShown` needs that an attempt's rows are written in one step, by the one
handler that has its number. The two properties of amounts speak of the checkpoint and of
answers, but any handler's copy may become either, after its request was given up and others
have written. `EntriesSound` says of the pending entry of every copy, and of every answer, that
its amounts fit the text it was read in; the lemmas show it of each way an entry is made (the
model's, the rules', the fallback's, an amount put into an older entry) and that a new text
disturbs no older one.

`MeteringProofs`, for any users, caps, limit, models, polls, days and requests, from
`MeteringAssumption`: `TypeCorrect`, `MeteringInvHolds`, the six properties of the run and
`TranscriptTrustedHolds`. `CapHeld` and `LimitHeld` bound the size of a set, and sizes are not
what a step changes by itself: `CapsCounted` and `NotesCounted` say instead that each turn that
was let through has the count it was given, that no two of a day have the same, and that none is
above the cap. A map from turns to counts is then an injection into `1..Cap`. `RefusedForCause`
goes the other way, from the count to the notes: `UsageCounted` says that a month's count is
never more than the notes told of, those whose count failed after it was made included. The rest
of the invariant (`RequestSound`) says of a handler at each stage what was done for its turn,
and not yet done; `OthersStand` shows once that a step about one turn leaves it true of all the
others.

Model-checked only: the liveness properties `DeliveredIsAnswered`, `YesSettles` and
`ReadingAnswered` (the prover does not handle fairness or ENABLED). The two properties that
are violated, `CancelWritesNothing` and `OnlyOwnListed`, are refuted by TLC.

## 5. What the documents say and the code does not do

- `docs/security.md:223` says cancellations execute no database write. A typed yes
  that meets a database error stays in `raw_input_text`; a spoken no after it is
  heard as that yes (`ledger_confirm_node.py:78`). Run `conversation_stale_yes`.
- `onboarding_node.py:82` tells a new user that only they can see their accounts. The
  ledger routes look a web account without a number up by the last ten of no digits,
  and `endswith('')` is true of every row (`api_router.py:444`). Run `accounts_handles`.

Seen while reading, without a run.

Conversations: after a voice note, a typed sale is extracted from the voice note
(`ledger_node.py:337`; `docs/architecture.md:670`). A negotiation is to end after four turns
(`docs/architecture.md:247`), but a reply without an amount stores the bargain as it was, its
count too (`negotiation_node.py:213`), and until it ends all the user says is taken for an
offer. `README.md:20` and `docs/architecture.md:19` say conversations are checkpointed in
PostgreSQL, and `graph.py:199` uses a `MemorySaver`, so that a restart forgets the entry that
awaits its yes; `docs/architecture.md:233` says accepting is a comparison of offer and floor,
and the fifth offer is refused before it is compared (`negotiation_node.py:219`); a floor of
205.40 is offered as ₹205 (`negotiation_node.py:260`), and the customer who then names ₹205 is
refused; every counter offer is the floor itself, since the midpoint of the floor and an offer
below it is never above the floor; a margin of zero is read as 0.30; "130.40 টাকা" is read as
40; the price the chat promises to use "from now on" is used for one poster; "ok", "okay" and
"ঠিক আছে" are in AFFIRMATIVE but the input guard answers them first, so they never confirm;
`outbound_messages` accumulates, so the webhook sends a thread's old messages again with each
turn; an entry with an amount that is no number, which the model may answer for instalments or
wages, makes each yes raise, and stays pending (`ledger_confirm_node.py:216`); an entry whose
question failed to be sent is saved by the next yes (`turn_processor.py:60`); a settled price is
spent on a poster that then fails (`catalog_node.py:74`); calls of the standard tier go on, and
go on being charged, after the hard stop; a budget that cannot be read is taken for one without
limits; when the breaker's cooldown is over every waiting call tries the vendor, not one; and
one late success closes it; `text()` is called without a statement in `response_cache.py`,
`poster_dedup.py`, `aggregator.py` and `storefront.py`, so those statements fail.

Accounts: a username that is, or ends in, a telephone number is found by that seller's searches
(`user_profile_node.py:26`, `api_router.py:444`), so that what she saves may be filed under its
row; `_save` files an entry under a row made of the digits of an id when its lookup fails
(`ledger_confirm_node.py:244`). A number that came over WhatsApp and is registered on the web
has two rows, and its books are in two. `GET /ledger` makes a row, with consent, of whoever
asks. When the INSERT of onboarding fails, the user is told that all is ready and has no row. A
first login with a new password, and `_create_user` of a user who exists, read a column after
the commit that expired it, and fail after having stored what they should (`api_router.py:234`);
the administrator's login goes on with its emergency profile. The pin code is not in
`ConversationState` and is never stored. An old typed yes gives consent for a spoken answer.

Entries: `/ledger/confirm` sent twice writes twice. `/chat/parse` may answer with
an older text's entry when the new one is not understood in time. Where nothing is
understood, an income of ₹100 is made up (`ledger_node.py:326`). The amounts of one
malformed transaction cut off those after it. The confirmation adds borrowed money to the income
and recovered money to neither side, a report counts both as expense; it
looks for `INCOME` in capitals (`generator.py:87`) while the web stores `income`, and
`metrics.py` looks for small letters only.

Metering: `usage_tracker.py:67` writes `api_usage`, and migration 0010 makes
`api_usage_monthly`: without a table every note is let through. `/voice` passes a
telephone number where `users.id` is asked for, so nobody's plan counts; notes of WhatsApp are
not metered, and posters are metered by the vendor's budget only. `day_bucket` is a
string for a DATE column, which asyncpg may refuse at each call; then no photo or report
is worked on at all (`CapFails`). A poster whose download or charge fails has been
paid to the vendor and is shown to nobody; a charge that fails ends the turn without a
reply. An empty transcript with the default confidence of 0.95 ends the cascade
before the local model is asked.

## 6. What is left

What could be added, in order of worth: `ListsOwnBook` across a registration that joins the two
rows, if the code comes to do so; a composition of `Gateway` and `Conversation`, in which a
redelivered yes saves nothing twice (`docs/engineering-review.md:17`): each half is there,
`AtMostOneTurn` and `SavedOnce`.

Not modelled, and why: market, schemes and document retrieval answer questions from read-only
data, and no other component reads what they answer; the sums and layout of reports, image
processing, keyword lists, translation and the tables of `shared/knowledge` are functions of
their input without state; the response cache and the storefront write nothing, their statements
being empty; document upload and listing store a file under its name and list it; password
hashing and tokens are library calls; observability, deployment and the frontend are input and
output. What they can do to the rest is a failed call, and that is modelled where they are
called.
