------------------------------ MODULE Accounts ------------------------------
(* The users table, and the books kept under its rows: onboarding over chat, *)
(* registration and login on the web, and the requests of the web ledger.    *)
(*                                                                           *)
(* A phone number is stored as it was written: 98300..., +9198300... or      *)
(* 9198300..., and a web user without a number as web_<username>.  Every     *)
(* request looks its user up again, by one of two searches, and acts on the  *)
(* row it found some awaits later.  The searches go by the digits of what    *)
(* they are given and by how the stored text ends, and a username may have   *)
(* any digits in it, or be a telephone number itself.                        *)
EXTENDS Naturals, FiniteSets

CONSTANTS
  Numbers,      \* ten-digit telephone numbers
  Handles,      \* usernames
  Digits,       \* of a username, the number its last ten digits make, or Nobody
  Ends,         \* the number web_<username> ends in, or Nobody
  Tails,        \* all that ends in its digits, where they are fewer than ten
  Spells,       \* the identifier it spells out, or Nobody
  Stem,         \* its first fifteen characters
  AdminLike,    \* the usernames with the administrator's number in them
  AdminNumber, Admin,  \* the number and username that login and profile name
  Nobody,       \* no row, no number
  Requests,     \* the handlers that can be at work at once
  Strangers,    \* identifiers that reach the graph without a token
  Writers,      \* identifiers that write over chat at all
  Signups,      \* the <<username, number>> pairs that register
  Messages,     \* what is sent over chat: records [channel, words]
  MaxLines, MaxBatches, MaxAsked, MaxFaults

Forms == {"bare", "plus", "country"}

\* What a turn, and the "sub" of a token, can be of.  "session" is the user_id
\* "admin_session" when it is taken for a telephone number.
AdminSession == [owner |-> Admin, form |-> "session"]
Identifiers == [owner : Numbers, form : Forms]
                 \cup [owner : Handles, form : {"handle"}] \cup {AdminSession}

Bare(n) == [owner |-> n, form |-> "bare"]
Plus(n) == [owner |-> n, form |-> "plus"]
Web(h) == [owner |-> Stem[h], form |-> "handle"]

\* The row _save makes of the id of a row it could not look up: its phone_number
\* is +91 and digits of that id, which are nobody's number.
Stray(u) == [owner |-> u, form |-> "stray"]
Phones == Identifiers \cup {Stray(u) : u \in Identifiers}

\* The user_ids "admin_session" and "session_user", which are no row's.
NoId == [owner |-> Nobody, form |-> "session"]

Rows == [username : Handles \cup {Nobody}, password : BOOLEAN,
         consent_given : BOOLEAN]

Words == {"none", "yes", "other", "trivial"}
Channels == {"text", "audio", "image", "chat", "voice"}

ASSUME AccountsAssumption ==
  /\ AdminNumber \in Numbers /\ Admin \in Handles
  /\ Nobody \notin Phones \cup Numbers \cup Handles \cup Rows \cup {NoId}
  /\ Numbers \cap Handles = {}
  /\ Strangers \subseteq Writers /\ Writers \subseteq Identifiers
  /\ Signups \subseteq Handles \X (Numbers \cup {Nobody})
  /\ Digits \in [Handles -> Numbers \cup {Nobody}]
  /\ Ends \in [Handles -> Numbers \cup {Nobody}]
  /\ \A h \in Handles : Ends[h] \in {Digits[h], Nobody}
  /\ Tails \in [Handles -> SUBSET Phones]
  /\ Spells \in [Handles -> Identifiers \cup {Nobody}]
  /\ Stem \in [Handles -> Handles] /\ AdminLike \subseteq Handles
  /\ Digits[Admin] = Nobody /\ Tails[Admin] = Phones /\ Spells[Admin] = Nobody
  /\ Messages \subseteq [channel : Channels, words : Words]
  /\ MaxLines \in Nat \ {0} /\ MaxBatches \in Nat
  /\ MaxAsked \in Nat /\ MaxFaults \in Nat

VARIABLES
  users,           \* phone_number, which is unique, -> the row, or Nobody
  ledger_entries,
  tokens,          \* the "sub" of every token given out
  checkpoint,      \* the state of each thread, in memory
  request,
  batches,         \* how many saves were asked for
  asked,           \* how many requests other than messages
  faults,
  agreed,          \* history: who answered the question for consent with yes
  unmade,          \* history: threads whose INSERT failed for lack of a database
  registered       \* history: <<row, username>> of every registration

history == <<agreed, unmade, registered>>

vars == <<users, ledger_entries, tokens, checkpoint, request, batches,
          asked, faults, history>>

Entries == [batch : 1..MaxBatches, line : 1..MaxLines, user : Phones,
            by : Identifiers]
Steps == {"WELCOME", "AWAIT_NAME", "AWAIT_BLOCK", "AWAIT_CONSENT", "DONE"}
States == [onboarding_step : Steps, is_new_user : BOOLEAN,
           user_id : Identifiers \cup {NoId, Nobody},
           raw_input_text : Words, raw_input_transcript : Words]
Stages == {"answered", "load_user_profile", "input_guard", "onboarding",
           "create_user", "update_user", "insert_user", "fallback", "feature",
           "user", "user_by_id", "new_user", "entries", "list", "delete",
           "register", "add_user", "admin", "admin_update", "admin_insert",
           "admin_again"}

Fresh == [onboarding_step |-> "WELCOME", is_new_user |-> FALSE, user_id |-> Nobody,
          raw_input_text |-> "none", raw_input_transcript |-> "none"]
Idle == [at |-> "answered", who |-> Nobody, row |-> Nobody, username |-> Nobody,
         then |-> "answered", graph |-> FALSE, batch |-> 0, lines |-> 0,
         words |-> "none", state |-> Fresh]

Init ==
  /\ users = [u \in Phones |-> Nobody]
  /\ ledger_entries = {} /\ tokens = {}
  /\ checkpoint = [i \in Identifiers |-> Fresh]
  /\ request = [r \in Requests |-> Idle]
  /\ batches = 0 /\ asked = 0 /\ faults = 0
  /\ agreed = {} /\ unmade = {} /\ registered = {}

-----------------------------------------------------------------------------
(* The two searches.  SELECT ... .first() has no order: any of them.       *)

Dialled(i) == i.form \in Forms
Registered == {u \in Phones : users[u] # Nobody}

LastTen(i) == CASE Dialled(i) -> i.owner [] i.form = "handle" -> Digits[i.owner]
                [] OTHER -> Nobody

\* Of what is stored, a random id's digits are not a number anybody has.
EndsIn(u, n) ==
  /\ n # Nobody
  /\ (Dialled(u) /\ u.owner = n) \/ (u.form = "handle" /\ Ends[u.owner] = n)

Named(u, i) == users[u].username # Nobody /\ Spells[users[u].username] = i

\* load_user_profile and _create_user: the same text, as phone_number or as
\* username, or, of ten digits, all that ends in them.
Finds(i) == {u \in Registered : u = i \/ EndsIn(u, LastTen(i)) \/ Named(u, i)}

\* Deliberately wrong variant: of the ten digits, only what has its country code is shortened.
FindsLooselyAsWritten(i) ==
  {u \in Registered : u = i \/ i.form # "country" \/ EndsIn(u, LastTen(i))}

\* _get_or_create_user and _save: what ends in the digits, however few, and not
\* by username.  Every text ends in no digits.
FindsLoosely(i) ==
  {u \in Registered : u = i \/ EndsIn(u, LastTen(i))
                        \/ (LastTen(i) = Nobody /\ u \in Tails[i.owner])}

\* The last search of _create_user: by ending, or by the phone as a username.
FindsEnding(i) == {u \in Registered : EndsIn(u, LastTen(i)) \/ Named(u, i)}

At(r, stage) == request[r].at = stage
Goes(r, stage) == request' = [request EXCEPT ![r].at = stage]
GoesWith(r, stage, u) == request' = [request EXCEPT ![r].at = stage, ![r].row = u]
Answers(r) == request' = [request EXCEPT ![r] = Idle]
AddUser(i, row) == users' = [users EXCEPT ![i] = row]
Fault == faults < MaxFaults /\ faults' = faults + 1

\* A node's update goes to the turn's state and, when the node ends, to the
\* checkpoint of its thread.
Updates(r, stage, s) ==
  /\ request' = [request EXCEPT ![r] = IF stage = "answered" THEN Idle
                                       ELSE [@ EXCEPT !.at = stage, !.state = s]]
  /\ checkpoint' = [checkpoint EXCEPT ![request[r].who] = s]

-----------------------------------------------------------------------------
(* A turn of the graph, up to the nodes that are Conversation's.           *)

Received(s, m) ==
  CASE m.channel = "voice" -> [s EXCEPT !.raw_input_text = m.words,
                                        !.raw_input_transcript = m.words]
    [] m.channel = "audio" -> [s EXCEPT !.raw_input_transcript = m.words]
    [] m.channel = "image" -> s
    [] OTHER -> [s EXCEPT !.raw_input_text = m.words]

Heard(s) == IF s.raw_input_text # "none" THEN s.raw_input_text
                                         ELSE s.raw_input_transcript

\* POST /chat has a token, the form of POST /voice names any number, and
\* messages come from a number with its country code.
Reaches(i, channel) ==
  CASE channel = "chat" -> i \in tokens
    [] channel = "voice" -> i \in Strangers
    [] OTHER -> i \in Strangers /\ i.form = "country"

Receive(r, i, m) ==
  /\ At(r, "answered") /\ Reaches(i, m.channel)
  /\ request' = [request EXCEPT ![r] =
       [Idle EXCEPT !.at = "load_user_profile", !.who = i, !.words = m.words,
                    !.state = Received(checkpoint[i], m)]]
  /\ UNCHANGED <<asked, users, ledger_entries, tokens, checkpoint, batches, faults, history>>

Profiled(s, user) ==
  IF user = Nobody THEN [s EXCEPT !.is_new_user = TRUE, !.user_id = Nobody]
  ELSE [s EXCEPT !.is_new_user = FALSE, !.onboarding_step = "DONE", !.user_id = user]

LoadUserProfile(r) ==
  /\ At(r, "load_user_profile")
  /\ \E user \in (IF Finds(request[r].who) = {} THEN {Nobody}
                  ELSE Finds(request[r].who)) :
       Updates(r, "input_guard", Profiled(request[r].state, user))
  /\ UNCHANGED <<asked, users, ledger_entries, tokens, batches, faults, history>>

KnownByHeart(i) ==
  IF Dialled(i) THEN i.owner = AdminNumber ELSE i.form = "handle" /\ i.owner \in AdminLike

\* A database error reads as a new user, the administrator's as a user of no row.
LoadUserProfileFails(r) ==
  /\ At(r, "load_user_profile") /\ Fault
  /\ Updates(r, "input_guard",
             Profiled(request[r].state,
                      IF KnownByHeart(request[r].who) THEN NoId ELSE Nobody))
  /\ UNCHANGED <<asked, users, ledger_entries, tokens, batches, history>>

InputGuard(r) ==
  LET s == request[r].state
      onboards == s.is_new_user \/ s.onboarding_step \notin {"WELCOME", "DONE"}
      next == CASE Heard(s) = "trivial" -> "answered"
                [] onboards -> "onboarding" [] OTHER -> "feature"
  IN  /\ At(r, "input_guard") /\ Updates(r, next, s)
      /\ UNCHANGED <<asked, users, ledger_entries, tokens, batches, faults, history>>

\* What a message makes of the step, the yes to the question for consent aside.
NextStep(s) ==
  CASE s.onboarding_step = "WELCOME" -> "AWAIT_NAME"
    [] s.onboarding_step = "AWAIT_NAME" /\ Heard(s) # "none" -> "AWAIT_BLOCK"
    [] s.onboarding_step = "AWAIT_BLOCK" /\ Heard(s) # "none" -> "AWAIT_CONSENT"
    [] OTHER -> s.onboarding_step

\* Deliberately wrong variant: whatever is answered.
ConsentsAnyhow(s) == s.onboarding_step = "AWAIT_CONSENT"

Consents(s) == s.onboarding_step = "AWAIT_CONSENT" /\ Heard(s) = "yes"

Onboarding(r) ==
  LET s == request[r].state
  IN  /\ At(r, "onboarding") /\ ~Consents(s)
      /\ Updates(r, "answered", [s EXCEPT !.onboarding_step = NextStep(s)])
      /\ UNCHANGED <<asked, users, ledger_entries, tokens, batches, faults, history>>

\* Deliberately wrong variant: the thread is marked as done before the row is created.
OnboardingConsentEarly(r) ==
  /\ At(r, "onboarding") /\ Consents(request[r].state)
  /\ agreed' = IF request[r].words = "yes" THEN agreed \cup {request[r].who}
               ELSE agreed
  /\ Updates(r, "create_user", [request[r].state EXCEPT !.onboarding_step = "DONE"])
  /\ UNCHANGED <<asked, users, ledger_entries, tokens, batches, faults, unmade,
                 registered>>

OnboardingConsent(r) ==
  /\ At(r, "onboarding") /\ Consents(request[r].state)
  /\ agreed' = IF request[r].words = "yes" THEN agreed \cup {request[r].who}
               ELSE agreed
  /\ Goes(r, "create_user")
  /\ UNCHANGED <<asked, users, ledger_entries, tokens, checkpoint, batches, faults, unmade,
                 registered>>

-----------------------------------------------------------------------------
(* _create_user.                                                           *)

CreateUser(r) ==
  /\ At(r, "create_user")
  /\ \/ \E u \in Finds(request[r].who) : GoesWith(r, "update_user", u)
     \/ Finds(request[r].who) = {} /\ Goes(r, "insert_user")
  /\ UNCHANGED <<asked, users, ledger_entries, tokens, checkpoint, batches, faults,
                 history>>

\* The id is read after the commit, which expired it: the row is updated, and
\* the node answers that it could not be.
UpdateUser(r) ==
  /\ At(r, "update_user")
  /\ AddUser(request[r].row, [users[request[r].row] EXCEPT !.consent_given = TRUE])
  /\ Answers(r)
  /\ UNCHANGED <<asked, ledger_entries, tokens, checkpoint, batches, faults, history>>

Completed(r, user) ==
  Updates(r, "answered", [request[r].state EXCEPT !.user_id = user,
                            !.is_new_user = FALSE, !.onboarding_step = "DONE"])

InsertUser(r) ==
  LET i == request[r].who
  IN  /\ At(r, "insert_user")
      /\ \/ /\ i \notin Registered
            /\ AddUser(i, [username |-> Nobody, password |-> FALSE,
                           consent_given |-> TRUE])
            /\ Completed(r, i)
         \/ /\ i \in Registered
            /\ Goes(r, "fallback") /\ UNCHANGED <<users, checkpoint>>
      /\ UNCHANGED <<asked, ledger_entries, tokens, batches, faults, history>>

InsertUserFails(r) ==
  /\ At(r, "insert_user") /\ Fault
  /\ Goes(r, "fallback") /\ unmade' = unmade \cup {request[r].who}
  /\ UNCHANGED <<asked, users, ledger_entries, tokens, checkpoint, batches, agreed,
                 registered>>

\* Whoever is found; else "session_user", which is no row's id.
Fallback(r) ==
  LET found == FindsEnding(request[r].who)
  IN  /\ At(r, "fallback")
      /\ \E user \in (IF found = {} THEN {NoId} ELSE found) :
           Completed(r, user)
      /\ UNCHANGED <<asked, users, ledger_entries, tokens, batches, faults, history>>

-----------------------------------------------------------------------------
(* The web ledger, and the save of a confirmed entry by the graph.         *)

\* The other nodes.  All that concerns the accounts is that one of them may save
\* the entry the user confirmed, for the user_id of the state.
Feature(r) ==
  /\ At(r, "feature")
  /\ \/ Answers(r) /\ UNCHANGED batches
     \/ /\ batches < MaxBatches /\ batches' = batches + 1
        /\ request' = [request EXCEPT ![r].at = "user", ![r].then = "entries",
             ![r].graph = TRUE, ![r].batch = batches + 1, ![r].lines = 1]
  /\ UNCHANGED <<asked, users, ledger_entries, tokens, checkpoint, faults, history>>

\* POST /ledger and POST /ledger/confirm, GET /ledger, DELETE /ledger.
Ask(r, i, what, lines) ==
  /\ At(r, "answered")
  /\ what = "entries" => batches < MaxBatches
  /\ batches' = IF what = "entries" THEN batches + 1 ELSE batches
  /\ request' = [request EXCEPT ![r] = [Idle EXCEPT !.at = "user", !.who = i,
       !.then = what, !.batch = batches', !.lines = lines]]
  /\ asked < MaxAsked /\ asked' = asked + 1
  /\ UNCHANGED <<users, ledger_entries, tokens, checkpoint, faults, history>>

\* The user_id that _save has.
IdOf(r) == IF request[r].graph THEN request[r].state.user_id ELSE Nobody

\* What is searched for: a user_id of no row is taken for a telephone number.
Subject(r) == IF request[r].graph THEN AdminSession ELSE request[r].who

\* Deliberately wrong variant: a list, or a deletion, takes any row.
FoundForWritesOnly(r) ==
  IF request[r].then # "entries" THEN Registered ELSE FindsLoosely(Subject(r))

Found(r) == IF IdOf(r) \in Registered THEN {IdOf(r)} ELSE FindsLoosely(Subject(r))

FindUser(r) ==
  /\ At(r, "user")
  /\ \/ \E u \in Found(r) : GoesWith(r, request[r].then, u)
     \/ Found(r) = {} /\ Goes(r, "new_user")
  /\ UNCHANGED <<asked, users, ledger_entries, tokens, checkpoint, batches, faults,
                 history>>

\* _save passes over a lookup that fails, and searches by the digits of the id it
\* has; over that search too, and makes a row.
SaveLookupFails(r) ==
  /\ request[r].graph /\ request[r].at \in {"user", "user_by_id"} /\ Fault
  /\ Goes(r, IF At(r, "user") /\ IdOf(r) # NoId THEN "user_by_id" ELSE "new_user")
  /\ UNCHANGED <<asked, users, ledger_entries, tokens, checkpoint, batches, history>>

FindUserById(r) ==
  LET u == Stray(IdOf(r))
  IN  /\ At(r, "user_by_id")
      /\ IF u \in Registered THEN GoesWith(r, "entries", u) ELSE Goes(r, "new_user")
      /\ UNCHANGED <<asked, users, ledger_entries, tokens, checkpoint, batches, faults,
                     history>>

\* The phone_number of the row that is made.
NewPhone(r) ==
  CASE request[r].graph -> IF IdOf(r) = NoId THEN AdminSession ELSE Stray(IdOf(r))
    [] ~request[r].graph /\ LastTen(Subject(r)) # Nobody -> Plus(LastTen(Subject(r)))
    [] OTHER -> Subject(r)

\* The row is committed before what is asked for is done.
MakeUser(r) ==
  LET u == NewPhone(r)
  IN  /\ At(r, "new_user")
      /\ \/ /\ u \notin Registered
            /\ AddUser(u, [username |-> Nobody, password |-> FALSE,
                           consent_given |-> ~request[r].graph])
            /\ GoesWith(r, request[r].then, u)
         \/ u \in Registered /\ Answers(r) /\ UNCHANGED users
      /\ UNCHANGED <<asked, ledger_entries, tokens, checkpoint, batches, faults, history>>

WriteEntries(r) ==
  /\ At(r, "entries")
  /\ ledger_entries' = ledger_entries \cup
       {[batch |-> request[r].batch, line |-> n, user |-> request[r].row,
         by |-> request[r].who] : n \in 1..request[r].lines}
  /\ Answers(r)
  /\ UNCHANGED <<asked, users, tokens, checkpoint, batches, faults, history>>

EntriesOf(user) == {e \in ledger_entries : e.user = user}

GetEntries(r) ==
  /\ At(r, "list") /\ Answers(r)
  /\ UNCHANGED <<asked, users, ledger_entries, tokens, checkpoint, batches, faults, history>>

\* All of a user's entries, or the one that was named.
DeleteEntries(r) ==
  /\ At(r, "delete")
  /\ \/ ledger_entries' = ledger_entries \ EntriesOf(request[r].row)
     \/ \E e \in EntriesOf(request[r].row) : ledger_entries' = ledger_entries \ {e}
  /\ Answers(r)
  /\ UNCHANGED <<asked, users, tokens, checkpoint, batches, faults, history>>

-----------------------------------------------------------------------------
(* Registration and login.                                                 *)

Called(h) == {u \in Registered : users[u].username = h}

Register(r, h, n) ==
  /\ At(r, "answered")
  /\ request' = [request EXCEPT ![r] = [Idle EXCEPT !.at = "register", !.username = h,
       !.who = IF n = Nobody THEN Web(h) ELSE Bare(n)]]
  /\ asked < MaxAsked /\ asked' = asked + 1
  /\ UNCHANGED <<users, ledger_entries, tokens, checkpoint, batches, faults, history>>

\* The username and this spelling of the number only.
Known(r) == Called(request[r].username) # {} \/ request[r].who \in Registered

RegisterLooks(r) ==
  /\ At(r, "register")
  /\ \/ Known(r) /\ Answers(r)
     \/ ~Known(r) /\ Goes(r, "add_user")
  /\ UNCHANGED <<asked, users, ledger_entries, tokens, checkpoint, batches, faults,
                 history>>

RegisterAdds(r) ==
  /\ At(r, "add_user")
  /\ \/ /\ ~Known(r)
        /\ AddUser(request[r].who, [username |-> request[r].username,
             password |-> TRUE, consent_given |-> TRUE])
        /\ tokens' = tokens \cup {request[r].who}
        /\ registered' = registered \cup {<<request[r].who, request[r].username>>}
     \/ Known(r) /\ UNCHANGED <<users, tokens, registered>>
  /\ Answers(r)
  /\ UNCHANGED <<asked, ledger_entries, checkpoint, batches, faults, agreed, unmade>>

\* A row without a password takes the one it is given; as its columns are read
\* after the commit, that request fails, and the next has its token.  Nobody
\* knows the number of a stray row.
Login(u) ==
  /\ asked < MaxAsked /\ asked' = asked + 1
  /\ \/ /\ users[u].password /\ tokens' = tokens \cup {u} /\ UNCHANGED users
     \/ /\ ~users[u].password /\ UNCHANGED tokens
        /\ AddUser(u, [users[u] EXCEPT !.password = TRUE])
  /\ UNCHANGED <<ledger_entries, checkpoint, request, batches, faults, history>>

LoginAdmin(r) ==
  /\ At(r, "answered")
  /\ request' = [request EXCEPT ![r] = [Idle EXCEPT !.at = "admin",
                                          !.who = Bare(AdminNumber)]]
  /\ asked < MaxAsked /\ asked' = asked + 1
  /\ UNCHANGED <<users, ledger_entries, tokens, checkpoint, batches, faults, history>>

Administrators ==
  Called(Admin) \cup (Registered \cap {Bare(AdminNumber), Plus(AdminNumber)})

LoginAdminLooks(r) ==
  /\ At(r, "admin")
  /\ \/ \E u \in Administrators : GoesWith(r, "admin_update", u)
     \/ Administrators = {} /\ Goes(r, "admin_insert")
  /\ UNCHANGED <<asked, users, ledger_entries, tokens, checkpoint, batches, faults,
                 history>>

\* As with _create_user, the row is read after the commit, or the username is
\* another row's: either way the emergency profile answers, with its own number.
LoginAdminUpdates(r) ==
  LET u == request[r].row
  IN  /\ At(r, "admin_update")
      /\ \/ /\ Called(Admin) \subseteq {u}
            /\ AddUser(u, [users[u] EXCEPT !.username = Admin, !.password = TRUE])
         \/ ~(Called(Admin) \subseteq {u}) /\ UNCHANGED users
      /\ tokens' = tokens \cup {Bare(AdminNumber)} /\ Answers(r)
      /\ UNCHANGED <<asked, ledger_entries, checkpoint, batches, faults, history>>

LoginAdminInserts(r) ==
  LET i == Bare(AdminNumber)
      free == Called(Admin) = {} /\ i \notin Registered
  IN  /\ At(r, "admin_insert")
      /\ \/ /\ free
            /\ AddUser(i, [username |-> Admin, password |-> TRUE,
                           consent_given |-> FALSE])
            /\ tokens' = tokens \cup {i} /\ Answers(r)
         \/ ~free /\ Goes(r, "admin_again") /\ UNCHANGED <<users, tokens>>
      /\ UNCHANGED <<asked, ledger_entries, checkpoint, batches, faults, history>>

LoginAdminLooksAgain(r) ==
  LET found == Called(Admin) \cup FindsEnding(Bare(AdminNumber))
  IN  /\ At(r, "admin_again")
      /\ \E i \in (IF found = {} THEN {Bare(AdminNumber)} ELSE found) :
           tokens' = tokens \cup {i}
      /\ Answers(r)
      /\ UNCHANGED <<asked, users, ledger_entries, checkpoint, batches, faults, history>>

-----------------------------------------------------------------------------
(* The database fails a statement; the process restarts.                   *)

AdminStages == {"admin", "admin_update", "admin_again"}

\* The insert of login goes on to its second search, the other statements of
\* login to the emergency profile.
LoginAdminFails(r) ==
  /\ Fault
  /\ \/ At(r, "admin_insert") /\ Goes(r, "admin_again") /\ UNCHANGED tokens
     \/ /\ request[r].at \in AdminStages /\ Answers(r)
        /\ tokens' = tokens \cup {Bare(AdminNumber)}
  /\ UNCHANGED <<asked, users, ledger_entries, checkpoint, batches, history>>

\* Everything else answers that it failed, and nothing of it was committed.  That
\* _save passes over a failed lookup makes no difference where the failure has
\* aborted the transaction.
StatementFails(r) ==
  /\ request[r].at \in {"create_user", "update_user", "fallback", "user", "user_by_id",
                        "new_user", "entries", "list", "delete", "register", "add_user"}
  /\ Fault /\ Answers(r)
  /\ UNCHANGED <<asked, users, ledger_entries, tokens, checkpoint, batches, history>>

Restart ==
  /\ checkpoint' = [i \in Identifiers |-> Fresh]
  /\ request' = [r \in Requests |-> Idle]
  /\ UNCHANGED <<asked, users, ledger_entries, tokens, batches, faults, history>>

Next ==
  \/ \E r \in Requests :
       \/ \E i \in Writers, m \in Messages : Receive(r, i, m)
       \/ LoadUserProfile(r) \/ LoadUserProfileFails(r) \/ InputGuard(r)
       \/ Onboarding(r) \/ OnboardingConsent(r)
       \/ CreateUser(r) \/ UpdateUser(r) \/ InsertUser(r) \/ InsertUserFails(r)
       \/ Fallback(r) \/ Feature(r)
       \/ \E i \in tokens, lines \in 1..MaxLines : Ask(r, i, "entries", lines)
       \/ \E i \in tokens, what \in {"list", "delete"} : Ask(r, i, what, 0)
       \/ FindUser(r) \/ SaveLookupFails(r) \/ FindUserById(r) \/ MakeUser(r)
       \/ WriteEntries(r)
       \/ GetEntries(r) \/ DeleteEntries(r)
       \/ \E s \in Signups : Register(r, s[1], s[2])
       \/ RegisterLooks(r) \/ RegisterAdds(r)
       \/ LoginAdmin(r) \/ LoginAdminLooks(r) \/ LoginAdminUpdates(r)
       \/ LoginAdminInserts(r) \/ LoginAdminLooksAgain(r)
       \/ LoginAdminFails(r) \/ StatementFails(r)
  \/ \E u \in Registered \cap Identifiers : Login(u)
  \/ Restart

Spec == Init /\ [][Next]_vars

-----------------------------------------------------------------------------
(* Properties.                                                             *)

RequestRecords ==
  [at : Stages, who : Identifiers \cup {Nobody}, row : Phones \cup {Nobody},
   username : Handles \cup {Nobody}, then : Stages, graph : BOOLEAN,
   batch : 0..MaxBatches, lines : 0..MaxLines, words : Words, state : States]

TypeOK ==
  /\ users \in [Phones -> Rows \cup {Nobody}]
  /\ ledger_entries \in SUBSET Entries /\ tokens \in SUBSET Identifiers
  /\ checkpoint \in [Identifiers -> States]
  /\ request \in [Requests -> RequestRecords]
  /\ batches \in 0..MaxBatches /\ asked \in 0..MaxAsked
  /\ faults \in 0..MaxFaults
  /\ agreed \in SUBSET Identifiers /\ unmade \in SUBSET Identifiers
  /\ registered \in SUBSET (Identifiers \X Handles)

\* People whose number the program does not know by heart.
Seller(i) == Dialled(i) /\ i.owner # AdminNumber

\* The rows that say of themselves that they are a number's: by how their
\* phone_number ends, or because they registered with the number as their username.
Numbered(u, n) ==
  EndsIn(u, n) \/ \E f \in Forms, h \in Handles :
                    <<u, h>> \in registered /\ Spells[h] = [owner |-> n, form |-> f]

\* And the rows that were made of the id of one of those.
OwnRow(u, n) ==
  Numbered(u, n) \/ \E v \in Registered : u = Stray(v) /\ Numbered(v, n)

\* Whatever way a seller's number was written, and whoever registers, onboards
\* or logs in meanwhile, with whichever usernames, what the seller saves goes
\* under a row that is of that number.
FiledUnderCaller ==
  \A e \in ledger_entries : Seller(e.by) => OwnRow(e.user, e.by.owner)

\* The rows a turn may take for its own, those included that had its text for a
\* username when they registered and were renamed by the administrator's login.
RowsOf(i) ==
  {u \in Registered : \/ u = i \/ EndsIn(u, LastTen(i))
                      \/ \E h \in Handles : <<u, h>> \in registered /\ Spells[h] = i}

\* A thread whose onboarding is done has a row, unless the database failed at
\* the moment of creating it: then the user is told that all is ready, and is
\* asked to write "start" ever after.
ReadyHasRow ==
  \A i \in Identifiers :
    checkpoint[i].onboarding_step = "DONE" =>
      RowsOf(i) # {} \/ i \in unmade \/ KnownByHeart(i)

\* A seller's row that was not made by registering says "consent given" only if
\* somebody whose digits are that number answered the question with yes.
ConsentAnswered ==
  \A u \in Registered :
    Seller(u) /\ users[u].username = Nobody /\ users[u].consent_given
      => \E i \in agreed : LastTen(i) = u.owner

\* As long as one row is of a number, its owner's list shows every entry the
\* owner saved, from whichever channel, and has not deleted.
ListsOwnBook ==
  \A r \in Requests :
    LET i == request[r].who
        rows == {u \in Registered : OwnRow(u, i.owner)}
    IN  At(r, "list") /\ Seller(i) /\ (\A u, v \in rows : u = v)
          => {e \in ledger_entries : Seller(e.by) /\ e.by.owner = i.owner}
               \subseteq EntriesOf(request[r].row)

-----------------------------------------------------------------------------
(* The inductive invariant.                                                *)

\* Nobody speaks on a thread where they also type, nor sends a picture.
OnlyTypes == Messages \subseteq [channel : {"text", "chat", "voice"},
                                 words : Words \ {"none"}]

Ready(i) == RowsOf(i) # {} \/ i \in unmade \/ KnownByHeart(i)

\* Only people have usernames, and but for the administrator's it is the one
\* they registered with.
NamesAreRegistered ==
  /\ \A u \in Registered :
       users[u].username # Nobody =>
         /\ u \in Identifiers
         /\ users[u].username = Admin \/ <<u, users[u].username>> \in registered
  /\ \A g \in registered : g[1] \in Registered /\ users[g[1]].username # Nobody

\* Whom a request found is a row of whom it is for.
FindsOwnRow(q) ==
  /\ q.at \in {"entries", "list", "delete"} =>
       q.row \in Registered /\ (Seller(q.who) => OwnRow(q.row, q.who.owner))
  /\ q.at = "update_user" => q.row \in RowsOf(q.who)
  /\ q.at = "admin_update" => q.row \in Registered \cap Identifiers
  /\ q.at \in {"register", "add_user"} => q.username # Nobody
  /\ q.at \in {"user", "new_user"} => q.then \in {"entries", "list", "delete"}
  /\ q.at = "user_by_id" \/ (q.graph /\ q.at \in {"user", "new_user"}) =>
       q.graph /\ q.then = "entries"
  /\ q.at = "entries" \/ (q.at \in {"user", "user_by_id", "new_user"} /\ q.then = "entries")
       => q.batch \in 1..MaxBatches

\* A turn that goes on to the features has loaded a profile of its own number.
LoadsOwnProfile(q) ==
  /\ q.at = "input_guard" => q.state.is_new_user \/ q.state.user_id # Nobody
  /\ q.at = "feature" \/ (q.graph /\ q.at \in {"user", "user_by_id", "new_user"}) =>
       q.state.user_id # Nobody
  /\ \/ q.at = "input_guard" /\ ~q.state.is_new_user
     \/ q.at = "feature" \/ (q.graph /\ q.at \in {"user", "user_by_id", "new_user"})
     => IF q.state.user_id = NoId THEN ~Seller(q.who)
        ELSE q.state.user_id \in RowsOf(q.who)

\* Only the administrator has a token and no row: no request makes a seller's.
MakesNoSeller(q) ==
  /\ q.at = "user" /\ ~q.graph => q.who \in Registered \cup {Bare(AdminNumber)}
  /\ q.at = "new_user" /\ ~q.graph => q.who = Bare(AdminNumber)

OnboardsSoundly(q) ==
  /\ q.state.onboarding_step = "DONE" \/ q.at = "fallback" => Ready(q.who)
  /\ OnlyTypes /\ q.at \in {"load_user_profile", "input_guard", "onboarding"} =>
       q.state.raw_input_text = q.words /\ q.words # "none"
  /\ OnlyTypes /\ q.at \in {"create_user", "update_user", "insert_user", "fallback"} =>
       q.who \in agreed

RequestSound(r) ==
  request[r].at # "answered" =>
    /\ request[r].who \in Identifiers
    /\ FindsOwnRow(request[r]) /\ LoadsOwnProfile(request[r])
    /\ MakesNoSeller(request[r]) /\ OnboardsSoundly(request[r])

AccountsInv ==
  /\ TypeOK /\ FiledUnderCaller /\ ReadyHasRow /\ (OnlyTypes => ConsentAnswered)
  /\ NamesAreRegistered
  /\ \A e \in ledger_entries : e.user \in Registered
  /\ tokens \subseteq Registered \cup {Bare(AdminNumber)}
  /\ \A r \in Requests : RequestSound(r)

-----------------------------------------------------------------------------
(* What the program says and does not do.                                  *)

\* "Only you can see your accounts", before it asks for consent.
OnlyOwnListed ==
  \A r \in Requests :
    At(r, "list") => \A e \in EntriesOf(request[r].row) : e.by.owner = request[r].who.owner
=============================================================================
