---------------------------- MODULE AccountsProofs ----------------------------
(* Proofs about Accounts, for any numbers, usernames, handlers and bounds.  *)
EXTENDS Accounts, TLAPS

USE DEF history

-----------------------------------------------------------------------------
(* Type correctness.                                                       *)

LEMMA Identified ==
  /\ \A n \in Numbers : Bare(n) \in Identifiers /\ Plus(n) \in Identifiers
  /\ \A h \in Handles : Web(h) \in Identifiers
  /\ AdminSession \in Identifiers /\ AdminNumber \in Numbers
  /\ Identifiers \subseteq Phones /\ \A u \in Identifiers : Stray(u) \in Phones
BY AccountsAssumption DEF Bare, Plus, Web, AdminSession, Identifiers, Forms, Phones

LEMMA NoRows ==
  /\ Nobody \notin Phones /\ NoId \notin Phones /\ NoId # Nobody
  /\ \A i \in Identifiers : i.form \in Forms \cup {"handle", "session"}
<1>1. Nobody \notin Phones /\ Admin # Nobody
  BY AccountsAssumption
<1>2. \A i \in Identifiers : i.form \in Forms \cup {"handle", "session"}
  BY DEF Identifiers, AdminSession
<1>3. ASSUME NoId \in Identifiers PROVE FALSE
  <2>1. CASE NoId = AdminSession
    <3>1. NoId.owner = Nobody /\ AdminSession.owner = Admin
      BY DEF NoId, AdminSession
    <3>. QED
      BY <1>1, <2>1, <3>1
  <2>2. CASE NoId.form \in Forms \cup {"handle"}
    BY <2>2 DEF NoId, Forms
  <2>. QED
    BY <1>3, <2>1, <2>2 DEF Identifiers
<1>4. \A u : NoId # Stray(u)
  <2>1. NoId.form = "session" /\ \A u : Stray(u).form = "stray"
    BY DEF NoId, Stray
  <2>. QED
    BY <2>1
<1>5. NoId # Nobody
  BY AccountsAssumption
<1>. QED
  BY <1>1, <1>2, <1>3, <1>4, <1>5 DEF Phones

LEMMA IdleType == Idle \in RequestRecords /\ Fresh \in States
BY AccountsAssumption
DEF Idle, Fresh, RequestRecords, States, Stages, Steps, Words

LEMMA GoesType ==
  ASSUME TypeOK, NEW r \in Requests, NEW stage \in Stages, Goes(r, stage)
  PROVE  request' \in [Requests -> RequestRecords]
BY DEF Goes, TypeOK, RequestRecords

LEMMA GoesWithType ==
  ASSUME TypeOK, NEW r \in Requests, NEW stage \in Stages, NEW u \in Phones,
         GoesWith(r, stage, u)
  PROVE  request' \in [Requests -> RequestRecords]
<1>1. [request[r] EXCEPT !.at = stage, !.row = u] \in RequestRecords
  BY DEF TypeOK, RequestRecords
<1>2. request' = [request EXCEPT ![r] = [request[r] EXCEPT !.at = stage, !.row = u]]
  BY DEF GoesWith, TypeOK
<1>. QED
  BY <1>1, <1>2 DEF TypeOK

LEMMA AnswersType ==
  ASSUME TypeOK, NEW r \in Requests, Answers(r)
  PROVE  request' \in [Requests -> RequestRecords]
BY IdleType DEF Answers, TypeOK

LEMMA UpdatesType ==
  ASSUME TypeOK, NEW r \in Requests, NEW stage \in Stages, NEW s \in States,
         Updates(r, stage, s)
  PROVE  /\ request' \in [Requests -> RequestRecords]
         /\ checkpoint' \in [Identifiers -> States]
<1>1. [request[r] EXCEPT !.at = stage, !.state = s] \in RequestRecords
  BY DEF TypeOK, RequestRecords
<1>. QED
  BY <1>1, IdleType DEF Updates, TypeOK

LEMMA AddUserType ==
  ASSUME TypeOK, NEW u \in Phones, NEW row \in Rows, AddUser(u, row)
  PROVE  /\ users' \in [Phones -> Rows \cup {Nobody}]
         /\ Registered' = Registered \cup {u}
<1>1. row # Nobody
  BY AccountsAssumption
<1>. QED
  BY <1>1 DEF AddUser, TypeOK, Registered

LEMMA FaultType ==
  ASSUME TypeOK, Fault PROVE faults' \in 0 .. MaxFaults
BY AccountsAssumption DEF Fault, TypeOK

LEMMA StateType ==
  ASSUME TypeOK, NEW r \in Requests
  PROVE  /\ request[r] \in RequestRecords /\ request[r].state \in States
         /\ request[r].who \in Identifiers \cup {Nobody}
BY DEF TypeOK, RequestRecords

LEMMA RegisteredRow ==
  ASSUME TypeOK, NEW u \in Registered PROVE u \in Phones /\ users[u] \in Rows
BY DEF TypeOK, Registered

LEMMA ProfiledType ==
  ASSUME NEW s \in States, NEW user \in Identifiers \cup {NoId, Nobody}
  PROVE  Profiled(s, user) \in States
BY DEF Profiled, States, Steps

LEMMA ReceivedType ==
  ASSUME NEW s \in States, NEW m \in Messages
  PROVE  Received(s, m) \in States
<1>1. m.words \in Words
  BY AccountsAssumption
<1>. QED
  BY <1>1 DEF Received, States

-----------------------------------------------------------------------------
(* What a step leaves as it was.                                           *)

Grows == /\ Registered \subseteq Registered' /\ registered \subseteq registered'
         /\ unmade \subseteq unmade' /\ agreed \subseteq agreed'
Alone(r) == \A x \in Requests \ {r} : request'[x] = request[x]

\* A row of somebody's stays theirs, whatever it is renamed to.
LEMMA RowsGrow ==
  ASSUME Grows
  PROVE  /\ \A i : RowsOf(i) \subseteq RowsOf(i)'
         /\ \A u, n : Numbered(u, n) => Numbered(u, n)'
         /\ \A u, n : OwnRow(u, n) => OwnRow(u, n)'
<1>1. \A u, n : EndsIn(u, n)' <=> EndsIn(u, n)
  BY DEF EndsIn, Dialled
<1>2. \A i : LastTen(i)' = LastTen(i)
  BY DEF LastTen, Dialled
<1>3. \A i : RowsOf(i) \subseteq RowsOf(i)'
  BY <1>1, <1>2 DEF RowsOf, Grows
<1>4. \A u, n : Numbered(u, n) => Numbered(u, n)'
  BY <1>1 DEF Numbered, Grows
<1>5. \A u, n : OwnRow(u, n) => OwnRow(u, n)'
  BY <1>4 DEF OwnRow, Grows
<1>. QED
  BY <1>3, <1>4, <1>5

LEMMA ReadyStays ==
  ASSUME Grows, NEW i, Ready(i) PROVE Ready(i)'
BY RowsGrow DEF Grows, Ready

LEMMA SoundStays ==
  ASSUME Grows, NEW x, RequestSound(x), request'[x] = request[x]
  PROVE  RequestSound(x)'
<1>. SUFFICES ASSUME request[x].at # "answered" PROVE RequestSound(x)'
  BY DEF RequestSound
<1>. USE DEF RequestSound, Grows
<1>1. FindsOwnRow(request[x])'
  BY RowsGrow DEF FindsOwnRow, Seller, Dialled
<1>2. LoadsOwnProfile(request[x])'
  BY RowsGrow DEF LoadsOwnProfile, Seller, Dialled
<1>3. MakesNoSeller(request[x])'
  BY DEF MakesNoSeller
<1>4. OnboardsSoundly(request[x])'
  BY ReadyStays DEF OnboardsSoundly
<1>. QED
  BY <1>1, <1>2, <1>3, <1>4

\* A handler that has answered has nothing to be sound about.
LEMMA IdleSound ==
  ASSUME TypeOK, NEW r \in Requests, Answers(r)
  PROVE  RequestSound(r)' /\ Alone(r)
BY DEF Answers, Idle, RequestSound, Alone, TypeOK

\* What is filed stays filed under a row of the number.
LEMMA FiledStays ==
  ASSUME AccountsInv, Grows, UNCHANGED ledger_entries
  PROVE  FiledUnderCaller' /\ (\A e \in ledger_entries' : e.user \in Registered')
BY RowsGrow DEF AccountsInv, FiledUnderCaller, Seller, Dialled, Grows

LEMMA ReadyHasRowStays ==
  ASSUME AccountsInv, Grows,
         \A j \in Identifiers : checkpoint'[j] = checkpoint[j]
                               \/ (checkpoint'[j].onboarding_step = "DONE" => Ready(j)')
  PROVE  ReadyHasRow'
<1>. SUFFICES ASSUME NEW i \in Identifiers, checkpoint'[i].onboarding_step = "DONE"
              PROVE  Ready(i)'
  BY DEF ReadyHasRow, Ready
<1>1. checkpoint'[i] = checkpoint[i] => Ready(i)
  BY DEF AccountsInv, ReadyHasRow, Ready
<1>. QED
  BY <1>1, ReadyStays

LEMMA NamesStay ==
  ASSUME AccountsInv, UNCHANGED <<users, registered>>
  PROVE  NamesAreRegistered' /\ (agreed \subseteq agreed' => (OnlyTypes => ConsentAnswered)')
BY DEF AccountsInv, NamesAreRegistered, Registered, ConsentAnswered, OnlyTypes, Seller,
       Dialled, LastTen

\* A step of one handler that commits nothing.
LEMMA QuietStep ==
  ASSUME AccountsInv, TypeOK', Grows, NEW r \in Requests, RequestSound(r)', Alone(r),
         UNCHANGED <<users, ledger_entries, tokens, checkpoint, registered>>
  PROVE  AccountsInv'
<1>1. FiledUnderCaller' /\ ReadyHasRow' /\ NamesAreRegistered'
      /\ (OnlyTypes => ConsentAnswered)' /\ (\A e \in ledger_entries' : e.user \in Registered')
  BY FiledStays, ReadyHasRowStays, NamesStay DEF Grows
<1>2. tokens' \subseteq Registered' \cup {Bare(AdminNumber)}
  BY DEF AccountsInv, Registered
<1>3. \A x \in Requests : RequestSound(x)'
  BY SoundStays DEF AccountsInv, Alone
<1>. QED
  BY <1>1, <1>2, <1>3 DEF AccountsInv

-----------------------------------------------------------------------------
(* A turn of the graph.                                                    *)

LEMMA GoesSound ==
  ASSUME TypeOK, NEW r \in Requests, NEW stage \in Stages, Goes(r, stage)
  PROVE  /\ Alone(r) /\ request'[r].at = stage
         /\ request'[r].row = request[r].row /\ request'[r].state = request[r].state
         /\ request'[r].who = request[r].who /\ request'[r].username = request[r].username
         /\ request'[r].then = request[r].then /\ request'[r].graph = request[r].graph
         /\ request'[r].batch = request[r].batch /\ request'[r].words = request[r].words
BY DEF Goes, Alone, TypeOK, RequestRecords

LEMMA GoesWithSound ==
  ASSUME TypeOK, NEW r \in Requests, NEW stage \in Stages, NEW u \in Phones,
         GoesWith(r, stage, u)
  PROVE  /\ Alone(r) /\ request'[r].at = stage
         /\ request'[r].row = u /\ request'[r].state = request[r].state
         /\ request'[r].who = request[r].who /\ request'[r].username = request[r].username
         /\ request'[r].then = request[r].then /\ request'[r].graph = request[r].graph
         /\ request'[r].batch = request[r].batch /\ request'[r].words = request[r].words
<1>1. request' = [request EXCEPT ![r] = [request[r] EXCEPT !.at = stage, !.row = u]]
  BY DEF GoesWith, TypeOK
<1>. QED
  BY <1>1 DEF Alone, TypeOK, RequestRecords

LEMMA UpdatesSound ==
  ASSUME TypeOK, NEW r \in Requests, NEW stage \in Stages, NEW s \in States,
         Updates(r, stage, s)
  PROVE  /\ Alone(r) /\ request'[r].at = stage
         /\ stage # "answered" =>
              /\ request'[r].row = request[r].row /\ request'[r].state = s
              /\ request'[r].who = request[r].who /\ request'[r].username = request[r].username
              /\ request'[r].then = request[r].then /\ request'[r].graph = request[r].graph
              /\ request'[r].batch = request[r].batch /\ request'[r].words = request[r].words
BY DEF Updates, Alone, TypeOK, RequestRecords, Idle

LEMMA ReceiveStep ==
  ASSUME AccountsInv, NEW r \in Requests, NEW i \in Writers, NEW m \in Messages,
         Receive(r, i, m)
  PROVE  AccountsInv'
<1>1. i \in Identifiers /\ m.words \in Words
  BY AccountsAssumption
<1>2. Received(checkpoint[i], m) \in States
  BY <1>1, ReceivedType DEF AccountsInv, TypeOK
<1>3. [Idle EXCEPT !.at = "load_user_profile", !.who = i, !.words = m.words,
                   !.state = Received(checkpoint[i], m)] \in RequestRecords
  BY <1>1, <1>2, IdleType DEF RequestRecords, Stages
<1>4. TypeOK'
  BY <1>3 DEF Receive, AccountsInv, TypeOK
<1>5. Received(checkpoint[i], m).onboarding_step = checkpoint[i].onboarding_step
  BY <1>1 DEF Received, AccountsInv, TypeOK, States
<1>6. Received(checkpoint[i], m).onboarding_step = "DONE" => Ready(i)
  BY <1>1, <1>5 DEF AccountsInv, ReadyHasRow, Ready
<1>7. OnlyTypes => /\ Received(checkpoint[i], m).raw_input_text = m.words
                   /\ m.words # "none"
  BY <1>1 DEF OnlyTypes, Received, AccountsInv, TypeOK, States
<1>8. Grows /\ Alone(r) /\ UNCHANGED <<users, ledger_entries, tokens, checkpoint, registered>>
  BY DEF Receive, Grows, Alone, AccountsInv, TypeOK, Registered
<1>9. request'[r] = [Idle EXCEPT !.at = "load_user_profile", !.who = i,
                       !.words = m.words, !.state = Received(checkpoint[i], m)]
  BY DEF Receive, AccountsInv, TypeOK
<1>10. Ready(i) => Ready(i)'
  BY <1>8, ReadyStays
<1>11. RequestSound(r)'
  BY <1>1, <1>6, <1>7, <1>9, <1>10
  DEF RequestSound, FindsOwnRow, LoadsOwnProfile, MakesNoSeller, OnboardsSoundly, Idle,
      OnlyTypes
<1>. QED
  BY <1>4, <1>8, <1>11, QuietStep

\* A step of one handler that writes its thread's checkpoint and nothing else.
LEMMA CheckpointStep ==
  ASSUME AccountsInv, TypeOK', Grows, NEW r \in Requests, RequestSound(r)', Alone(r),
         NEW i, NEW s, checkpoint' = [checkpoint EXCEPT ![i] = s],
         s.onboarding_step = "DONE" => Ready(i)',
         UNCHANGED <<users, ledger_entries, tokens, registered>>
  PROVE  AccountsInv'
<1>1. \A j \in Identifiers : checkpoint'[j] = checkpoint[j]
                            \/ (checkpoint'[j].onboarding_step = "DONE" => Ready(j)')
  BY DEF AccountsInv, TypeOK
<1>2. FiledUnderCaller' /\ ReadyHasRow' /\ NamesAreRegistered'
      /\ (OnlyTypes => ConsentAnswered)' /\ (\A e \in ledger_entries' : e.user \in Registered')
  BY <1>1, FiledStays, ReadyHasRowStays, NamesStay DEF Grows
<1>3. tokens' \subseteq Registered' \cup {Bare(AdminNumber)}
  BY DEF AccountsInv, Registered
<1>4. \A x \in Requests : RequestSound(x)'
  BY SoundStays DEF AccountsInv, Alone
<1>. QED
  BY <1>2, <1>3, <1>4 DEF AccountsInv

\* What is found by the digits or by the name is of whom it is searched for.
LEMMA FindsAreRows ==
  ASSUME AccountsInv, NEW i \in Identifiers
  PROVE  /\ Finds(i) \subseteq RowsOf(i) /\ Finds(i) \subseteq Identifiers
         /\ FindsEnding(i) \subseteq Finds(i) /\ RowsOf(i) \subseteq Registered
<1>1. ASSUME NEW u \in Finds(i), Named(u, i)
      PROVE  u \in Identifiers /\ u \in RowsOf(i)
  <2>1. u \in Registered /\ users[u].username # Nobody /\ Spells[users[u].username] = i
    BY <1>1 DEF Finds, Named
  <2>2. u \in Identifiers /\ (users[u].username = Admin
                            \/ <<u, users[u].username>> \in registered)
    BY <2>1 DEF AccountsInv, NamesAreRegistered
  <2>3. users[u].username # Admin
    BY <2>1, NoRows, Identified, AccountsAssumption
  <2>4. users[u].username \in Handles
    BY <2>2, <2>3 DEF AccountsInv, TypeOK
  <2>. QED
    BY <2>1, <2>2, <2>3, <2>4 DEF RowsOf
<1>2. ASSUME NEW u \in Finds(i), u = i \/ EndsIn(u, LastTen(i))
      PROVE  u \in Identifiers /\ u \in RowsOf(i)
  <2>1. u \in Registered /\ u \in Phones
    BY DEF Finds, Registered
  <2>2. u \in Identifiers
    BY <1>2, <2>1 DEF EndsIn, Dialled, Forms, Phones, Stray
  <2>. QED
    BY <1>2, <2>1, <2>2 DEF RowsOf
<1>. QED
  BY <1>1, <1>2 DEF Finds, FindsEnding, RowsOf

\* A row that a seller's turn may take for its own is of the seller's number.
LEMMA RowsAreNumbered ==
  ASSUME NEW i \in Identifiers, Seller(i), NEW u \in RowsOf(i)
  PROVE  Numbered(u, i.owner)
<1>1. i \in [owner : Numbers, form : Forms]
  BY DEF Seller, Dialled, Identifiers, AdminSession, Forms
<1>2. LastTen(i) = i.owner
  BY <1>1 DEF LastTen, Dialled, Forms
<1>3. i.owner # Nobody
  BY <1>1, AccountsAssumption
<1>4. i = [owner |-> i.owner, form |-> i.form] /\ i.form \in Forms
  BY <1>1
<1>. QED
  BY <1>2, <1>3, <1>4 DEF RowsOf, Numbered, EndsIn, Dialled

LEMMA LoadStep ==
  ASSUME AccountsInv, NEW r \in Requests, LoadUserProfile(r) \/ LoadUserProfileFails(r)
  PROVE  AccountsInv'
<1>i. PICK i : i = request[r].who
  OBVIOUS
<1>0. /\ TypeOK /\ RequestSound(r) /\ At(r, "load_user_profile")
      /\ request[r] \in RequestRecords /\ request[r].state \in States
      /\ i \in Identifiers
  BY <1>i, StateType DEF AccountsInv, LoadUserProfile, LoadUserProfileFails, RequestSound, At
<1>1. PICK user \in Identifiers \cup {NoId, Nobody} :
        /\ Updates(r, "input_guard", Profiled(request[r].state, user))
        /\ user # Nobody => Ready(i)
        /\ user # Nobody => IF user = NoId THEN ~Seller(i) ELSE user \in RowsOf(i)
  <2>1. CASE LoadUserProfile(r)
    <3>1. PICK user \in (IF Finds(i) = {} THEN {Nobody} ELSE Finds(i)) :
            Updates(r, "input_guard", Profiled(request[r].state, user))
      BY <1>i, <2>1 DEF LoadUserProfile
    <3>2. user # Nobody => user \in RowsOf(i) /\ user \in Identifiers
      BY <1>0, FindsAreRows
    <3>. QED
      BY <1>0, <3>1, <3>2, NoRows, Identified DEF Ready
  <2>2. CASE LoadUserProfileFails(r)
    <3>1. CASE KnownByHeart(i)
      <4>1. ~Seller(i)
        BY <3>1 DEF KnownByHeart, Seller
      <4>. QED
        BY <1>i, <2>2, <3>1, <4>1 DEF LoadUserProfileFails, Ready
    <3>2. CASE ~KnownByHeart(i)
      BY <1>i, <2>2, <3>2 DEF LoadUserProfileFails
    <3>. QED
      BY <3>1, <3>2
  <2>. QED
    BY <2>1, <2>2
<1>s. PICK s : s = Profiled(request[r].state, user)
  OBVIOUS
<1>2. s \in States
  BY <1>0, <1>1, <1>s, ProfiledType
<1>3. TypeOK'
  BY <1>0, <1>1, <1>2, <1>s, UpdatesType, FaultType
  DEF LoadUserProfile, LoadUserProfileFails, TypeOK, Stages
<1>4. Updates(r, "input_guard", s) /\ "input_guard" \in Stages
  BY <1>1, <1>s DEF Stages
<1>5. Grows /\ UNCHANGED <<users, ledger_entries, tokens, registered>>
  BY DEF LoadUserProfile, LoadUserProfileFails, Grows, Registered
<1>6. s.onboarding_step = "DONE" => Ready(i)
  BY <1>i, <1>0, <1>1, <1>s DEF Profiled, States, RequestSound, OnboardsSoundly, At
<1>7. Ready(i) => Ready(i)'
  BY <1>5, ReadyStays
<1>8. user # Nobody => IF user = NoId THEN ~Seller(i) ELSE user \in RowsOf(i)'
  BY <1>1, <1>5, RowsGrow
<1>9. /\ user = Nobody => s.is_new_user
      /\ user # Nobody => s.user_id = user
      /\ ~s.is_new_user => user # Nobody
      /\ s.raw_input_text = request[r].state.raw_input_text
  BY <1>0, <1>s DEF Profiled, States
<1>10. /\ request'[r].at = "input_guard" /\ request'[r].who = i /\ request'[r].state = s
       /\ request'[r].words = request[r].words /\ Alone(r)
  BY <1>i, <1>0, <1>2, <1>4, UpdatesSound
<1>11. RequestSound(r)'
  <2>1. FindsOwnRow(request[r])'
    BY <1>10 DEF FindsOwnRow
  <2>2. LoadsOwnProfile(request[r])'
    BY <1>8, <1>9, <1>10 DEF LoadsOwnProfile, Seller, Dialled
  <2>3. MakesNoSeller(request[r])'
    BY <1>10 DEF MakesNoSeller
  <2>4. OnboardsSoundly(request[r])'
    BY <1>i, <1>0, <1>6, <1>7, <1>9, <1>10 DEF OnboardsSoundly, RequestSound, At, OnlyTypes
  <2>. QED
    BY <1>0, <1>10, <2>1, <2>2, <2>3, <2>4 DEF RequestSound
<1>12. checkpoint' = [checkpoint EXCEPT ![i] = s]
  BY <1>i, <1>1, <1>s DEF Updates
<1>. QED
  BY <1>3, <1>5, <1>6, <1>7, <1>10, <1>11, <1>12, CheckpointStep

\* A handler at work, and whom it is for.
LEMMA AtWork ==
  ASSUME AccountsInv, NEW r \in Requests, request[r].at # "answered"
  PROVE  /\ TypeOK /\ RequestSound(r) /\ request[r] \in RequestRecords
         /\ request[r].state \in States /\ request[r].who \in Identifiers
<1>1. request[r].who \in Identifiers
  BY DEF AccountsInv, RequestSound
<1>. QED
  BY <1>1, StateType DEF AccountsInv

\* The end of a node.
LEMMA NodeStep ==
  ASSUME AccountsInv, TypeOK', Grows, NEW r \in Requests, At(r, "answered") => FALSE,
         NEW stage \in Stages, NEW s \in States, Updates(r, stage, s),
         NEW i, i = request[r].who, s.onboarding_step = "DONE" => Ready(i)',
         stage # "answered" => RequestSound(r)',
         UNCHANGED <<users, ledger_entries, tokens, registered>>
  PROVE  AccountsInv'
<1>1. TypeOK /\ checkpoint' = [checkpoint EXCEPT ![i] = s]
  BY DEF AccountsInv, Updates
<1>2. Alone(r) /\ request'[r].at = stage
  BY <1>1, UpdatesSound
<1>3. RequestSound(r)'
  BY <1>2 DEF RequestSound
<1>. QED
  BY <1>1, <1>2, <1>3, CheckpointStep

LEMMA InputGuardStep ==
  ASSUME AccountsInv, NEW r \in Requests, InputGuard(r)
  PROVE  AccountsInv'
<1>i. PICK i, s : i = request[r].who /\ s = request[r].state
  OBVIOUS
<1>0. /\ TypeOK /\ RequestSound(r) /\ request[r] \in RequestRecords /\ s \in States
      /\ i \in Identifiers /\ request[r].at = "input_guard"
  BY <1>i, AtWork DEF InputGuard, At
<1>1. PICK next \in {"answered", "onboarding", "feature"} :
        /\ Updates(r, next, s)
        /\ next = "feature" => ~s.is_new_user
  BY <1>i DEF InputGuard
<1>2. next \in Stages
  BY DEF Stages
<1>3. TypeOK'
  BY <1>0, <1>1, <1>2, UpdatesType DEF InputGuard, TypeOK
<1>4. Grows /\ UNCHANGED <<users, ledger_entries, tokens, agreed, registered>>
  BY DEF InputGuard, Grows, Registered
<1>5. s.onboarding_step = "DONE" => Ready(i)'
  BY <1>i, <1>0, <1>4, ReadyStays DEF RequestSound, OnboardsSoundly
<1>6. CASE next # "answered"
  <2>1. /\ request'[r].at = next /\ request'[r].who = i /\ request'[r].state = s
        /\ request'[r].words = request[r].words
    BY <1>i, <1>0, <1>1, <1>2, <1>6, UpdatesSound
  <2>2. FindsOwnRow(request[r])' /\ MakesNoSeller(request[r])'
    BY <1>6, <2>1 DEF FindsOwnRow, MakesNoSeller
  <2>3. LoadsOwnProfile(request[r])'
    BY <1>i, <1>0, <1>1, <1>4, <1>6, <2>1, RowsGrow
    DEF LoadsOwnProfile, RequestSound, Seller, Dialled
  <2>4. OnboardsSoundly(request[r])'
    BY <1>i, <1>0, <1>5, <1>6, <2>1 DEF OnboardsSoundly, RequestSound, OnlyTypes
  <2>5. RequestSound(r)'
    BY <1>0, <2>1, <2>2, <2>3, <2>4 DEF RequestSound
  <2>. QED
    BY <1>i, <1>0, <1>1, <1>2, <1>3, <1>4, <1>5, <2>5, NodeStep DEF At
<1>7. CASE next = "answered"
  BY <1>i, <1>0, <1>1, <1>2, <1>3, <1>4, <1>5, <1>7, NodeStep DEF At
<1>. QED
  BY <1>6, <1>7

LEMMA OnboardingStep ==
  ASSUME AccountsInv, NEW r \in Requests, Onboarding(r)
  PROVE  AccountsInv'
<1>i. PICK i, s : /\ i = request[r].who
                  /\ s = [request[r].state EXCEPT !.onboarding_step =
                            NextStep(request[r].state)]
  OBVIOUS
<1>0. /\ TypeOK /\ RequestSound(r) /\ request[r].state \in States
      /\ i \in Identifiers /\ request[r].at = "onboarding"
  BY <1>i, AtWork DEF Onboarding, At
<1>1. s \in States /\ (s.onboarding_step = "DONE" =>
                         request[r].state.onboarding_step = "DONE")
  BY <1>i, <1>0 DEF NextStep, States, Steps
<1>2. Updates(r, "answered", s) /\ "answered" \in Stages
  BY <1>i DEF Onboarding, Stages
<1>3. TypeOK'
  BY <1>0, <1>1, <1>2, UpdatesType DEF Onboarding, TypeOK
<1>4. Grows /\ UNCHANGED <<users, ledger_entries, tokens, registered>>
  BY DEF Onboarding, Grows, Registered
<1>5. s.onboarding_step = "DONE" => Ready(i)'
  BY <1>i, <1>0, <1>1, <1>4, ReadyStays DEF RequestSound, OnboardsSoundly
<1>. QED
  BY <1>i, <1>0, <1>1, <1>2, <1>3, <1>4, <1>5, NodeStep DEF At

LEMMA OnboardingConsentStep ==
  ASSUME AccountsInv, NEW r \in Requests, OnboardingConsent(r)
  PROVE  AccountsInv'
<1>i. PICK i, s : i = request[r].who /\ s = request[r].state
  OBVIOUS
<1>0. /\ TypeOK /\ RequestSound(r) /\ request[r] \in RequestRecords /\ s \in States
      /\ i \in Identifiers /\ request[r].at = "onboarding"
  BY <1>i, AtWork DEF OnboardingConsent, At
<1>1. Goes(r, "create_user") /\ "create_user" \in Stages
  BY DEF OnboardingConsent, Stages
<1>2. TypeOK'
  BY <1>i, <1>0, <1>1, GoesType DEF OnboardingConsent, TypeOK
<1>3. Grows /\ UNCHANGED <<users, ledger_entries, tokens, checkpoint, registered>>
  BY DEF OnboardingConsent, Grows, Registered
<1>4. /\ Alone(r) /\ request'[r].at = "create_user" /\ request'[r].who = i
      /\ request'[r].state = s
  BY <1>i, <1>0, <1>1, GoesSound
<1>5. OnlyTypes => i \in agreed'
  <2>1. OnlyTypes => request[r].words = "yes"
    BY <1>i, <1>0
    DEF RequestSound, OnboardsSoundly, OnboardingConsent, Consents, Heard
  <2>. QED
    BY <1>i, <2>1 DEF OnboardingConsent
<1>6. RequestSound(r)'
  <2>1. FindsOwnRow(request[r])' /\ MakesNoSeller(request[r])' /\ LoadsOwnProfile(request[r])'
    BY <1>4 DEF FindsOwnRow, MakesNoSeller, LoadsOwnProfile
  <2>2. s.onboarding_step = "DONE" => Ready(i)'
    BY <1>i, <1>0, <1>3, ReadyStays DEF RequestSound, OnboardsSoundly
  <2>3. OnboardsSoundly(request[r])'
    BY <1>4, <1>5, <2>2 DEF OnboardsSoundly, OnlyTypes
  <2>. QED
    BY <1>0, <1>4, <2>1, <2>3 DEF RequestSound
<1>. QED
  BY <1>2, <1>3, <1>4, <1>6, QuietStep

-----------------------------------------------------------------------------
(* _create_user.                                                           *)

LEMMA CreateUserStep ==
  ASSUME AccountsInv, NEW r \in Requests, CreateUser(r)
  PROVE  AccountsInv'
<1>i. PICK i, s : i = request[r].who /\ s = request[r].state
  OBVIOUS
<1>0. /\ TypeOK /\ RequestSound(r) /\ request[r] \in RequestRecords /\ s \in States
      /\ i \in Identifiers /\ request[r].at = "create_user"
  BY <1>i, AtWork DEF CreateUser, At
<1>3. Grows /\ UNCHANGED <<users, ledger_entries, tokens, checkpoint, agreed, registered>>
  BY DEF CreateUser, Grows, Registered
<1>4. s.onboarding_step = "DONE" => Ready(i)'
  BY <1>i, <1>0, <1>3, ReadyStays DEF RequestSound, OnboardsSoundly
<1>5. OnlyTypes => i \in agreed'
  BY <1>i, <1>0, <1>3 DEF RequestSound, OnboardsSoundly
<1>6. ASSUME NEW u \in Finds(i), GoesWith(r, "update_user", u)
      PROVE  AccountsInv'
  <2>1. u \in Identifiers /\ "update_user" \in Stages
    BY <1>0, FindsAreRows DEF Stages
  <2>2. TypeOK'
    BY <1>0, <1>6, <2>1, GoesWithType, Identified DEF CreateUser, TypeOK
  <2>3. /\ Alone(r) /\ request'[r].at = "update_user" /\ request'[r].who = i
        /\ request'[r].state = s /\ request'[r].row = u
    BY <1>i, <1>0, <1>6, <2>1, GoesWithSound, Identified
  <2>4. u \in RowsOf(i)'
    BY <1>0, <1>3, <1>6, FindsAreRows, RowsGrow
  <2>5. RequestSound(r)'
    BY <1>0, <1>4, <1>5, <2>3, <2>4
    DEF RequestSound, FindsOwnRow, LoadsOwnProfile, MakesNoSeller, OnboardsSoundly,
        OnlyTypes
  <2>. QED
    BY <1>3, <2>2, <2>3, <2>5, QuietStep
<1>7. ASSUME Goes(r, "insert_user")
      PROVE  AccountsInv'
  <2>1. "insert_user" \in Stages
    BY DEF Stages
  <2>2. TypeOK'
    BY <1>0, <1>7, <2>1, GoesType DEF CreateUser, TypeOK
  <2>3. /\ Alone(r) /\ request'[r].at = "insert_user" /\ request'[r].who = i
        /\ request'[r].state = s
    BY <1>i, <1>0, <1>7, <2>1, GoesSound
  <2>5. RequestSound(r)'
    BY <1>0, <1>4, <1>5, <2>3
    DEF RequestSound, FindsOwnRow, LoadsOwnProfile, MakesNoSeller, OnboardsSoundly,
        OnlyTypes
  <2>. QED
    BY <1>3, <2>2, <2>3, <2>5, QuietStep
<1>. QED
  BY <1>i, <1>6, <1>7 DEF CreateUser

\* A row is added or changed, and nothing else but the handler's record.
LEMMA RowStep ==
  ASSUME AccountsInv, TypeOK', NEW r \in Requests, RequestSound(r)', Alone(r),
         NEW u \in Phones, NEW row \in Rows, AddUser(u, row),
         OnlyTypes /\ Seller(u) /\ row.username = Nobody /\ row.consent_given
           => \E i \in agreed : LastTen(i) = u.owner,
         NamesAreRegistered', registered \subseteq registered',
         tokens' \subseteq tokens \cup {u, Bare(AdminNumber)},
         \A j \in Identifiers : checkpoint'[j] = checkpoint[j] \/ Ready(j)',
         UNCHANGED <<ledger_entries, agreed, unmade>>
  PROVE  AccountsInv'
<1>0. TypeOK /\ Registered' = Registered \cup {u} /\ Grows
  BY AddUserType DEF AccountsInv, Grows
<1>1. FiledUnderCaller' /\ (\A e \in ledger_entries' : e.user \in Registered')
  BY <1>0, FiledStays
<1>2. ReadyHasRow'
  BY <1>0, ReadyHasRowStays
<1>3. (OnlyTypes => ConsentAnswered)'
  <2>. SUFFICES ASSUME OnlyTypes, NEW v \in Registered', Seller(v),
                       users'[v].username = Nobody, users'[v].consent_given
                PROVE  \E i \in agreed : LastTen(i) = v.owner
    BY DEF ConsentAnswered, OnlyTypes, Seller, Dialled, LastTen
  <2>1. CASE v = u
    BY <1>0, <2>1 DEF AddUser, TypeOK
  <2>2. CASE v # u
    <3>1. v \in Registered /\ users'[v] = users[v]
      BY <1>0, <2>2 DEF AddUser, TypeOK, Registered
    <3>. QED
      BY <3>1 DEF AccountsInv, ConsentAnswered
  <2>. QED
    BY <2>1, <2>2
<1>4. tokens' \subseteq Registered' \cup {Bare(AdminNumber)}
  BY <1>0 DEF AccountsInv
<1>5. \A x \in Requests : RequestSound(x)'
  BY <1>0, SoundStays DEF AccountsInv, Alone
<1>. QED
  BY <1>1, <1>2, <1>3, <1>4, <1>5 DEF AccountsInv

\* A row that keeps its username, or is made without one.
LEMMA NamesKept ==
  ASSUME AccountsInv, NEW u \in Phones, NEW row \in Rows, AddUser(u, row),
         row.username = IF u \in Registered THEN users[u].username ELSE Nobody,
         UNCHANGED registered
  PROVE  NamesAreRegistered'
<1>1. Registered' = Registered \cup {u}
  BY AddUserType DEF AccountsInv
<1>2. \A v \in Registered' : users'[v].username =
        IF v \in Registered THEN users[v].username ELSE Nobody
  BY <1>1 DEF AccountsInv, TypeOK, AddUser, Registered
<1>. QED
  BY <1>1, <1>2 DEF AccountsInv, NamesAreRegistered

LEMMA UpdateUserStep ==
  ASSUME AccountsInv, NEW r \in Requests, UpdateUser(r)
  PROVE  AccountsInv'
<1>i. PICK i, u : i = request[r].who /\ u = request[r].row
  OBVIOUS
<1>0. /\ TypeOK /\ RequestSound(r) /\ i \in Identifiers /\ request[r].at = "update_user"
  BY <1>i, AtWork DEF UpdateUser, At
<1>1. u \in RowsOf(i) /\ (OnlyTypes => i \in agreed)
  BY <1>i, <1>0 DEF RequestSound, FindsOwnRow, OnboardsSoundly
<1>2. u \in Registered /\ u \in Phones /\ users[u] \in Rows
  BY <1>0, <1>1, FindsAreRows, RegisteredRow
<1>r. PICK row : row = [users[u] EXCEPT !.consent_given = TRUE]
  OBVIOUS
<1>3. row \in Rows /\ AddUser(u, row)
  BY <1>i, <1>2, <1>r DEF Rows, UpdateUser
<1>4. TypeOK'
  BY <1>0, <1>2, <1>3, AddUserType, AnswersType DEF UpdateUser, TypeOK
<1>5. RequestSound(r)' /\ Alone(r)
  BY <1>0, IdleSound DEF UpdateUser
<1>6. row.username = users[u].username
  BY <1>2, <1>r DEF Rows
<1>7. NamesAreRegistered'
  BY <1>2, <1>3, <1>6, NamesKept DEF UpdateUser
<1>8. Seller(u) /\ row.username = Nobody => LastTen(i) = u.owner
  <2>1. \A h : <<u, h>> \in registered => users[u].username # Nobody
    BY DEF AccountsInv, NamesAreRegistered
  <2>2. Seller(u) /\ row.username = Nobody => u = i \/ EndsIn(u, LastTen(i))
    BY <1>1, <1>6, <2>1 DEF RowsOf
  <2>. QED
    BY <2>2 DEF EndsIn, LastTen, Seller, Dialled, Forms
<1>. QED
  BY <1>1, <1>2, <1>3, <1>4, <1>5, <1>7, <1>8, RowStep DEF UpdateUser

LEMMA InsertUserStep ==
  ASSUME AccountsInv, NEW r \in Requests, InsertUser(r)
  PROVE  AccountsInv'
<1>i. PICK i, s : /\ i = request[r].who
                  /\ s = [request[r].state EXCEPT !.user_id = i,
                            !.is_new_user = FALSE, !.onboarding_step = "DONE"]
  OBVIOUS
<1>0. /\ TypeOK /\ RequestSound(r) /\ request[r] \in RequestRecords
      /\ request[r].state \in States
      /\ i \in Identifiers /\ request[r].at = "insert_user"
  BY <1>i, AtWork DEF InsertUser, At
<1>1. OnlyTypes => i \in agreed
  BY <1>i, <1>0 DEF RequestSound, OnboardsSoundly
<1>2. CASE i \notin Registered
  <2>r. PICK row : row = [username |-> Nobody, password |-> FALSE, consent_given |-> TRUE]
    OBVIOUS
  <2>1. row \in Rows /\ AddUser(i, row) /\ Updates(r, "answered", s)
    BY <1>i, <1>2, <2>r DEF InsertUser, Rows, Completed
  <2>2. s \in States /\ "answered" \in Stages
    BY <1>i, <1>0 DEF States, Steps, Stages
  <2>3. TypeOK'
    BY <1>0, <2>1, <2>2, AddUserType, UpdatesType, Identified DEF InsertUser, TypeOK
  <2>4. Alone(r) /\ request'[r].at = "answered"
    BY <1>0, <2>1, <2>2, UpdatesSound
  <2>5. Ready(i)'
    BY <1>0, <2>1, AddUserType, Identified DEF Ready, RowsOf
  <2>6. \A j \in Identifiers : checkpoint'[j] = checkpoint[j] \/ Ready(j)'
    BY <1>i, <1>0, <2>1, <2>5 DEF Updates, TypeOK
  <2>7. NamesAreRegistered'
    BY <1>0, <1>2, <2>r, <2>1, NamesKept, Identified DEF InsertUser
  <2>8. Seller(i) => LastTen(i) = i.owner
    BY DEF Seller, LastTen, Dialled, Forms
  <2>. QED
    BY <1>0, <1>1, <2>1, <2>3, <2>4, <2>6, <2>7, <2>8, RowStep, Identified
    DEF InsertUser, RequestSound
<1>3. CASE i \in Registered
  <2>1. Goes(r, "fallback") /\ "fallback" \in Stages
    BY <1>i, <1>3 DEF InsertUser, Stages
  <2>2. Grows /\ UNCHANGED <<users, ledger_entries, tokens, checkpoint, agreed, registered>>
    BY <1>i, <1>3 DEF InsertUser, Grows, Registered
  <2>3. TypeOK'
    BY <1>0, <2>1, <2>2, GoesType DEF InsertUser, TypeOK
  <2>4. /\ Alone(r) /\ request'[r].at = "fallback" /\ request'[r].who = i
    BY <1>i, <1>0, <2>1, GoesSound
  <2>5. Ready(i)'
    BY <1>3, <2>2, ReadyStays DEF Ready, RowsOf
  <2>6. RequestSound(r)'
    BY <1>0, <1>1, <2>2, <2>4, <2>5
    DEF RequestSound, FindsOwnRow, LoadsOwnProfile, MakesNoSeller, OnboardsSoundly,
        OnlyTypes
  <2>. QED
    BY <2>2, <2>3, <2>4, <2>6, QuietStep
<1>. QED
  BY <1>2, <1>3

LEMMA InsertUserFailsStep ==
  ASSUME AccountsInv, NEW r \in Requests, InsertUserFails(r)
  PROVE  AccountsInv'
<1>i. PICK i : i = request[r].who
  OBVIOUS
<1>0. /\ TypeOK /\ RequestSound(r) /\ i \in Identifiers /\ request[r].at = "insert_user"
  BY <1>i, AtWork DEF InsertUserFails, At
<1>1. OnlyTypes => i \in agreed
  BY <1>i, <1>0 DEF RequestSound, OnboardsSoundly
<1>2. Goes(r, "fallback") /\ "fallback" \in Stages
  BY DEF InsertUserFails, Stages
<1>3. Grows /\ UNCHANGED <<users, ledger_entries, tokens, checkpoint, agreed, registered>>
  BY DEF InsertUserFails, Grows, Registered
<1>4. TypeOK'
  BY <1>i, <1>0, <1>2, GoesType, FaultType DEF InsertUserFails, TypeOK
<1>5. /\ Alone(r) /\ request'[r].at = "fallback" /\ request'[r].who = i
  BY <1>i, <1>0, <1>2, GoesSound
<1>6. Ready(i)'
  BY <1>i DEF InsertUserFails, Ready
<1>7. RequestSound(r)'
  BY <1>0, <1>1, <1>3, <1>5, <1>6
  DEF RequestSound, FindsOwnRow, LoadsOwnProfile, MakesNoSeller, OnboardsSoundly,
      OnlyTypes
<1>. QED
  BY <1>3, <1>4, <1>5, <1>7, QuietStep

LEMMA FallbackStep ==
  ASSUME AccountsInv, NEW r \in Requests, Fallback(r)
  PROVE  AccountsInv'
<1>a. request[r].who \in Identifiers
  BY AtWork DEF Fallback, At
<1>1. PICK user : Completed(r, user) /\ user \in Identifiers \cup {NoId}
  BY <1>a, FindsAreRows DEF Fallback
<1>i. PICK i, s : /\ i = request[r].who
                  /\ s = [request[r].state EXCEPT !.user_id = user,
                            !.is_new_user = FALSE, !.onboarding_step = "DONE"]
  OBVIOUS
<1>0. /\ TypeOK /\ RequestSound(r) /\ request[r].state \in States
      /\ i \in Identifiers /\ request[r].at = "fallback"
  BY <1>i, AtWork DEF Fallback, At
<1>2. s \in States /\ "answered" \in Stages /\ Updates(r, "answered", s)
  BY <1>i, <1>0, <1>1 DEF States, Steps, Stages, Completed
<1>3. TypeOK'
  BY <1>0, <1>2, UpdatesType DEF Fallback, TypeOK
<1>4. Grows /\ UNCHANGED <<users, ledger_entries, tokens, registered>>
  BY DEF Fallback, Grows, Registered
<1>5. Ready(i)'
  BY <1>i, <1>0, <1>4, ReadyStays DEF RequestSound, OnboardsSoundly
<1>. QED
  BY <1>i, <1>0, <1>2, <1>3, <1>4, <1>5, NodeStep DEF At

-----------------------------------------------------------------------------
(* The web ledger, and the save of a confirmed entry by the graph.         *)

\* A handler that commits nothing answers.
LEMMA AnswerStep ==
  ASSUME AccountsInv, NEW r \in Requests, Answers(r), TypeOK',
         UNCHANGED <<users, ledger_entries, tokens, checkpoint, history>>
  PROVE  AccountsInv'
<1>1. Grows /\ UNCHANGED <<users, ledger_entries, tokens, checkpoint, registered>>
  BY DEF Grows, Registered
<1>2. RequestSound(r)' /\ Alone(r)
  BY IdleSound DEF AccountsInv
<1>. QED
  BY <1>1, <1>2, QuietStep

LEMMA FeatureStep ==
  ASSUME AccountsInv, NEW r \in Requests, Feature(r)
  PROVE  AccountsInv'
<1>i. PICK i, s : i = request[r].who /\ s = request[r].state
  OBVIOUS
<1>0. /\ TypeOK /\ RequestSound(r) /\ request[r] \in RequestRecords /\ s \in States
      /\ i \in Identifiers /\ request[r].at = "feature"
  BY <1>i, AtWork DEF Feature, At
<1>1. CASE Answers(r) /\ UNCHANGED batches
  <2>1. TypeOK'
    BY <1>0, <1>1, AnswersType DEF Feature, TypeOK
  <2>. QED
    BY <1>1, <2>1, AnswerStep DEF Feature
<1>2. CASE /\ batches < MaxBatches /\ batches' = batches + 1
           /\ request' = [request EXCEPT ![r].at = "user", ![r].then = "entries",
                ![r].graph = TRUE, ![r].batch = batches + 1, ![r].lines = 1]
  <2>q. PICK q : q = [request[r] EXCEPT !.at = "user", !.then = "entries",
                        !.graph = TRUE, !.batch = batches + 1, !.lines = 1]
    OBVIOUS
  <2>1. /\ batches + 1 \in 1 .. MaxBatches /\ batches + 1 \in 0 .. MaxBatches
        /\ 1 \in 0 .. MaxLines
    BY <1>0, <1>2, AccountsAssumption DEF TypeOK
  <2>2. /\ q \in RequestRecords /\ q.at = "user" /\ q.who = i /\ q.state = s
        /\ q.then = "entries" /\ q.graph = TRUE /\ q.batch = batches + 1
    BY <1>i, <1>0, <2>1, <2>q DEF RequestRecords, Stages
  <2>3. request' = [request EXCEPT ![r] = q]
    BY <1>0, <1>2, <2>q DEF TypeOK
  <2>4. TypeOK'
    <3>1. request' \in [Requests -> RequestRecords]
      BY <1>0, <2>2, <2>3 DEF TypeOK
    <3>2. batches' \in 0 .. MaxBatches
      BY <1>2, <2>1
    <3>. QED
      BY <1>0, <3>1, <3>2 DEF Feature, TypeOK
  <2>5. Alone(r) /\ request'[r] = q
    BY <1>0, <2>3 DEF Alone, TypeOK
  <2>6. Grows /\ UNCHANGED <<users, ledger_entries, tokens, checkpoint, agreed, registered>>
    BY DEF Feature, Grows, Registered
  <2>7. s.onboarding_step = "DONE" => Ready(i)'
    BY <1>i, <1>0, <2>6, ReadyStays DEF RequestSound, OnboardsSoundly
  <2>8. s.user_id # Nobody /\ IF s.user_id = NoId THEN ~Seller(i)
                             ELSE s.user_id \in RowsOf(i)'
    BY <1>i, <1>0, <2>6, RowsGrow DEF RequestSound, LoadsOwnProfile
  <2>9. FindsOwnRow(request[r])' /\ MakesNoSeller(request[r])'
    BY <2>1, <2>2, <2>5 DEF FindsOwnRow, MakesNoSeller
  <2>10. LoadsOwnProfile(request[r])'
    BY <2>2, <2>5, <2>8 DEF LoadsOwnProfile, Seller, Dialled
  <2>11. OnboardsSoundly(request[r])'
    BY <2>2, <2>5, <2>7 DEF OnboardsSoundly, OnlyTypes
  <2>12. RequestSound(r)'
    BY <1>0, <2>2, <2>5, <2>9, <2>10, <2>11 DEF RequestSound
  <2>. QED
    BY <2>4, <2>5, <2>6, <2>12, QuietStep
<1>. QED
  BY <1>1, <1>2 DEF Feature

\* What a request starts as.
LEMMA StartStep ==
  ASSUME AccountsInv, NEW r \in Requests, At(r, "answered"), NEW q \in RequestRecords,
         request' = [request EXCEPT ![r] = q], TypeOK',
         q.who \in Identifiers, q.graph = FALSE, q.state = Fresh,
         \/ /\ q.at = "user" /\ q.then \in {"entries", "list", "delete"}
            /\ q.who \in Registered \cup {Bare(AdminNumber)}
            /\ q.then = "entries" => q.batch \in 1 .. MaxBatches
         \/ q.at = "register" /\ q.username # Nobody
         \/ q.at = "admin",
         UNCHANGED <<users, ledger_entries, tokens, checkpoint, history>>
  PROVE  AccountsInv'
<1>1. Grows /\ UNCHANGED <<users, ledger_entries, tokens, checkpoint, registered>>
  BY DEF Grows, Registered
<1>2. Alone(r) /\ request'[r] = q
  BY DEF Alone, AccountsInv, TypeOK
<1>3. FindsOwnRow(request[r])' /\ MakesNoSeller(request[r])'
  BY <1>1, <1>2 DEF FindsOwnRow, MakesNoSeller, Registered
<1>4. LoadsOwnProfile(request[r])' /\ OnboardsSoundly(request[r])'
  BY <1>2 DEF LoadsOwnProfile, OnboardsSoundly, OnlyTypes, Fresh
<1>5. RequestSound(r)'
  BY <1>2, <1>3, <1>4 DEF RequestSound
<1>. QED
  BY <1>1, <1>2, <1>5, QuietStep

LEMMA AskStep ==
  ASSUME AccountsInv, NEW r \in Requests, NEW i \in tokens,
         NEW what \in {"entries", "list", "delete"}, NEW lines \in 0 .. MaxLines,
         Ask(r, i, what, lines)
  PROVE  AccountsInv'
<1>q. PICK q : q = [Idle EXCEPT !.at = "user", !.who = i, !.then = what,
                      !.batch = batches', !.lines = lines]
  OBVIOUS
<1>0. TypeOK /\ batches \in 0 .. MaxBatches /\ asked \in 0 .. MaxAsked /\ i \in Identifiers
  BY DEF AccountsInv, TypeOK
<1>1. batches' \in 0 .. MaxBatches /\ (what = "entries" => batches' \in 1 .. MaxBatches)
      /\ asked' \in 0 .. MaxAsked
  BY <1>0, AccountsAssumption DEF Ask
<1>2. /\ q \in RequestRecords /\ q.at = "user" /\ q.who = i /\ q.then = what
      /\ q.batch = batches' /\ q.graph = FALSE /\ q.state = Fresh
  BY <1>0, <1>1, <1>q, IdleType DEF RequestRecords, Stages, Idle
<1>3. request' = [request EXCEPT ![r] = q]
  BY <1>q DEF Ask
<1>4. TypeOK'
  BY <1>0, <1>1, <1>2, <1>3 DEF Ask, TypeOK
<1>5. i \in Registered \cup {Bare(AdminNumber)}
  BY DEF AccountsInv
<1>. QED
  BY <1>0, <1>1, <1>2, <1>3, <1>4, <1>5, StartStep DEF Ask

LEMMA RegisterStep ==
  ASSUME AccountsInv, NEW r \in Requests, NEW s \in Signups, Register(r, s[1], s[2])
  PROVE  AccountsInv'
<1>i. PICK i : i = IF s[2] = Nobody THEN Web(s[1]) ELSE Bare(s[2])
  OBVIOUS
<1>q. PICK q : q = [Idle EXCEPT !.at = "register", !.username = s[1], !.who = i]
  OBVIOUS
<1>0. TypeOK /\ asked' \in 0 .. MaxAsked
  BY AccountsAssumption DEF AccountsInv, TypeOK, Register
<1>1. s[1] \in Handles /\ s[2] \in Numbers \cup {Nobody}
  BY AccountsAssumption
<1>2. i \in Identifiers
  BY <1>1, <1>i, Identified
<1>3. /\ q \in RequestRecords /\ q.at = "register" /\ q.who = i
      /\ q.graph = FALSE /\ q.state = Fresh /\ q.username # Nobody
  BY <1>1, <1>2, <1>q, IdleType, AccountsAssumption DEF RequestRecords, Stages, Idle
<1>4. request' = [request EXCEPT ![r] = q]
  BY <1>i, <1>q DEF Register
<1>5. TypeOK'
  BY <1>0, <1>3, <1>4 DEF Register, TypeOK
<1>. QED
  BY <1>2, <1>3, <1>4, <1>5, StartStep DEF Register

LEMMA LoginAdminStep ==
  ASSUME AccountsInv, NEW r \in Requests, LoginAdmin(r)
  PROVE  AccountsInv'
<1>q. PICK q : q = [Idle EXCEPT !.at = "admin", !.who = Bare(AdminNumber)]
  OBVIOUS
<1>0. TypeOK /\ asked' \in 0 .. MaxAsked
  BY AccountsAssumption DEF AccountsInv, TypeOK, LoginAdmin
<1>2. Bare(AdminNumber) \in Identifiers
  BY Identified
<1>3. /\ q \in RequestRecords /\ q.at = "admin" /\ q.who = Bare(AdminNumber)
      /\ q.graph = FALSE /\ q.state = Fresh
  BY <1>2, <1>q, IdleType DEF RequestRecords, Stages, Idle
<1>4. request' = [request EXCEPT ![r] = q]
  BY <1>q DEF LoginAdmin
<1>5. TypeOK'
  BY <1>0, <1>3, <1>4 DEF LoginAdmin, TypeOK
<1>. QED
  BY <1>2, <1>3, <1>4, <1>5, StartStep DEF LoginAdmin

LEMMA FindUserStep ==
  ASSUME AccountsInv, NEW r \in Requests, FindUser(r)
  PROVE  AccountsInv'
<1>i. PICK i, s, then, graph : /\ i = request[r].who /\ s = request[r].state
                               /\ then = request[r].then /\ graph = request[r].graph
  OBVIOUS
<1>0. /\ TypeOK /\ RequestSound(r) /\ request[r] \in RequestRecords /\ s \in States
      /\ i \in Identifiers /\ request[r].at = "user" /\ graph \in BOOLEAN
  BY <1>i, AtWork DEF FindUser, At, RequestRecords
<1>1. /\ Grows /\ UNCHANGED <<users, ledger_entries, tokens, checkpoint, agreed, registered>>
      /\ Registered' = Registered
  BY DEF FindUser, Grows, Registered
<1>2. then \in {"entries", "list", "delete"} /\ then \in Stages
      /\ (then = "entries" => request[r].batch \in 1 .. MaxBatches)
  BY <1>i, <1>0 DEF RequestSound, FindsOwnRow, Stages
<1>3. s.onboarding_step = "DONE" => Ready(i)'
  BY <1>i, <1>0, <1>1, ReadyStays DEF RequestSound, OnboardsSoundly
<1>4. graph => /\ then = "entries" /\ s.user_id # Nobody
               /\ IF s.user_id = NoId THEN ~Seller(i) ELSE s.user_id \in RowsOf(i)
  BY <1>i, <1>0 DEF RequestSound, LoadsOwnProfile, FindsOwnRow
<1>5. ~graph => i \in Registered \cup {Bare(AdminNumber)}
  BY <1>i, <1>0 DEF RequestSound, MakesNoSeller
<1>6. ASSUME NEW u \in Found(r), GoesWith(r, then, u)
      PROVE  AccountsInv'
  <2>1. u \in Registered /\ u \in Phones
    BY <1>6 DEF Found, FindsLoosely, Registered
  <2>2. Seller(i) => OwnRow(u, i.owner)
    <3>1. CASE graph /\ Seller(i)
      <4>1. s.user_id \in RowsOf(i)
        BY <1>4, <1>i, <3>1, <2>1 DEF RowsOf
      <4>2. u = s.user_id
        BY <1>i, <3>1, <4>1, <1>6 DEF Found, IdOf, RowsOf
      <4>. QED
        BY <1>0, <3>1, <4>1, <4>2, RowsAreNumbered DEF OwnRow
    <3>2. CASE ~graph /\ Seller(i)
      <4>1. u = i \/ EndsIn(u, LastTen(i)) \/ LastTen(i) = Nobody
        BY <1>i, <1>6, <3>2, NoRows DEF Found, IdOf, Subject, FindsLoosely, Registered
      <4>2. LastTen(i) = i.owner /\ i.owner \in Numbers
        BY <1>0, <3>2 DEF LastTen, Seller, Dialled, Identifiers, AdminSession, Forms
      <4>3. u \in RowsOf(i)
        BY <2>1, <4>1, <4>2, AccountsAssumption DEF RowsOf
      <4>. QED
        BY <1>0, <3>2, <4>3, RowsAreNumbered DEF OwnRow
    <3>. QED
      BY <1>0, <3>1, <3>2
  <2>3. TypeOK'
    BY <1>0, <1>2, <1>6, <2>1, GoesWithType DEF FindUser, TypeOK
  <2>4. /\ Alone(r) /\ request'[r].at = then /\ request'[r].row = u /\ request'[r].who = i
        /\ request'[r].state = s /\ request'[r].batch = request[r].batch
    BY <1>i, <1>0, <1>2, <1>6, <2>1, GoesWithSound
  <2>5. FindsOwnRow(request[r])'
    BY <1>1, <1>2, <2>1, <2>2, <2>4, RowsGrow DEF FindsOwnRow, Seller, Dialled
  <2>6. LoadsOwnProfile(request[r])' /\ MakesNoSeller(request[r])'
    BY <1>2, <2>4 DEF LoadsOwnProfile, MakesNoSeller
  <2>7. OnboardsSoundly(request[r])'
    BY <1>2, <1>3, <2>4 DEF OnboardsSoundly, OnlyTypes
  <2>8. RequestSound(r)'
    BY <1>0, <2>4, <2>5, <2>6, <2>7 DEF RequestSound
  <2>. QED
    BY <1>1, <2>3, <2>4, <2>8, QuietStep
<1>7. ASSUME Found(r) = {}, Goes(r, "new_user")
      PROVE  AccountsInv'
  <2>1. ~graph => i = Bare(AdminNumber)
    BY <1>i, <1>5, <1>7, NoRows DEF Found, IdOf, Subject, FindsLoosely, Registered
  <2>2. "new_user" \in Stages
    BY DEF Stages
  <2>3. TypeOK'
    BY <1>0, <1>7, <2>2, GoesType DEF FindUser, TypeOK
  <2>4. /\ Alone(r) /\ request'[r].at = "new_user" /\ request'[r].who = i
        /\ request'[r].state = s /\ request'[r].then = then /\ request'[r].graph = graph
        /\ request'[r].batch = request[r].batch
    BY <1>i, <1>0, <1>7, <2>2, GoesSound
  <2>5. FindsOwnRow(request[r])'
    BY <1>2, <1>4, <2>4 DEF FindsOwnRow
  <2>6. LoadsOwnProfile(request[r])'
    BY <1>1, <1>4, <2>4, RowsGrow DEF LoadsOwnProfile, Seller, Dialled
  <2>7. MakesNoSeller(request[r])' /\ OnboardsSoundly(request[r])'
    BY <1>3, <2>1, <2>4 DEF MakesNoSeller, OnboardsSoundly, OnlyTypes
  <2>8. RequestSound(r)'
    BY <1>0, <2>4, <2>5, <2>6, <2>7 DEF RequestSound
  <2>. QED
    BY <1>1, <2>3, <2>4, <2>8, QuietStep
<1>. QED
  BY <1>i, <1>6, <1>7 DEF FindUser

\* A save that goes on past a lookup that failed.
LEMMA SaveLookupFailsStep ==
  ASSUME AccountsInv, NEW r \in Requests, SaveLookupFails(r)
  PROVE  AccountsInv'
<1>i. PICK i, s : i = request[r].who /\ s = request[r].state
  OBVIOUS
<1>0. /\ TypeOK /\ RequestSound(r) /\ request[r] \in RequestRecords /\ s \in States
      /\ i \in Identifiers /\ request[r].at \in {"user", "user_by_id"} /\ request[r].graph
  BY <1>i, AtWork DEF SaveLookupFails, At
<1>1. PICK stage \in {"user_by_id", "new_user"} : Goes(r, stage)
  BY DEF SaveLookupFails
<1>2. stage \in Stages
  BY DEF Stages
<1>3. Grows /\ UNCHANGED <<users, ledger_entries, tokens, checkpoint, registered>>
  BY DEF SaveLookupFails, Grows, Registered
<1>4. TypeOK'
  BY <1>0, <1>1, <1>2, GoesType, FaultType DEF SaveLookupFails, TypeOK
<1>5. /\ Alone(r) /\ request'[r].at = stage /\ request'[r].who = i
      /\ request'[r].state = s /\ request'[r].then = request[r].then
      /\ request'[r].graph /\ request'[r].batch = request[r].batch
  BY <1>i, <1>0, <1>1, <1>2, GoesSound
<1>6. FindsOwnRow(request[r])'
  BY <1>0, <1>5 DEF RequestSound, FindsOwnRow
<1>7. s.user_id # Nobody /\ IF s.user_id = NoId THEN ~Seller(i) ELSE s.user_id \in RowsOf(i)
  BY <1>i, <1>0 DEF RequestSound, LoadsOwnProfile
<1>8. LoadsOwnProfile(request[r])' /\ MakesNoSeller(request[r])'
  BY <1>3, <1>5, <1>7, RowsGrow DEF LoadsOwnProfile, MakesNoSeller, Seller, Dialled
<1>9. OnboardsSoundly(request[r])'
  BY <1>i, <1>0, <1>3, <1>5, ReadyStays DEF RequestSound, OnboardsSoundly, OnlyTypes
<1>10. RequestSound(r)'
  BY <1>0, <1>5, <1>6, <1>8, <1>9 DEF RequestSound
<1>. QED
  BY <1>3, <1>4, <1>5, <1>10, QuietStep

\* The row made of the id of a seller's row is the seller's.
LEMMA StrayIsOwn ==
  ASSUME NEW i \in Identifiers, NEW v \in RowsOf(i), Seller(i)
  PROVE  OwnRow(Stray(v), i.owner)
BY RowsAreNumbered DEF OwnRow, RowsOf

LEMMA FindUserByIdStep ==
  ASSUME AccountsInv, NEW r \in Requests, FindUserById(r)
  PROVE  AccountsInv'
<1>i. PICK i, s, u : i = request[r].who /\ s = request[r].state /\ u = Stray(s.user_id)
  OBVIOUS
<1>0. /\ TypeOK /\ RequestSound(r) /\ request[r] \in RequestRecords /\ s \in States
      /\ i \in Identifiers /\ request[r].at = "user_by_id"
  BY <1>i, AtWork DEF FindUserById, At
<1>1. request[r].graph /\ request[r].then = "entries" /\ request[r].batch \in 1 .. MaxBatches
  BY <1>0 DEF RequestSound, FindsOwnRow
<1>2. s.user_id # Nobody /\ IF s.user_id = NoId THEN ~Seller(i) ELSE s.user_id \in RowsOf(i)
  BY <1>i, <1>0, <1>1 DEF RequestSound, LoadsOwnProfile
<1>3. Grows /\ UNCHANGED <<users, ledger_entries, tokens, checkpoint, registered>>
      /\ Registered' = Registered
  BY DEF FindUserById, Grows, Registered
<1>4. s.onboarding_step = "DONE" => Ready(i)'
  BY <1>i, <1>0, <1>3, ReadyStays DEF RequestSound, OnboardsSoundly
<1>5. CASE u \in Registered /\ GoesWith(r, "entries", u)
  <2>1. u \in Phones /\ "entries" \in Stages
    BY <1>5 DEF Registered, Stages
  <2>2. TypeOK'
    BY <1>0, <1>5, <2>1, GoesWithType DEF FindUserById, TypeOK
  <2>3. /\ Alone(r) /\ request'[r].at = "entries" /\ request'[r].row = u
        /\ request'[r].who = i /\ request'[r].state = s
        /\ request'[r].batch = request[r].batch
    BY <1>i, <1>0, <1>5, <2>1, GoesWithSound
  <2>4. Seller(i) => OwnRow(u, i.owner)'
    BY <1>i, <1>0, <1>2, <1>3, StrayIsOwn, RowsGrow
  <2>5. FindsOwnRow(request[r])'
    BY <1>1, <1>3, <1>5, <2>3, <2>4 DEF FindsOwnRow, Seller, Dialled
  <2>6. LoadsOwnProfile(request[r])' /\ MakesNoSeller(request[r])'
    BY <2>3 DEF LoadsOwnProfile, MakesNoSeller
  <2>7. OnboardsSoundly(request[r])'
    BY <1>4, <2>3 DEF OnboardsSoundly, OnlyTypes
  <2>8. RequestSound(r)'
    BY <1>0, <2>3, <2>5, <2>6, <2>7 DEF RequestSound
  <2>. QED
    BY <1>3, <2>2, <2>3, <2>8, QuietStep
<1>6. CASE Goes(r, "new_user")
  <2>1. "new_user" \in Stages
    BY DEF Stages
  <2>2. TypeOK'
    BY <1>0, <1>6, <2>1, GoesType DEF FindUserById, TypeOK
  <2>3. /\ Alone(r) /\ request'[r].at = "new_user" /\ request'[r].who = i
        /\ request'[r].state = s /\ request'[r].then = request[r].then
        /\ request'[r].graph /\ request'[r].batch = request[r].batch
    BY <1>i, <1>0, <1>1, <1>6, <2>1, GoesSound
  <2>4. FindsOwnRow(request[r])' /\ MakesNoSeller(request[r])'
    BY <1>1, <2>3 DEF FindsOwnRow, MakesNoSeller
  <2>5. LoadsOwnProfile(request[r])'
    BY <1>2, <1>3, <2>3, RowsGrow DEF LoadsOwnProfile, Seller, Dialled
  <2>6. OnboardsSoundly(request[r])'
    BY <1>4, <2>3 DEF OnboardsSoundly, OnlyTypes
  <2>7. RequestSound(r)'
    BY <1>0, <2>3, <2>4, <2>5, <2>6 DEF RequestSound
  <2>. QED
    BY <1>3, <2>2, <2>3, <2>7, QuietStep
<1>. QED
  BY <1>i, <1>1, <1>5, <1>6 DEF FindUserById, IdOf

LEMMA MakeUserStep ==
  ASSUME AccountsInv, NEW r \in Requests, MakeUser(r)
  PROVE  AccountsInv'
<1>i. PICK i, s, then, graph : /\ i = request[r].who /\ s = request[r].state
                               /\ then = request[r].then /\ graph = request[r].graph
  OBVIOUS
<1>n. PICK n : n = NewPhone(r)
  OBVIOUS
<1>0. /\ TypeOK /\ RequestSound(r) /\ request[r] \in RequestRecords /\ s \in States
      /\ i \in Identifiers /\ request[r].at = "new_user" /\ graph \in BOOLEAN
  BY <1>i, AtWork DEF MakeUser, At, RequestRecords
<1>1. then \in {"entries", "list", "delete"} /\ then \in Stages
      /\ (then = "entries" => request[r].batch \in 1 .. MaxBatches)
  BY <1>i, <1>0 DEF RequestSound, FindsOwnRow, Stages
<1>2. graph => /\ s.user_id \in Identifiers \cup {NoId}
               /\ IF s.user_id = NoId THEN ~Seller(i) ELSE s.user_id \in RowsOf(i)
  BY <1>i, <1>0 DEF RequestSound, LoadsOwnProfile, States
<1>3. ~graph => i = Bare(AdminNumber)
  BY <1>i, <1>0 DEF RequestSound, MakesNoSeller
<1>4. n \in Phones /\ (Seller(i) => OwnRow(n, i.owner)) /\ (~graph => ~Seller(n))
  <2>1. CASE graph
    <3>1. n = IF s.user_id = NoId THEN AdminSession ELSE Stray(s.user_id)
      BY <1>i, <1>n, <2>1 DEF NewPhone, IdOf
    <3>. QED
      BY <1>0, <1>2, <2>1, <3>1, Identified, StrayIsOwn
  <2>2. CASE ~graph
    <3>1. Subject(r) = Bare(AdminNumber)
      BY <1>i, <1>3, <2>2 DEF Subject
    <3>2. LastTen(Bare(AdminNumber)) = AdminNumber /\ AdminNumber # Nobody
      BY AccountsAssumption DEF LastTen, Dialled, Bare, Forms
    <3>3. n = Plus(AdminNumber)
      BY <1>i, <1>n, <2>2, <3>1, <3>2 DEF NewPhone
    <3>. QED
      BY <1>3, <2>2, <3>3, Identified DEF Bare, Plus, Seller
  <2>. QED
    BY <1>0, <2>1, <2>2
<1>5. CASE n \notin Registered
  <2>r. PICK row : row = [username |-> Nobody, password |-> FALSE, consent_given |-> ~graph]
    OBVIOUS
  <2>1. row \in Rows /\ AddUser(n, row) /\ GoesWith(r, then, n)
    BY <1>i, <1>n, <1>5, <2>r DEF MakeUser, Rows
  <2>2. TypeOK' /\ Registered' = Registered \cup {n}
    BY <1>0, <1>1, <1>4, <2>1, AddUserType, GoesWithType DEF MakeUser, TypeOK
  <2>3. /\ Alone(r) /\ request'[r].at = then /\ request'[r].row = n /\ request'[r].who = i
        /\ request'[r].state = s /\ request'[r].batch = request[r].batch
    BY <1>i, <1>0, <1>1, <1>4, <2>1, GoesWithSound
  <2>4. Grows
    BY <2>2 DEF Grows, MakeUser
  <2>5. Seller(i) => OwnRow(n, i.owner)'
    BY <1>4, <2>4, RowsGrow
  <2>6. s.onboarding_step = "DONE" => Ready(i)'
    BY <1>i, <1>0, <2>4, ReadyStays DEF RequestSound, OnboardsSoundly
  <2>7. FindsOwnRow(request[r])'
    BY <1>1, <2>2, <2>3, <2>5 DEF FindsOwnRow, Seller, Dialled
  <2>8. LoadsOwnProfile(request[r])' /\ MakesNoSeller(request[r])'
    BY <1>1, <2>3 DEF LoadsOwnProfile, MakesNoSeller
  <2>9. OnboardsSoundly(request[r])'
    BY <1>1, <2>3, <2>6 DEF OnboardsSoundly, OnlyTypes
  <2>10. RequestSound(r)'
    BY <1>0, <2>3, <2>7, <2>8, <2>9 DEF RequestSound
  <2>11. ~(Seller(n) /\ row.consent_given)
    BY <1>0, <1>4, <2>r
  <2>12. NamesAreRegistered'
    BY <1>4, <1>5, <2>r, <2>1, NamesKept DEF MakeUser
  <2>. QED
    BY <1>4, <2>1, <2>2, <2>3, <2>10, <2>11, <2>12, RowStep DEF MakeUser
<1>6. CASE n \in Registered
  <2>1. Answers(r) /\ UNCHANGED users
    BY <1>n, <1>6 DEF MakeUser
  <2>2. TypeOK'
    BY <1>0, <2>1, AnswersType DEF MakeUser, TypeOK
  <2>. QED
    BY <2>1, <2>2, AnswerStep DEF MakeUser
<1>. QED
  BY <1>5, <1>6

\* The books are written, and the handler answers.
LEMMA BookStep ==
  ASSUME AccountsInv, NEW r \in Requests, Answers(r), TypeOK',
         \A e \in ledger_entries' : e.user \in Registered,
         \A e \in ledger_entries' : Seller(e.by) => OwnRow(e.user, e.by.owner),
         UNCHANGED <<users, tokens, checkpoint, history>>
  PROVE  AccountsInv'
<1>0. Grows /\ Registered' = Registered
  BY DEF Grows, Registered
<1>1. FiledUnderCaller'
  BY <1>0, RowsGrow DEF FiledUnderCaller, Seller, Dialled
<1>2. ReadyHasRow' /\ NamesAreRegistered' /\ (OnlyTypes => ConsentAnswered)'
  BY <1>0, ReadyHasRowStays, NamesStay
<1>3. \A x \in Requests : RequestSound(x)'
  BY <1>0, SoundStays, IdleSound DEF AccountsInv, Alone
<1>. QED
  BY <1>0, <1>1, <1>2, <1>3 DEF AccountsInv

LEMMA WriteEntriesStep ==
  ASSUME AccountsInv, NEW r \in Requests, WriteEntries(r)
  PROVE  AccountsInv'
<1>i. PICK i, u : i = request[r].who /\ u = request[r].row
  OBVIOUS
<1>0. /\ TypeOK /\ RequestSound(r) /\ request[r] \in RequestRecords
      /\ i \in Identifiers /\ request[r].at = "entries"
  BY <1>i, AtWork DEF WriteEntries, At
<1>1. /\ u \in Registered /\ u \in Phones /\ request[r].batch \in 1 .. MaxBatches
      /\ (Seller(i) => OwnRow(u, i.owner))
  BY <1>i, <1>0 DEF RequestSound, FindsOwnRow, Registered
<1>2. 1 .. request[r].lines \subseteq 1 .. MaxLines
  BY <1>0, AccountsAssumption DEF RequestRecords
<1>3. /\ ledger_entries' \subseteq Entries
      /\ \A e \in ledger_entries' : \/ e \in ledger_entries
                                    \/ e.user = u /\ e.by = i
  BY <1>i, <1>0, <1>1, <1>2 DEF WriteEntries, TypeOK, Entries
<1>4. TypeOK'
  BY <1>0, <1>3, AnswersType DEF WriteEntries, TypeOK
<1>5. \A e \in ledger_entries : e.user \in Registered
      /\ (Seller(e.by) => OwnRow(e.user, e.by.owner))
  BY DEF AccountsInv, FiledUnderCaller
<1>6. \A e \in ledger_entries' : e.user \in Registered
  BY <1>1, <1>3, <1>5
<1>7. \A e \in ledger_entries' : Seller(e.by) => OwnRow(e.user, e.by.owner)
  BY <1>1, <1>3, <1>5
<1>. QED
  BY <1>4, <1>6, <1>7, BookStep DEF WriteEntries

LEMMA GetEntriesStep ==
  ASSUME AccountsInv, NEW r \in Requests, GetEntries(r)
  PROVE  AccountsInv'
<1>1. TypeOK'
  BY AnswersType DEF GetEntries, AccountsInv, TypeOK
<1>. QED
  BY <1>1, AnswerStep DEF GetEntries

LEMMA DeleteEntriesStep ==
  ASSUME AccountsInv, NEW r \in Requests, DeleteEntries(r)
  PROVE  AccountsInv'
<1>0. TypeOK /\ Answers(r)
  BY DEF AccountsInv, DeleteEntries
<1>1. ledger_entries' \subseteq ledger_entries
  BY DEF DeleteEntries
<1>2. TypeOK'
  BY <1>0, <1>1, AnswersType DEF DeleteEntries, TypeOK
<1>3. \A e \in ledger_entries' : /\ e.user \in Registered
                                 /\ Seller(e.by) => OwnRow(e.user, e.by.owner)
  BY <1>1 DEF AccountsInv, FiledUnderCaller
<1>. QED
  BY <1>0, <1>2, <1>3, BookStep DEF DeleteEntries

-----------------------------------------------------------------------------
(* Registration and login.                                                 *)

\* A step to a stage about which there is nothing to be sound.
LEMMA PassStep ==
  ASSUME AccountsInv, NEW r \in Requests, request[r].at # "answered",
         NEW stage \in {"add_user", "admin_insert", "admin_again"}, Goes(r, stage),
         stage = "add_user" => request[r].username # Nobody,
         TypeOK', UNCHANGED <<users, ledger_entries, tokens, checkpoint, history>>
  PROVE  AccountsInv'
<1>i. PICK i, s : i = request[r].who /\ s = request[r].state
  OBVIOUS
<1>0. TypeOK /\ RequestSound(r) /\ i \in Identifiers /\ stage \in Stages
  BY <1>i, AtWork DEF Stages
<1>1. Grows /\ UNCHANGED <<users, ledger_entries, tokens, checkpoint, registered>>
  BY DEF Grows, Registered
<1>2. /\ Alone(r) /\ request'[r].at = stage /\ request'[r].who = i
      /\ request'[r].state = s /\ request'[r].username = request[r].username
  BY <1>i, <1>0, GoesSound
<1>3. s.onboarding_step = "DONE" => Ready(i)'
  BY <1>i, <1>0, <1>1, ReadyStays DEF RequestSound, OnboardsSoundly
<1>4. FindsOwnRow(request[r])' /\ LoadsOwnProfile(request[r])' /\ MakesNoSeller(request[r])'
  BY <1>2 DEF FindsOwnRow, LoadsOwnProfile, MakesNoSeller
<1>5. OnboardsSoundly(request[r])'
  BY <1>2, <1>3 DEF OnboardsSoundly, OnlyTypes
<1>6. RequestSound(r)'
  BY <1>0, <1>2, <1>4, <1>5 DEF RequestSound
<1>. QED
  BY <1>1, <1>2, <1>6, QuietStep

LEMMA RegisterLooksStep ==
  ASSUME AccountsInv, NEW r \in Requests, RegisterLooks(r)
  PROVE  AccountsInv'
<1>0. TypeOK /\ request[r].at = "register" /\ request[r].username # Nobody
  BY DEF AccountsInv, RegisterLooks, At, RequestSound, FindsOwnRow
<1>1. CASE Answers(r)
  <2>1. TypeOK'
    BY <1>0, <1>1, AnswersType DEF RegisterLooks, TypeOK
  <2>. QED
    BY <1>1, <2>1, AnswerStep DEF RegisterLooks
<1>2. CASE Goes(r, "add_user")
  <2>1. TypeOK'
    BY <1>0, <1>2, GoesType DEF RegisterLooks, TypeOK, Stages
  <2>. QED
    BY <1>0, <1>2, <2>1, PassStep DEF RegisterLooks
<1>. QED
  BY <1>1, <1>2 DEF RegisterLooks

LEMMA RegisterAddsStep ==
  ASSUME AccountsInv, NEW r \in Requests, RegisterAdds(r)
  PROVE  AccountsInv'
<1>i. PICK i : i = request[r].who
  OBVIOUS
<1>0. /\ TypeOK /\ request[r] \in RequestRecords /\ i \in Identifiers
      /\ request[r].at = "add_user" /\ Answers(r) /\ request[r].username # Nobody
  BY <1>i, AtWork DEF RegisterAdds, At, RequestSound, FindsOwnRow
<1>1. RequestSound(r)' /\ Alone(r)
  BY <1>0, IdleSound
<1>2. CASE ~Known(r)
  <2>r. PICK row : row = [username |-> request[r].username, password |-> TRUE,
                          consent_given |-> TRUE]
    OBVIOUS
  <2>1. /\ row \in Rows /\ AddUser(i, row) /\ tokens' = tokens \cup {i}
        /\ row.username = request[r].username
    BY <1>i, <1>0, <1>2, <2>r DEF RegisterAdds, Rows, RequestRecords
  <2>2. TypeOK'
    BY <1>0, <2>1, AddUserType, AnswersType, Identified DEF RegisterAdds, TypeOK, RequestRecords
  <2>3. /\ row.username # Nobody /\ i \notin Registered
        /\ registered' = registered \cup {<<i, row.username>>}
    BY <1>i, <1>0, <1>2, <2>1 DEF RegisterAdds, Known
  <2>4. NamesAreRegistered'
    <3>1. Registered' = Registered \cup {i} /\ users' = [users EXCEPT ![i] = row]
      BY <1>0, <2>1, AddUserType, Identified DEF AddUser
    <3>2. users'[i] = row /\ \A v \in Registered : users'[v] = users[v]
      BY <1>0, <2>3, <3>1, Identified DEF TypeOK, Registered
    <3>. QED
      BY <1>0, <2>3, <3>1, <3>2 DEF AccountsInv, NamesAreRegistered
  <2>. QED
    BY <1>0, <1>1, <2>1, <2>2, <2>3, <2>4, RowStep, Identified DEF RegisterAdds
<1>3. CASE Known(r)
  <2>1. TypeOK' /\ UNCHANGED <<users, tokens, registered>>
    BY <1>0, <1>3, AnswersType DEF RegisterAdds, TypeOK
  <2>. QED
    BY <1>0, <2>1, AnswerStep DEF RegisterAdds
<1>. QED
  BY <1>2, <1>3

LEMMA LoginStep ==
  ASSUME AccountsInv, NEW u \in Registered \cap Identifiers, Login(u)
  PROVE  AccountsInv'
<1>0. /\ TypeOK /\ u \in Registered /\ u \in Phones /\ users[u] \in Rows
      /\ asked' \in 0 .. MaxAsked
  BY RegisteredRow, AccountsAssumption DEF AccountsInv, Login, TypeOK
<1>r. PICK row : row = [users[u] EXCEPT !.password = TRUE]
  OBVIOUS
<1>1. /\ row \in Rows /\ row.consent_given = users[u].consent_given
      /\ row.username = users[u].username
  BY <1>0, <1>r DEF Rows
<1>2. Registered' = Registered /\ Grows
  <2>1. CASE UNCHANGED users
    BY <2>1 DEF Registered, Grows, Login
  <2>2. CASE AddUser(u, row)
    BY <1>0, <1>1, <2>2, AddUserType DEF Grows, Login
  <2>. QED
    BY <1>r, <2>1, <2>2 DEF Login
<1>3. TypeOK'
  <2>1. users' \in [Phones -> Rows \cup {Nobody}]
    BY <1>0, <1>1, <1>r, AddUserType DEF Login, TypeOK
  <2>. QED
    BY <1>0, <2>1 DEF Login, TypeOK
<1>4. FiledUnderCaller' /\ (\A e \in ledger_entries' : e.user \in Registered')
  BY <1>2, FiledStays DEF Login
<1>5. ReadyHasRow'
  BY <1>2, ReadyHasRowStays DEF Login
<1>6. \A v \in Registered : users'[v].consent_given = users[v].consent_given
                            /\ users'[v].username = users[v].username
  BY <1>0, <1>1, <1>r DEF Login, AddUser, TypeOK, Registered
<1>7. (OnlyTypes => ConsentAnswered)'
  BY <1>2, <1>6 DEF AccountsInv, ConsentAnswered, OnlyTypes, Seller, Dialled, LastTen, Login
<1>8. NamesAreRegistered'
  BY <1>2, <1>6 DEF AccountsInv, NamesAreRegistered, Login
<1>9. tokens' \subseteq Registered' \cup {Bare(AdminNumber)}
  BY <1>0, <1>2 DEF AccountsInv, Login
<1>10. \A x \in Requests : RequestSound(x)'
  BY <1>2, SoundStays DEF AccountsInv, Login
<1>. QED
  BY <1>3, <1>4, <1>5, <1>7, <1>8, <1>9, <1>10, <1>2 DEF AccountsInv

\* The emergency profile answers with the administrator's number.
LEMMA TokenStep ==
  ASSUME AccountsInv, NEW r \in Requests, Answers(r), TypeOK',
         tokens' \subseteq tokens \cup Registered \cup {Bare(AdminNumber)},
         UNCHANGED <<users, ledger_entries, checkpoint, history>>
  PROVE  AccountsInv'
<1>0. Grows /\ Registered' = Registered
  BY DEF Grows, Registered
<1>1. FiledUnderCaller' /\ ReadyHasRow' /\ NamesAreRegistered'
      /\ (OnlyTypes => ConsentAnswered)' /\ (\A e \in ledger_entries' : e.user \in Registered')
  BY <1>0, FiledStays, ReadyHasRowStays, NamesStay
<1>2. \A x \in Requests : RequestSound(x)'
  BY <1>0, SoundStays, IdleSound DEF AccountsInv, Alone
<1>. QED
  BY <1>0, <1>1, <1>2 DEF AccountsInv

LEMMA LoginAdminLooksStep ==
  ASSUME AccountsInv, NEW r \in Requests, LoginAdminLooks(r)
  PROVE  AccountsInv'
<1>i. PICK i, s : i = request[r].who /\ s = request[r].state
  OBVIOUS
<1>0. TypeOK /\ RequestSound(r) /\ i \in Identifiers /\ request[r].at = "admin"
  BY <1>i, AtWork DEF LoginAdminLooks, At
<1>1. ASSUME NEW u \in Administrators, GoesWith(r, "admin_update", u)
      PROVE  AccountsInv'
  <2>1. /\ u \in Registered /\ u \in Identifiers /\ u \in Phones
        /\ "admin_update" \in Stages
    <3>1. u \in Registered /\ (u \in Called(Admin) \/ u \in Identifiers)
      BY Identified DEF Administrators, Called
    <3>2. Called(Admin) \subseteq Identifiers
      BY AccountsAssumption DEF Called, AccountsInv, NamesAreRegistered
    <3>. QED
      BY <3>1, <3>2, Identified DEF Stages
  <2>2. TypeOK'
    BY <1>0, <1>1, <2>1, GoesWithType DEF LoginAdminLooks, TypeOK
  <2>3. /\ Alone(r) /\ request'[r].at = "admin_update" /\ request'[r].who = i
        /\ request'[r].row = u /\ request'[r].state = s
    BY <1>i, <1>0, <1>1, <2>1, GoesWithSound
  <2>4. Grows /\ UNCHANGED <<users, ledger_entries, tokens, checkpoint, registered>>
    BY DEF LoginAdminLooks, Grows, Registered
  <2>5. s.onboarding_step = "DONE" => Ready(i)'
    BY <1>i, <1>0, <2>4, ReadyStays DEF RequestSound, OnboardsSoundly
  <2>6. FindsOwnRow(request[r])' /\ LoadsOwnProfile(request[r])' /\ MakesNoSeller(request[r])'
    BY <2>1, <2>3, <2>4 DEF FindsOwnRow, LoadsOwnProfile, MakesNoSeller, Registered
  <2>7. OnboardsSoundly(request[r])'
    BY <2>3, <2>5 DEF OnboardsSoundly, OnlyTypes
  <2>8. RequestSound(r)'
    BY <1>0, <2>3, <2>6, <2>7 DEF RequestSound
  <2>. QED
    BY <2>2, <2>3, <2>4, <2>8, QuietStep
<1>2. CASE Goes(r, "admin_insert")
  <2>1. TypeOK'
    BY <1>0, <1>2, GoesType DEF LoginAdminLooks, TypeOK, Stages
  <2>. QED
    BY <1>0, <1>2, <2>1, PassStep DEF LoginAdminLooks
<1>. QED
  BY <1>1, <1>2 DEF LoginAdminLooks

\* The administrator's login gives its username away.
LEMMA NamedAdmin ==
  ASSUME AccountsInv, NEW u \in Identifiers, NEW row \in Rows, AddUser(u, row),
         row.username = Admin, UNCHANGED registered
  PROVE  NamesAreRegistered'
<1>1. Registered' = Registered \cup {u}
  BY AddUserType, Identified DEF AccountsInv
<1>2. users'[u] = row /\ \A v \in Registered \ {u} : users'[v] = users[v]
  BY Identified DEF AccountsInv, TypeOK, AddUser, Registered
<1>3. Admin # Nobody
  BY AccountsAssumption
<1>. QED
  BY <1>1, <1>2, <1>3 DEF AccountsInv, NamesAreRegistered

LEMMA LoginAdminUpdatesStep ==
  ASSUME AccountsInv, NEW r \in Requests, LoginAdminUpdates(r)
  PROVE  AccountsInv'
<1>i. PICK u : u = request[r].row
  OBVIOUS
<1>0. /\ TypeOK /\ RequestSound(r) /\ request[r].at = "admin_update" /\ Answers(r)
      /\ u \in Registered /\ u \in Identifiers
  BY <1>i, AtWork DEF LoginAdminUpdates, At, RequestSound, FindsOwnRow
<1>1. u \in Phones /\ users[u] \in Rows /\ Bare(AdminNumber) \in Identifiers
  BY <1>0, RegisteredRow, Identified
<1>2. tokens' = tokens \cup {Bare(AdminNumber)}
  BY DEF LoginAdminUpdates
<1>r. PICK row : row = [users[u] EXCEPT !.username = Admin, !.password = TRUE]
  OBVIOUS
<1>3. CASE AddUser(u, row)
  <2>1. row \in Rows /\ row.username = Admin /\ row.username # Nobody
    BY <1>1, <1>r, AccountsAssumption DEF Rows
  <2>2. TypeOK'
    BY <1>0, <1>1, <1>2, <1>3, <2>1, AddUserType, AnswersType
    DEF LoginAdminUpdates, TypeOK
  <2>3. RequestSound(r)' /\ Alone(r)
    BY <1>0, IdleSound
  <2>4. NamesAreRegistered'
    BY <1>0, <1>1, <1>3, <2>1, NamedAdmin DEF LoginAdminUpdates
  <2>. QED
    BY <1>1, <1>2, <1>3, <2>1, <2>2, <2>3, <2>4, RowStep DEF LoginAdminUpdates
<1>4. CASE UNCHANGED users
  <2>1. TypeOK'
    BY <1>0, <1>1, <1>2, <1>4, AnswersType DEF LoginAdminUpdates, TypeOK
  <2>. QED
    BY <1>0, <1>2, <1>4, <2>1, TokenStep DEF LoginAdminUpdates
<1>. QED
  BY <1>i, <1>r, <1>3, <1>4 DEF LoginAdminUpdates

LEMMA LoginAdminInsertsStep ==
  ASSUME AccountsInv, NEW r \in Requests, LoginAdminInserts(r)
  PROVE  AccountsInv'
<1>i. PICK i : i = Bare(AdminNumber)
  OBVIOUS
<1>0. TypeOK /\ request[r].at = "admin_insert" /\ i \in Identifiers
  BY <1>i, Identified DEF AccountsInv, LoginAdminInserts, At
<1>r. PICK row : row = [username |-> Admin, password |-> TRUE, consent_given |-> FALSE]
  OBVIOUS
<1>1. CASE AddUser(i, row) /\ tokens' = tokens \cup {i} /\ Answers(r)
  <2>1. row \in Rows /\ row.username = Admin /\ row.username # Nobody /\ i \in Phones
    BY <1>0, <1>r, Identified, AccountsAssumption DEF Rows
  <2>2. TypeOK'
    BY <1>0, <1>1, <2>1, AddUserType, AnswersType DEF LoginAdminInserts, TypeOK
  <2>3. RequestSound(r)' /\ Alone(r)
    BY <1>0, <1>1, IdleSound
  <2>4. NamesAreRegistered'
    BY <1>0, <1>1, <2>1, NamedAdmin DEF LoginAdminInserts
  <2>. QED
    BY <1>0, <1>1, <2>1, <2>2, <2>3, <2>4, RowStep DEF LoginAdminInserts
<1>2. CASE Goes(r, "admin_again") /\ UNCHANGED <<users, tokens>>
  <2>1. TypeOK'
    BY <1>0, <1>2, GoesType DEF LoginAdminInserts, TypeOK, Stages
  <2>. QED
    BY <1>0, <1>2, <2>1, PassStep DEF LoginAdminInserts
<1>. QED
  BY <1>i, <1>r, <1>1, <1>2 DEF LoginAdminInserts

LEMMA LoginAdminLooksAgainStep ==
  ASSUME AccountsInv, NEW r \in Requests, LoginAdminLooksAgain(r)
  PROVE  AccountsInv'
<1>0. TypeOK /\ Answers(r) /\ Bare(AdminNumber) \in Identifiers
  BY Identified DEF AccountsInv, LoginAdminLooksAgain
<1>1. PICK i \in (Registered \cap Identifiers) \cup {Bare(AdminNumber)} :
        tokens' = tokens \cup {i}
  <2>1. Called(Admin) \subseteq Registered \cap Identifiers
    BY AccountsAssumption DEF Called, AccountsInv, NamesAreRegistered
  <2>2. FindsEnding(Bare(AdminNumber)) \subseteq Registered \cap Identifiers
    BY <1>0, FindsAreRows
  <2>. QED
    BY <2>1, <2>2 DEF LoginAdminLooksAgain
<1>2. i \in Identifiers
  BY <1>0
<1>3. TypeOK'
  BY <1>0, <1>1, <1>2, AnswersType DEF LoginAdminLooksAgain, TypeOK
<1>. QED
  BY <1>0, <1>1, <1>3, TokenStep DEF LoginAdminLooksAgain

LEMMA LoginAdminFailsStep ==
  ASSUME AccountsInv, NEW r \in Requests, LoginAdminFails(r)
  PROVE  AccountsInv'
<1>0. TypeOK /\ Fault /\ Bare(AdminNumber) \in Identifiers
  BY Identified DEF AccountsInv, LoginAdminFails
<1>1. CASE At(r, "admin_insert") /\ Goes(r, "admin_again") /\ UNCHANGED tokens
  <2>1. TypeOK'
    BY <1>0, <1>1, GoesType, FaultType DEF LoginAdminFails, TypeOK, Stages
  <2>2. request[r].at # "answered"
    BY <1>1 DEF At
  <2>. QED
    BY <1>1, <2>1, <2>2, PassStep DEF LoginAdminFails
<1>2. CASE Answers(r) /\ tokens' = tokens \cup {Bare(AdminNumber)}
  <2>1. TypeOK'
    BY <1>0, <1>2, AnswersType, FaultType DEF LoginAdminFails, TypeOK
  <2>. QED
    BY <1>2, <2>1, TokenStep DEF LoginAdminFails
<1>. QED
  BY <1>1, <1>2 DEF LoginAdminFails

LEMMA StatementFailsStep ==
  ASSUME AccountsInv, NEW r \in Requests, StatementFails(r)
  PROVE  AccountsInv'
<1>1. TypeOK' /\ Answers(r)
  BY AnswersType, FaultType DEF AccountsInv, StatementFails, TypeOK
<1>. QED
  BY <1>1, AnswerStep DEF StatementFails

LEMMA RestartStep ==
  ASSUME AccountsInv, Restart
  PROVE  AccountsInv'
<1>. USE DEF AccountsInv
<1>0. Grows /\ Registered' = Registered
  BY DEF Grows, Registered, Restart
<1>1. TypeOK'
  BY IdleType DEF Restart, TypeOK
<1>2. FiledUnderCaller' /\ (\A e \in ledger_entries' : e.user \in Registered')
  BY <1>0, FiledStays DEF Restart
<1>3. ReadyHasRow'
  BY DEF ReadyHasRow, Restart, Fresh
<1>4. NamesAreRegistered' /\ (OnlyTypes => ConsentAnswered)'
  BY NamesStay DEF Restart
<1>5. \A x \in Requests : RequestSound(x)'
  BY DEF RequestSound, Restart, Idle
<1>. QED
  BY <1>0, <1>1, <1>2, <1>3, <1>4, <1>5 DEF Restart

-----------------------------------------------------------------------------
(* The theorems.                                                           *)

LEMMA InitSound ==
  ASSUME Init PROVE AccountsInv
<1>1. TypeOK
  BY IdleType, AccountsAssumption DEF Init, TypeOK
<1>2. Registered = {}
  BY DEF Init, Registered
<1>3. ReadyHasRow
  BY DEF Init, ReadyHasRow, Fresh
<1>4. \A x \in Requests : RequestSound(x)
  BY DEF Init, RequestSound, Idle
<1>. QED
  BY <1>1, <1>2, <1>3, <1>4
  DEF AccountsInv, FiledUnderCaller, ConsentAnswered, NamesAreRegistered, Init

LEMMA StutterSound ==
  ASSUME AccountsInv, UNCHANGED vars PROVE AccountsInv'
<1>. USE DEF AccountsInv, vars
<1>0. Grows /\ Registered' = Registered
  BY DEF Grows, Registered
<1>1. TypeOK'
  BY DEF TypeOK
<1>2. FiledUnderCaller' /\ (\A e \in ledger_entries' : e.user \in Registered')
  BY <1>0, FiledStays
<1>3. ReadyHasRow'
  BY <1>0, ReadyHasRowStays
<1>4. NamesAreRegistered' /\ (OnlyTypes => ConsentAnswered)'
  BY NamesStay
<1>5. \A x \in Requests : RequestSound(x)'
  BY <1>0, SoundStays
<1>. QED
  BY <1>0, <1>1, <1>2, <1>3, <1>4, <1>5

LEMMA StepSound ==
  ASSUME AccountsInv, [Next]_vars PROVE AccountsInv'
<1>1. ASSUME NEW r \in Requests, NEW i \in Writers, NEW m \in Messages, Receive(r, i, m)
      PROVE  AccountsInv'
  BY <1>1, ReceiveStep
<1>2. ASSUME NEW r \in Requests,
             \/ LoadUserProfile(r) \/ LoadUserProfileFails(r) \/ InputGuard(r)
             \/ Onboarding(r) \/ OnboardingConsent(r) \/ CreateUser(r) \/ UpdateUser(r)
             \/ InsertUser(r) \/ InsertUserFails(r) \/ Fallback(r) \/ Feature(r)
      PROVE  AccountsInv'
  BY <1>2, LoadStep, InputGuardStep, OnboardingStep, OnboardingConsentStep,
     CreateUserStep, UpdateUserStep, InsertUserStep, InsertUserFailsStep, FallbackStep,
     FeatureStep
<1>3. ASSUME NEW r \in Requests, NEW i \in tokens,
             \/ \E lines \in 1 .. MaxLines : Ask(r, i, "entries", lines)
             \/ \E what \in {"list", "delete"} : Ask(r, i, what, 0)
      PROVE  AccountsInv'
  <2>1. 1 .. MaxLines \subseteq 0 .. MaxLines /\ 0 \in 0 .. MaxLines /\ i \in Identifiers
    BY AccountsAssumption DEF AccountsInv, TypeOK
  <2>2. ASSUME NEW lines \in 1 .. MaxLines, Ask(r, i, "entries", lines)
        PROVE  AccountsInv'
    BY <2>1, <2>2, AskStep
  <2>3. ASSUME NEW what \in {"list", "delete"}, Ask(r, i, what, 0)
        PROVE  AccountsInv'
    BY <2>1, <2>3, AskStep
  <2>. QED
    BY <1>3, <2>2, <2>3
<1>4. ASSUME NEW r \in Requests,
             \/ FindUser(r) \/ SaveLookupFails(r) \/ FindUserById(r) \/ MakeUser(r)
             \/ WriteEntries(r) \/ GetEntries(r) \/ DeleteEntries(r)
             \/ RegisterLooks(r) \/ RegisterAdds(r)
             \/ \E s \in Signups : Register(r, s[1], s[2])
      PROVE  AccountsInv'
  BY <1>4, FindUserStep, SaveLookupFailsStep, FindUserByIdStep, MakeUserStep, WriteEntriesStep, GetEntriesStep,
     DeleteEntriesStep, RegisterLooksStep, RegisterAddsStep, RegisterStep
<1>5. ASSUME NEW r \in Requests,
             \/ LoginAdmin(r) \/ LoginAdminLooks(r) \/ LoginAdminUpdates(r)
             \/ LoginAdminInserts(r) \/ LoginAdminLooksAgain(r)
             \/ LoginAdminFails(r) \/ StatementFails(r)
      PROVE  AccountsInv'
  BY <1>5, LoginAdminStep, LoginAdminLooksStep, LoginAdminUpdatesStep,
     LoginAdminInsertsStep, LoginAdminLooksAgainStep, LoginAdminFailsStep,
     StatementFailsStep
<1>6. (\E u \in Registered \cap Identifiers : Login(u)) \/ Restart \/ UNCHANGED vars => AccountsInv'
  BY LoginStep, RestartStep, StutterSound
<1>. QED
  BY <1>1, <1>2, <1>3, <1>4, <1>5, <1>6 DEF Next

\* Of every number written in every way, whoever writes, registers and logs in
\* at once, and whichever statement fails: the invariant of the registry.
THEOREM AccountsInvHolds == Spec => []AccountsInv
BY InitSound, StepSound, PTL DEF Spec

\* The variables keep their types.
THEOREM TypeCorrect == Spec => []TypeOK
BY AccountsInvHolds, PTL DEF AccountsInv

\* An entry is filed under a row of the number of whoever saved it.
THEOREM FiledUnderCallerHolds == Spec => []FiledUnderCaller
BY AccountsInvHolds, PTL DEF AccountsInv

\* Whom the graph takes to be ready has a row, or the database failed it.
THEOREM ReadyHasRowHolds == Spec => []ReadyHasRow
BY AccountsInvHolds, PTL DEF AccountsInv

\* Where people only type, a row says "consent given" for a yes to the question.
THEOREM ConsentAnsweredHolds == ASSUME OnlyTypes PROVE Spec => []ConsentAnswered
<1>1. AccountsInv => ConsentAnswered
  BY DEF AccountsInv
<1>. QED
  BY <1>1, AccountsInvHolds, PTL

\* A list shows its owner the whole of the book, while the number is stored once.
THEOREM ListsOwnBookHolds == Spec => []ListsOwnBook
<1>1. ASSUME AccountsInv PROVE ListsOwnBook
  <2>. SUFFICES ASSUME NEW r \in Requests, At(r, "list"), Seller(request[r].who),
                  \A u, v \in {u \in Registered : OwnRow(u, request[r].who.owner)} : u = v,
                  NEW e \in ledger_entries, Seller(e.by),
                  e.by.owner = request[r].who.owner
           PROVE  e.user = request[r].row
    BY DEF ListsOwnBook, EntriesOf
  <2>1. request[r].row \in Registered /\ OwnRow(request[r].row, request[r].who.owner)
    BY <1>1 DEF AccountsInv, RequestSound, FindsOwnRow, At
  <2>2. e.user \in Registered /\ OwnRow(e.user, request[r].who.owner)
    BY <1>1 DEF AccountsInv, FiledUnderCaller
  <2>. QED
    BY <2>1, <2>2
<1>. QED
  BY <1>1, AccountsInvHolds, PTL
=============================================================================
