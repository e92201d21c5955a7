---------------------------- MODULE MeteringProofs ----------------------------
(* Caps, limits, charges and links, for any number of users, requests and    *)
(* days, whatever the caps and the limit are.                                *)
EXTENDS Metering, FiniteSetTheorems, TLAPS

-----------------------------------------------------------------------------
(* The caps, the months and the blank handler have their types.            *)

LEMMA CapTyped == \A f \in Features : Cap[f] \in Nat
BY MeteringAssumption DEF Cap, Features

LEMMA MonthTyped ==
  ASSUME NEW d \in Days
  PROVE  Month(d) \in Months
<1>1. d \in Nat /\ 1 <= d /\ d <= MaxDays /\ MaxDays \in Nat  BY MeteringAssumption DEF Days
<1>2. DaysPerMonth \in Nat /\ DaysPerMonth >= 1  BY MeteringAssumption
<1> DEFINE n == d - 1
           k == n \div DaysPerMonth
<1>3. n \in Nat /\ n < MaxDays  BY <1>1
<1>4. k \in Int /\ k >= 0 /\ k <= n  BY <1>2, <1>3, SMTT(30)
<1>. QED  BY <1>1, <1>3, <1>4 DEF Month, Months

LEMMA IdleTyped == Idle \in RequestRecords /\ Idle.at = "idle"
<1>1. (CHOOSE u \in Users : TRUE) \in Users  BY MeteringAssumption
<1>2. MaxAsked \in Nat /\ MaxDays \in Nat  BY MeteringAssumption
<1>. QED  BY <1>1, <1>2 DEF Idle, RequestRecords, Stages, Features, Objects

\* One handler's record is another, and all others' stay.
Moves(r) ==
  /\ request' \in [Requests -> RequestRecords]
  /\ \A q \in Requests : q # r => request'[q] = request[q]

Keeps(r) ==
  /\ request'[r].turn = request[r].turn /\ request'[r].user = request[r].user
  /\ request'[r].feature = request[r].feature /\ request'[r].bucket = request[r].bucket
  /\ request'[r].tries = request[r].tries /\ request'[r].object = request[r].object
  /\ request'[r].sends = request[r].sends

LEMMA Going ==
  ASSUME TypeOK, NEW r \in Requests, NEW stage \in Stages, Goes(r, stage)
  PROVE  Moves(r) /\ Keeps(r) /\ request'[r].at = stage
<1>1. request \in [Requests -> RequestRecords]  BY DEF TypeOK
<1>2. request[r] \in RequestRecords  BY <1>1
<1>3. [request[r] EXCEPT !.at = stage] \in RequestRecords  BY <1>2 DEF RequestRecords
<1>4. request' = [request EXCEPT ![r] = [request[r] EXCEPT !.at = stage]]  BY <1>1 DEF Goes
<1>5. request'[r] = [request[r] EXCEPT !.at = stage]  BY <1>1, <1>4
<1>6. Moves(r)  BY <1>1, <1>3, <1>4 DEF Moves
<1>. QED  BY <1>2, <1>5, <1>6 DEF Keeps, RequestRecords

LEMMA Sending ==
  ASSUME TypeOK, NEW r \in Requests, NEW stage \in Stages, NEW object \in Objects,
         NEW b \in BOOLEAN, Sends(r, stage, object, b)
  PROVE  /\ Moves(r) /\ request'[r].at = stage /\ request'[r].object = object
         /\ request'[r].turn = request[r].turn
<1>1. request \in [Requests -> RequestRecords]  BY DEF TypeOK
<1>2. request[r] \in RequestRecords  BY <1>1
<1> DEFINE rec == [request[r] EXCEPT !.at = stage, !.object = object, !.sends = b]
<1>3. rec \in RequestRecords  BY <1>2 DEF RequestRecords
<1>4. request' = [request EXCEPT ![r] = rec]  BY <1>1 DEF Sends
<1>5. request'[r] = rec  BY <1>1, <1>4
<1>6. Moves(r)
  <2>. HIDE DEF rec
  <2>. QED  BY <1>1, <1>3, <1>4 DEF Moves
<1>. QED  BY <1>2, <1>5, <1>6 DEF RequestRecords

LEMMA GoingWith ==
  ASSUME TypeOK, NEW r \in Requests, NEW stage \in Stages, NEW object \in Objects,
         GoesWith(r, stage, object)
  PROVE  /\ Moves(r) /\ request'[r].at = stage /\ request'[r].object = object
         /\ request'[r].turn = request[r].turn
<1>1. request \in [Requests -> RequestRecords]  BY DEF TypeOK
<1>2. request[r] \in RequestRecords  BY <1>1
<1> DEFINE rec == [request[r] EXCEPT !.at = stage, !.object = object]
<1>3. rec \in RequestRecords  BY <1>2 DEF RequestRecords
<1>4. request' = [request EXCEPT ![r] = rec]  BY <1>1 DEF GoesWith
<1>5. request'[r] = rec  BY <1>1, <1>4
<1>6. Moves(r)
  <2>. HIDE DEF rec
  <2>. QED  BY <1>1, <1>3, <1>4 DEF Moves
<1>. QED  BY <1>2, <1>5, <1>6 DEF RequestRecords

LEMMA Ending ==
  ASSUME TypeOK, NEW r \in Requests, Ends(r)
  PROVE  Moves(r) /\ request'[r].at = "idle"
<1>1. request \in [Requests -> RequestRecords]  BY DEF TypeOK
<1>. QED  BY <1>1, IdleTyped DEF Ends, Moves

-----------------------------------------------------------------------------
(* A step of one handler about one turn.                                   *)

\* Whatever a step does for its own turn, the other handlers are as they were.
Minds(r, t) ==
  /\ Moves(r)
  /\ asked' \in Nat /\ asked <= asked'
  /\ stored \subseteq stored' /\ worked \subseteq worked'
  /\ \A w \in worked' : w \in worked \/ w.turn = t
  /\ \A x \in metered' : x \in metered \/ x.turn = t
  /\ saaras \subseteq saaras' /\ \A u \in saaras' : u \in saaras \/ u = t
  /\ \A u \in Turns : u # t => charged'[u] = charged[u]
  /\ \A q \in Requests : q # r /\ request[q].at # "idle" => request[q].turn # t
  /\ request'[r].at = "idle" \/ request'[r].turn = t

LEMMA OthersStand ==
  ASSUME MeteringInv, NEW r \in Requests, NEW t, Minds(r, t),
         RequestSound(r)'
  PROVE  (\A q \in Requests : RequestSound(q))' /\ (\A p, q \in Requests : Apart(p, q))'
<1>0. asked \in Nat /\ MaxAsked \in Nat /\ asked <= MaxAsked
  BY MeteringAssumption DEF MeteringInv, TypeOK
<1>1. ASSUME NEW q \in Requests, q # r  PROVE RequestSound(q)'
  <2>1. RequestSound(q) /\ request'[q] = request[q]  BY <1>1 DEF MeteringInv, Minds, Moves
  <2>2. CASE request[q].at = "idle"  BY <2>1, <2>2 DEF RequestSound
  <2>3. CASE request[q].at # "idle"
    <3> DEFINE q1 == request[q]
    <3>1. q1.turn # t /\ q1.turn \in 1..asked  BY <1>1, <2>1, <2>3 DEF Minds, RequestSound
    <3>2. q1.turn \in Turns /\ q1.turn \in 1..asked'
      BY <1>0, <3>1 DEF Turns, Minds
    <3>3. charged'[q1.turn] = charged[q1.turn]  BY <3>1, <3>2 DEF Minds
    <3>4. (\E w \in worked : w.turn = q1.turn) => \E w \in worked' : w.turn = q1.turn
      BY DEF Minds
    <3>5. (\A w \in worked : w.turn # q1.turn) => \A w \in worked' : w.turn # q1.turn
      BY <3>1 DEF Minds
    <3>6. \A x \in metered' : x.turn = q1.turn => x \in metered
      BY <3>1 DEF Minds
    <3>7. stored \subseteq stored'  BY DEF Minds
    <3>9. q1.turn \in saaras' <=> q1.turn \in saaras  BY <3>1 DEF Minds
    <3>8. \A object : Key(q, object)' = Key(q, object)  BY <2>1 DEF Key
    <3>. QED  BY <2>1, <2>3, <3>2, <3>3, <3>4, <3>5, <3>6, <3>7, <3>8, <3>9 DEF RequestSound
  <2>. QED  BY <2>2, <2>3
<1>2. ASSUME NEW p \in Requests, NEW q \in Requests  PROVE Apart(p, q)'
  <2>1. Apart(p, q) /\ Apart(q, p)  BY DEF MeteringInv
  <2>. QED  BY <2>1 DEF Apart, Minds, Moves
<1>. QED  BY <1>1, <1>2

\* A handler at work has its turn to itself.
LEMMA TurnApart ==
  ASSUME MeteringInv, NEW r \in Requests, request[r].at # "idle"
  PROVE  /\ request[r].turn \in 1..asked /\ request[r].turn \in Turns
         /\ asked \in Nat /\ asked <= MaxAsked
         /\ \A q \in Requests : q # r /\ request[q].at # "idle" =>
              request[q].turn # request[r].turn
<1>0. asked \in Nat /\ MaxAsked \in Nat /\ asked <= MaxAsked
  BY MeteringAssumption DEF MeteringInv, TypeOK
<1>1. request[r].turn \in 1..asked  BY DEF MeteringInv, RequestSound
<1>. QED  BY <1>0, <1>1 DEF MeteringInv, Apart, Turns

\* A step that moves one handler on and leaves everything else.
LEMMA Walks ==
  ASSUME MeteringInv, NEW r \in Requests, request[r].at # "idle", Moves(r),
         UNCHANGED <<day, asked, books, goods, history>>,
         request'[r].at = "idle" \/ request'[r].turn = request[r].turn,
         RequestSound(r)'
  PROVE  MeteringInv'
<1>1. /\ day' = day /\ asked' = asked /\ feature_usage_counters' = feature_usage_counters
      /\ api_usage' = api_usage /\ has_api_usage' = has_api_usage /\ stored' = stored
      /\ charged' = charged /\ catalog_creations' = catalog_creations
      /\ delivered' = delivered /\ worked' = worked /\ metered' = metered
      /\ saaras' = saaras /\ heard' = heard
  BY DEF books, goods, history
<1>2. Minds(r, request[r].turn)  BY <1>1, TurnApart DEF Minds
<1>3. (\A q \in Requests : RequestSound(q))' /\ (\A p, q \in Requests : Apart(p, q))'
  BY <1>2, OthersStand
<1>4. TypeOK'  BY <1>1 DEF MeteringInv, TypeOK, Moves
<1>5. OnlyAdmittedWork' /\ PosterPaidOnce' /\ DeliveredIsStored' /\ TranscriptTrusted'
  BY <1>1 DEF MeteringInv, OnlyAdmittedWork, PosterPaidOnce, DeliveredIsStored, TranscriptTrusted
<1>6. CapsCounted' /\ NotesCounted'  BY <1>1 DEF MeteringInv, CapsCounted, NotesCounted
<1>7. UsageCounted'  BY <1>1 DEF MeteringInv, UsageCounted, NotesOf
<1>. QED  BY <1>3, <1>4, <1>5, <1>6, <1>7 DEF MeteringInv

LEMMA Endings ==
  ASSUME MeteringInv, NEW r \in Requests, request[r].at # "idle", Ends(r),
         UNCHANGED <<day, asked, books, goods, history>>
  PROVE  MeteringInv'
<1>1. Moves(r) /\ request'[r].at = "idle"  BY Ending DEF MeteringInv
<1>2. RequestSound(r)'  BY <1>1 DEF RequestSound
<1>. QED  BY <1>1, <1>2, Walks

\* From one stage to another that asks for no more than it.
LEMMA GoesOn ==
  ASSUME MeteringInv, NEW r \in Requests, NEW stage \in Stages, Goes(r, stage),
         UNCHANGED <<day, asked, books, goods, history>>,
         \/ request[r].at = "photo" /\ stage = "upload_photo"
         \/ request[r].at = "hard_stop" /\ stage \in {"flux_submit", "pillow"}
         \/ request[r].at = "flux_submit" /\ stage = "flux_poll"
         \/ request[r].at = "flux_poll" /\ stage = "flux_download"
         \/ request[r].at = "flux_download" /\ stage = "flux_charge"
         \/ request[r].at \in InFlux /\ stage = "pillow"
         \/ request[r].at = "pillow" /\ stage = "link_photo"
         \/ request[r].at = "report" /\ stage = "upload_report"
  PROVE  MeteringInv'
<1>1. Moves(r) /\ Keeps(r) /\ request'[r].at = stage  BY Going DEF MeteringInv
<1>2. request[r].at # "idle" /\ RequestSound(r)  BY DEF MeteringInv, InFlux
<1>3. /\ asked' = asked /\ stored' = stored /\ charged' = charged /\ worked' = worked
      /\ metered' = metered
  BY DEF books, goods, history
<1>4. \A object : Key(r, object)' = Key(r, object)  BY <1>1 DEF Key, Keeps
<1>5. RequestSound(r)'
  BY <1>1, <1>2, <1>3, <1>4
  DEF RequestSound, Keeps, Working, WithPhoto, BeforePhoto, InFlux
<1>. QED  BY <1>1, <1>2, <1>5, Walks DEF Keeps

LEMMA PrepareInv ==
  ASSUME MeteringInv, NEW r \in Requests, Prepare(r)
  PROVE  MeteringInv'
<1>1. At(r, "photo") /\ UNCHANGED <<day, asked, books, goods, history>>  BY DEF Prepare
<1>2. CASE Ends(r)  BY <1>1, <1>2, Endings DEF At
<1>3. CASE Goes(r, "upload_photo")  BY <1>1, <1>3, GoesOn DEF At, Stages
<1>. QED  BY <1>2, <1>3 DEF Prepare

LEMMA HardStopInv ==
  ASSUME MeteringInv, NEW r \in Requests, HardStop(r)
  PROVE  MeteringInv'
<1>1. At(r, "hard_stop") /\ UNCHANGED <<day, asked, books, goods, history>>  BY DEF HardStop
<1>2. CASE Goes(r, "flux_submit")  BY <1>1, <1>2, GoesOn DEF At, Stages, InFlux
<1>3. CASE Goes(r, "pillow")  BY <1>1, <1>3, GoesOn DEF At, Stages
<1>. QED  BY <1>2, <1>3 DEF HardStop

LEMMA FluxInv ==
  ASSUME MeteringInv, NEW r \in Requests,
         FluxSubmit(r) \/ FluxDownload(r) \/ FluxFails(r)
  PROVE  MeteringInv'
<1>1. CASE FluxSubmit(r)  BY <1>1, GoesOn DEF FluxSubmit, At, Stages, InFlux
<1>2. CASE FluxDownload(r)  BY <1>2, GoesOn DEF FluxDownload, At, Stages, InFlux
<1>3. CASE FluxFails(r)  BY <1>3, GoesOn DEF FluxFails, Stages
<1>. QED  BY <1>1, <1>2, <1>3

LEMMA FluxPollInv ==
  ASSUME MeteringInv, NEW r \in Requests, FluxPoll(r)
  PROVE  MeteringInv'
<1>1. At(r, "flux_poll") /\ UNCHANGED <<day, asked, books, goods, history>>  BY DEF FluxPoll
<1>2. CASE Goes(r, "flux_download")  BY <1>1, <1>2, GoesOn DEF At, Stages, InFlux
<1>3. CASE request' = [request EXCEPT ![r].tries = @ + 1]
  <2> DEFINE rec == [request[r] EXCEPT !.tries = @ + 1]
  <2>1. request \in [Requests -> RequestRecords]  BY DEF MeteringInv, TypeOK
  <2>2. request[r] \in RequestRecords  BY <2>1
  <2>3. rec \in RequestRecords  BY <2>2 DEF RequestRecords
  <2>4. request' = [request EXCEPT ![r] = rec]  BY <1>3, <2>1
  <2>5. request'[r] = rec  BY <2>1, <2>4
  <2>6. Moves(r)
    <3>. HIDE DEF rec
    <3>. QED  BY <2>1, <2>3, <2>4 DEF Moves
  <2>7. /\ request'[r].at = request[r].at /\ request'[r].turn = request[r].turn
        /\ request'[r].object = request[r].object
    BY <2>2, <2>5 DEF RequestRecords
  <2>8. request[r].at = "flux_poll" /\ RequestSound(r)  BY <1>1 DEF MeteringInv, At
  <2>9. /\ asked' = asked /\ stored' = stored /\ charged' = charged /\ worked' = worked
        /\ metered' = metered
    BY <1>1 DEF books, goods, history
  <2>10. RequestSound(r)'
    <3>. HIDE DEF rec
    <3>. QED  BY <2>7, <2>8, <2>9 DEF RequestSound, Key, Working, WithPhoto, BeforePhoto, InFlux
  <2>. QED  BY <1>1, <2>6, <2>7, <2>8, <2>10, Walks
<1>. QED  BY <1>2, <1>3 DEF FluxPoll

LEMMA ComposeInv ==
  ASSUME MeteringInv, NEW r \in Requests, Compose(r)
  PROVE  MeteringInv'
<1>1. At(r, "pillow") /\ UNCHANGED <<day, asked, books, goods, history>>  BY DEF Compose
<1>2. CASE GoesWith(r, "upload_poster", "pillow")
  <2>1. /\ Moves(r) /\ request'[r].at = "upload_poster" /\ request'[r].object = "pillow"
        /\ request'[r].turn = request[r].turn
    BY <1>2, GoingWith DEF MeteringInv, Stages, Objects
  <2>2. request[r].at = "pillow" /\ RequestSound(r)  BY <1>1 DEF MeteringInv, At
  <2>3. /\ asked' = asked /\ stored' = stored /\ charged' = charged /\ worked' = worked
        /\ metered' = metered
    BY <1>1 DEF books, goods, history
  <2>4. RequestSound(r)'
    BY <2>1, <2>2, <2>3 DEF RequestSound, Key, Working, WithPhoto, BeforePhoto, InFlux
  <2>. QED  BY <1>1, <2>1, <2>2, <2>4, Walks
<1>3. CASE Goes(r, "link_photo")  BY <1>1, <1>3, GoesOn DEF At, Stages
<1>. QED  BY <1>2, <1>3 DEF Compose

LEMMA LinkPhotoInv ==
  ASSUME MeteringInv, NEW r \in Requests, LinkPhoto(r)
  PROVE  MeteringInv'
<1>1. At(r, "link_photo") /\ UNCHANGED <<day, asked, books, goods, history>>
  BY DEF LinkPhoto
<1>2. PICK b \in BOOLEAN : Sends(r, "record", "photo", b)  BY DEF LinkPhoto
<1>3. /\ Moves(r) /\ request'[r].at = "record" /\ request'[r].object = "photo"
      /\ request'[r].turn = request[r].turn
  BY <1>2, Sending, SMTT(40) DEF MeteringInv, Stages, Objects
<1>4. request[r].at = "link_photo" /\ RequestSound(r)  BY <1>1 DEF MeteringInv, At
<1>5. /\ asked' = asked /\ stored' = stored /\ charged' = charged /\ worked' = worked
      /\ metered' = metered
  BY <1>1 DEF books, goods, history
<1>6. RequestSound(r)'
  BY <1>3, <1>4, <1>5 DEF RequestSound, Key, Working, WithPhoto, BeforePhoto, InFlux
<1>. QED  BY <1>1, <1>3, <1>4, <1>6, Walks

LEMMA ReportInv ==
  ASSUME MeteringInv, NEW r \in Requests, Report(r)
  PROVE  MeteringInv'
<1>1. At(r, "report") /\ UNCHANGED <<day, asked, books, goods, history>>  BY DEF Report
<1>2. CASE Ends(r)  BY <1>1, <1>2, Endings DEF At
<1>3. CASE Goes(r, "upload_report")  BY <1>1, <1>3, GoesOn DEF At, Stages
<1>. QED  BY <1>2, <1>3 DEF Report

LEMMA TierInv ==
  ASSUME MeteringInv, NEW r \in Requests, Tier(r)
  PROVE  MeteringInv'
<1>1. At(r, "tier") /\ UNCHANGED <<day, asked, books, goods, history>>  BY DEF Tier
<1> DEFINE rec == [request[r] EXCEPT !.at = "count", !.bucket = Month(day)]
<1>2. request \in [Requests -> RequestRecords]  BY DEF MeteringInv, TypeOK
<1>3. request[r] \in RequestRecords  BY <1>2
<1>4. Month(day) \in Months  BY MonthTyped DEF MeteringInv, TypeOK
<1>5. rec \in RequestRecords /\ rec.at = "count" /\ rec.turn = request[r].turn
      /\ rec.bucket \in Months
  BY <1>3, <1>4 DEF RequestRecords, Stages, Months
<1>6. request' = [request EXCEPT ![r] = rec]  BY <1>2 DEF Tier
<1>7. request'[r] = rec  BY <1>2, <1>6
<1>8. Moves(r)
  <2>. HIDE DEF rec
  <2>. QED  BY <1>2, <1>5, <1>6 DEF Moves
<1>9. request[r].at = "tier" /\ RequestSound(r)  BY <1>1 DEF MeteringInv, At
<1>10. /\ asked' = asked /\ stored' = stored /\ charged' = charged /\ worked' = worked
       /\ metered' = metered /\ saaras' = saaras
  BY <1>1 DEF books, goods, history
<1>11. RequestSound(r)'
  <2>. HIDE DEF rec
  <2>. QED  BY <1>5, <1>7, <1>9, <1>10 DEF RequestSound, Working, WithPhoto, BeforePhoto, InFlux
<1>. QED
  <2>. HIDE DEF rec
  <2>. QED  BY <1>1, <1>5, <1>7, <1>8, <1>9, <1>11, Walks

-----------------------------------------------------------------------------
(* Steps that store, charge, record or send.                               *)

LEMMA Stores ==
  ASSUME MeteringInv, NEW r \in Requests, NEW object \in Objects, request[r].at \in Working,
         Moves(r), request'[r].at = "idle" \/ request'[r].turn = request[r].turn,
         stored' \in {stored, stored \cup {Key(r, object)}},
         UNCHANGED <<day, asked, books, charged, catalog_creations, delivered, history>>,
         object = "flux-pro" => charged[request[r].turn] = 1,
         RequestSound(r)'
  PROVE  MeteringInv'
<1> DEFINE k == Key(r, object)
<1>0. request[r].at # "idle" /\ RequestSound(r)
  BY DEF MeteringInv, Working, WithPhoto, BeforePhoto, InFlux
<1>1. /\ day' = day /\ asked' = asked /\ feature_usage_counters' = feature_usage_counters
      /\ api_usage' = api_usage /\ has_api_usage' = has_api_usage
      /\ charged' = charged /\ catalog_creations' = catalog_creations
      /\ delivered' = delivered /\ worked' = worked /\ metered' = metered
      /\ saaras' = saaras /\ heard' = heard
  BY DEF books, history
<1>2. Minds(r, request[r].turn)  BY <1>0, <1>1, TurnApart DEF Minds
<1>3. (\A q \in Requests : RequestSound(q))' /\ (\A p, q \in Requests : Apart(p, q))'
  BY <1>2, OthersStand
<1>4. k \in Keys /\ k.turn = request[r].turn /\ k.object = object
  BY <1>0, TurnApart DEF Key, Keys
<1>5. \A j \in stored' : j \in stored \/ j = k  OBVIOUS
<1>6. \E w \in worked : w.turn = k.turn  BY <1>0, <1>4 DEF RequestSound
<1>. HIDE DEF k
<1>7. TypeOK'  BY <1>1, <1>4, <1>5 DEF MeteringInv, TypeOK, Moves
<1>8. OnlyAdmittedWork'  BY <1>1, <1>5, <1>6 DEF MeteringInv, OnlyAdmittedWork
<1>9. PosterPaidOnce'  BY <1>1, <1>4, <1>5 DEF MeteringInv, PosterPaidOnce
<1>10. stored \subseteq stored'  OBVIOUS
<1>11. DeliveredIsStored' /\ TranscriptTrusted'
  BY <1>1, <1>10 DEF MeteringInv, DeliveredIsStored, TranscriptTrusted
<1>12. CapsCounted' /\ NotesCounted'  BY <1>1 DEF MeteringInv, CapsCounted, NotesCounted
<1>13. UsageCounted'  BY <1>1 DEF MeteringInv, UsageCounted, NotesOf
<1>. QED  BY <1>3, <1>7, <1>8, <1>9, <1>11, <1>12, <1>13 DEF MeteringInv

LEMMA UploadPhotoInv ==
  ASSUME MeteringInv, NEW r \in Requests, UploadPhoto(r)
  PROVE  MeteringInv'
<1>1. request[r].at = "upload_photo" /\ RequestSound(r)  BY DEF UploadPhoto, At, MeteringInv
<1>2. "photo" \in Objects /\ request[r].at \in Working
  BY <1>1 DEF Objects, Working, BeforePhoto
<1>3. CASE Uploads(r, "photo") /\ Goes(r, "hard_stop")
  <2>1. Moves(r) /\ Keeps(r) /\ request'[r].at = "hard_stop"
    BY <1>3, Going DEF MeteringInv, Stages
  <2>2. /\ asked' = asked /\ charged' = charged /\ worked' = worked /\ metered' = metered
        /\ stored' = stored \cup {Key(r, "photo")}
    BY <1>3 DEF Uploads, books, history
  <2>3. Key(r, "photo")' = Key(r, "photo")  BY <2>1 DEF Key, Keeps
  <2>4. RequestSound(r)'
    BY <1>1, <2>1, <2>2, <2>3 DEF RequestSound, Keeps, Working, WithPhoto, BeforePhoto, InFlux
  <2>. QED  BY <1>2, <1>3, <2>1, <2>2, <2>4, Stores DEF Uploads, Keeps
<1>4. CASE UploadsNot(r, "photo") /\ Ends(r)
  <2>1. Moves(r) /\ request'[r].at = "idle"  BY <1>4, Ending DEF MeteringInv
  <2>2. RequestSound(r)'  BY <2>1 DEF RequestSound
  <2>. QED  BY <1>2, <1>4, <2>1, <2>2, Stores DEF UploadsNot
<1>. QED  BY <1>3, <1>4 DEF UploadPhoto

LEMMA UploadPosterInv ==
  ASSUME MeteringInv, NEW r \in Requests, UploadPoster(r)
  PROVE  MeteringInv'
<1> DEFINE object == request[r].object
<1>1. request[r].at = "upload_poster" /\ RequestSound(r)
  BY DEF UploadPoster, At, MeteringInv
<1>2. request[r] \in RequestRecords  BY DEF MeteringInv, TypeOK
<1>3. object \in Objects /\ request[r].at \in Working
  BY <1>1, <1>2 DEF Working, WithPhoto, RequestRecords
<1>4. object = "flux-pro" => charged[request[r].turn] = 1  BY <1>1 DEF RequestSound
<1>. HIDE DEF object
<1>5. CASE Uploads(r, object) /\ Sends(r, "record", object, TRUE)
  <2>1. /\ Moves(r) /\ request'[r].at = "record" /\ request'[r].object = object
        /\ request'[r].turn = request[r].turn
    BY <1>3, <1>5, Sending DEF MeteringInv, Stages
  <2>2. /\ asked' = asked /\ charged' = charged /\ worked' = worked /\ metered' = metered
        /\ stored' = stored \cup {Key(r, object)}
    BY <1>5 DEF Uploads, books, history
  <2>3. \A o : Key(r, o)' = Key(r, o)  BY <2>1 DEF Key
  <2>4. RequestSound(r)'
    BY <1>1, <1>4, <2>1, <2>2, <2>3
    DEF RequestSound, Working, WithPhoto, BeforePhoto, InFlux
  <2>. QED  BY <1>3, <1>4, <1>5, <2>1, <2>2, <2>4, Stores DEF Uploads
<1>6. CASE UploadsNot(r, object) /\ GoesWith(r, "link_photo", "photo")
  <2>1. /\ Moves(r) /\ request'[r].at = "link_photo" /\ request'[r].object = "photo"
        /\ request'[r].turn = request[r].turn
    BY <1>6, GoingWith DEF MeteringInv, Stages, Objects
  <2>2. /\ asked' = asked /\ charged' = charged /\ worked' = worked /\ metered' = metered
        /\ stored \subseteq stored'
    BY <1>6 DEF UploadsNot, books, history
  <2>3. \A o : Key(r, o)' = Key(r, o)  BY <2>1 DEF Key
  <2>4. RequestSound(r)'
    BY <1>1, <2>1, <2>2, <2>3 DEF RequestSound, Working, WithPhoto, BeforePhoto, InFlux
  <2>. QED  BY <1>3, <1>4, <1>6, <2>1, <2>4, Stores DEF UploadsNot
<1>. QED  BY <1>5, <1>6 DEF UploadPoster, object

LEMMA UploadReportInv ==
  ASSUME MeteringInv, NEW r \in Requests, UploadReport(r)
  PROVE  MeteringInv'
<1>1. request[r].at = "upload_report" /\ RequestSound(r)  BY DEF UploadReport, At, MeteringInv
<1>2. "report" \in Objects /\ request[r].at \in Working  BY <1>1 DEF Objects, Working
<1>3. CASE Uploads(r, "report") /\ \E b \in BOOLEAN : Sends(r, "reply", "report", b)
  <2>1. /\ Moves(r) /\ request'[r].at = "reply" /\ request'[r].object = "report"
        /\ request'[r].turn = request[r].turn
    BY <1>2, <1>3, Sending DEF MeteringInv, Stages
  <2>2. /\ asked' = asked /\ charged' = charged /\ worked' = worked /\ metered' = metered
        /\ stored' = stored \cup {Key(r, "report")}
    BY <1>3 DEF Uploads, books, history
  <2>3. Key(r, "report")' = Key(r, "report")  BY <2>1 DEF Key
  <2>4. RequestSound(r)'
    BY <1>1, <2>1, <2>2, <2>3 DEF RequestSound, Working, WithPhoto, BeforePhoto, InFlux
  <2>. QED  BY <1>2, <1>3, <2>1, <2>2, <2>4, Stores DEF Uploads
<1>4. CASE UploadsNot(r, "report") /\ Ends(r)
  <2>1. Moves(r) /\ request'[r].at = "idle"  BY <1>4, Ending DEF MeteringInv
  <2>2. RequestSound(r)'  BY <2>1 DEF RequestSound
  <2>. QED  BY <1>2, <1>4, <2>1, <2>2, Stores DEF UploadsNot
<1>. QED  BY <1>3, <1>4 DEF UploadReport
LEMMA FluxChargeInv ==
  ASSUME MeteringInv, NEW r \in Requests, FluxCharge(r)
  PROVE  MeteringInv'
<1> DEFINE t == request[r].turn
<1>1. request[r].at = "flux_charge" /\ RequestSound(r)  BY DEF FluxCharge, At, MeteringInv
<1>2. /\ day' = day /\ asked' = asked /\ feature_usage_counters' = feature_usage_counters
      /\ api_usage' = api_usage /\ has_api_usage' = has_api_usage /\ stored' = stored
      /\ catalog_creations' = catalog_creations /\ delivered' = delivered
      /\ worked' = worked /\ metered' = metered /\ saaras' = saaras /\ heard' = heard
  BY DEF FluxCharge, books, history
<1>3. t \in Turns /\ charged[t] = 0 /\ charged \in [Turns -> Nat]
  BY <1>1, TurnApart DEF MeteringInv, TypeOK, RequestSound
<1>a. \E w \in worked : w.turn = t  BY <1>1 DEF RequestSound, Working, WithPhoto
<1>4. PICK n \in {0, 1} :
        /\ charged' = [charged EXCEPT ![t] = n]
        /\ \/ n = 1 /\ GoesWith(r, "upload_poster", "flux-pro")
           \/ Ends(r)
  <2>1. CASE /\ charged' = [charged EXCEPT ![t] = @ + 1]
             /\ GoesWith(r, "upload_poster", "flux-pro")
    <3>1. charged' = [charged EXCEPT ![t] = 1]  BY <1>3, <2>1
    <3>. QED  BY <2>1, <3>1
  <2>2. CASE Ends(r) /\ \E n \in {0, 1} : charged' = [charged EXCEPT ![t] = @ + n]
    <3>1. PICK n \in {0, 1} : charged' = [charged EXCEPT ![t] = @ + n]  BY <2>2
    <3>2. charged' = [charged EXCEPT ![t] = n]  BY <1>3, <3>1
    <3>. QED  BY <2>2, <3>2
  <2>. QED  BY <2>1, <2>2 DEF FluxCharge
<1>5. /\ Moves(r)
      /\ \/ request'[r].at = "idle"
         \/ request'[r].at = "upload_poster" /\ request'[r].turn = t /\ n = 1
  BY <1>4, Ending, GoingWith DEF MeteringInv, Stages, Objects
<1>6. /\ charged' \in [Turns -> Nat] /\ charged'[t] = n
      /\ \A u \in Turns : u # t => charged'[u] = charged[u]
  BY <1>3, <1>4
<1>7. request'[r].turn = t => \A o : Key(r, o)' = Key(r, o)  BY DEF Key
<1>. HIDE DEF t
<1>8. RequestSound(r)'
  <2>1. CASE request'[r].at = "idle"  BY <2>1 DEF RequestSound
  <2>2. CASE request'[r].at # "idle"
    <3>1. request'[r].at = "upload_poster" /\ request'[r].turn = t /\ charged'[t] = 1
      BY <1>5, <1>6, <2>2
    <3>. QED  BY <1>1, <1>2, <1>7, <3>1
         DEF RequestSound, Working, WithPhoto, BeforePhoto, InFlux, t
  <2>. QED  BY <2>1, <2>2
<1>9. Minds(r, t)  BY <1>1, <1>2, <1>5, <1>6, TurnApart DEF Minds, t
<1>10. (\A q \in Requests : RequestSound(q))' /\ (\A p, q \in Requests : Apart(p, q))'
  BY <1>8, <1>9, OthersStand
<1>11. TypeOK'  BY <1>2, <1>5, <1>6 DEF MeteringInv, TypeOK, Moves
<1>12. OnlyAdmittedWork'  BY <1>2, <1>6, <1>a DEF MeteringInv, OnlyAdmittedWork
<1>13. PosterPaidOnce'
  <2>1. \A u \in Turns : charged'[u] <= 1
    BY <1>6 DEF MeteringInv, PosterPaidOnce
  <2>2. \A k \in stored : k.object = "flux-pro" => charged[k.turn] = 1 /\ k.turn \in Turns
    BY DEF MeteringInv, PosterPaidOnce, TypeOK, Keys
  <2>3. \A k \in stored : k.object = "flux-pro" => charged'[k.turn] = 1
    BY <2>2, <1>3, <1>6
  <2>. QED  BY <1>2, <2>1, <2>3 DEF PosterPaidOnce
<1>14. DeliveredIsStored' /\ TranscriptTrusted'
  BY <1>2 DEF MeteringInv, DeliveredIsStored, TranscriptTrusted
<1>15. CapsCounted' /\ NotesCounted'  BY <1>2 DEF MeteringInv, CapsCounted, NotesCounted
<1>16. UsageCounted'  BY <1>2 DEF MeteringInv, UsageCounted, NotesOf
<1>. QED  BY <1>10, <1>11, <1>12, <1>13, <1>14, <1>15, <1>16 DEF MeteringInv

\* Rows and links only of what is stored.
LEMMA Names ==
  ASSUME MeteringInv, NEW r \in Requests, request[r].at \in {"record", "reply"},
         Moves(r), request'[r].at = "idle" \/ request'[r].turn = request[r].turn,
         catalog_creations' \in
           {catalog_creations, catalog_creations \cup {Key(r, request[r].object)}},
         delivered' \in {delivered, delivered \cup {Key(r, request[r].object)}},
         UNCHANGED <<day, asked, books, stored, charged, history>>,
         RequestSound(r)'
  PROVE  MeteringInv'
<1> DEFINE k == Key(r, request[r].object)
<1>0. request[r].at # "idle" /\ RequestSound(r)  BY DEF MeteringInv
<1>1. /\ day' = day /\ asked' = asked /\ feature_usage_counters' = feature_usage_counters
      /\ api_usage' = api_usage /\ has_api_usage' = has_api_usage
      /\ stored' = stored /\ charged' = charged /\ worked' = worked /\ metered' = metered
      /\ saaras' = saaras /\ heard' = heard
  BY DEF books, history
<1>2. Minds(r, request[r].turn)  BY <1>0, <1>1, TurnApart DEF Minds
<1>3. (\A q \in Requests : RequestSound(q))' /\ (\A p, q \in Requests : Apart(p, q))'
  BY <1>2, OthersStand
<1>4. k \in stored /\ stored \subseteq Keys  BY <1>0 DEF MeteringInv, TypeOK, RequestSound
<1>5. catalog_creations' \subseteq catalog_creations \cup {k} /\ delivered' \subseteq delivered \cup {k}
  OBVIOUS
<1>. HIDE DEF k
<1>6. TypeOK'  BY <1>1, <1>4, <1>5 DEF MeteringInv, TypeOK, Moves
<1>7. DeliveredIsStored'  BY <1>1, <1>4, <1>5 DEF MeteringInv, DeliveredIsStored
<1>8. OnlyAdmittedWork' /\ PosterPaidOnce' /\ TranscriptTrusted'
  BY <1>1, <1>4, <1>5 DEF MeteringInv, OnlyAdmittedWork, PosterPaidOnce, TranscriptTrusted
<1>9. CapsCounted' /\ NotesCounted'  BY <1>1 DEF MeteringInv, CapsCounted, NotesCounted
<1>10. UsageCounted'  BY <1>1 DEF MeteringInv, UsageCounted, NotesOf
<1>. QED  BY <1>3, <1>6, <1>7, <1>8, <1>9, <1>10 DEF MeteringInv

LEMMA RecordInv ==
  ASSUME MeteringInv, NEW r \in Requests, Record(r)
  PROVE  MeteringInv'
<1>1. request[r].at = "record" /\ RequestSound(r)  BY DEF Record, At, MeteringInv
<1>2. Moves(r) /\ Keeps(r) /\ request'[r].at = "reply"
  BY Going DEF Record, MeteringInv, Stages
<1>3. /\ asked' = asked /\ stored' = stored /\ charged' = charged /\ worked' = worked
      /\ metered' = metered /\ delivered' = delivered
  BY DEF Record, books, history
<1>4. \A o : Key(r, o)' = Key(r, o)  BY <1>2 DEF Key, Keeps
<1>5. RequestSound(r)'
  BY <1>1, <1>2, <1>3, <1>4
  DEF RequestSound, Keeps, Working, WithPhoto, BeforePhoto, InFlux
<1>. QED  BY <1>1, <1>2, <1>3, <1>5, Names DEF Record, Keeps

LEMMA ReplyInv ==
  ASSUME MeteringInv, NEW r \in Requests, Reply(r)
  PROVE  MeteringInv'
<1>1. request[r].at = "reply"  BY DEF Reply, At
<1>2. Moves(r) /\ request'[r].at = "idle"  BY Ending DEF Reply, MeteringInv
<1>3. RequestSound(r)'  BY <1>2 DEF RequestSound
<1>. QED  BY <1>1, <1>2, <1>3, Names DEF Reply

-----------------------------------------------------------------------------
(* Steps that count.                                                       *)

\* The books and the turns they tell of, when a handler is let through or not.
LEMMA CapCounts ==
  ASSUME MeteringInv, NEW r \in Requests, request[r].at = "cap", Moves(r),
         NEW n \in Nat, NEW admits \in BOOLEAN,
         feature_usage_counters' = [feature_usage_counters EXCEPT ![CapOf(r)] = n],
         n \in {feature_usage_counters[CapOf(r)], feature_usage_counters[CapOf(r)] + 1},
         worked' = IF admits THEN worked \cup {Admitted(r, n)} ELSE worked,
         admits => n = feature_usage_counters[CapOf(r)] + 1 /\ n <= Cap[request[r].feature],
         UNCHANGED <<day, asked, api_usage, has_api_usage, goods, metered, saaras, heard>>,
         \/ request'[r].at = "idle"
         \/ /\ admits /\ request'[r].turn = request[r].turn
            /\ request'[r].at \in {"photo", "report"}
  PROVE  MeteringInv'
<1> DEFINE t == request[r].turn
           c == CapOf(r)
           a == Admitted(r, n)
<1>1. RequestSound(r) /\ request[r].at # "idle"  BY DEF MeteringInv
<1>2. /\ day' = day /\ asked' = asked /\ api_usage' = api_usage
      /\ has_api_usage' = has_api_usage /\ stored' = stored /\ charged' = charged
      /\ catalog_creations' = catalog_creations /\ delivered' = delivered
      /\ metered' = metered /\ saaras' = saaras /\ heard' = heard
  BY DEF goods
<1>3. /\ t \in Turns /\ t \in 1..asked /\ asked \in Nat
      /\ \A q \in Requests : q # r /\ request[q].at # "idle" => request[q].turn # t
  BY <1>1, TurnApart
<1>4. request[r] \in RequestRecords /\ request[r].bucket \in Days
  BY <1>1 DEF MeteringInv, TypeOK, RequestSound
<1>5. /\ c \in Counted /\ c.user = request[r].user /\ c.feature = request[r].feature
      /\ c.day = request[r].bucket
  BY <1>4 DEF CapOf, Counted, RequestRecords
<1>6. /\ a \in [turn : Turns, user : Users, feature : Features, day : Days, nth : Nat]
      /\ a.turn = t /\ a.user = c.user /\ a.feature = c.feature /\ a.day = c.day /\ a.nth = n
  BY <1>3, <1>4, <1>5 DEF Admitted, RequestRecords
<1>7. c = [user |-> a.user, feature |-> a.feature, day |-> a.day]
  BY <1>6 DEF CapOf, Admitted
<1>8. \A w \in worked : w.turn # t
  BY <1>1 DEF RequestSound, Working, WithPhoto, BeforePhoto, InFlux
<1>9. charged[t] = 0
  BY <1>3, <1>8 DEF MeteringInv, OnlyAdmittedWork, TypeOK
<1>10. feature_usage_counters \in [Counted -> Nat]  BY DEF MeteringInv, TypeOK
<1>11. Cap[c.feature] \in Nat /\ c.feature = request[r].feature
  BY <1>5, CapTyped DEF Counted
<1>. HIDE DEF t, c, a
<1>12. \A w \in worked' : w \in worked \/ (w = a /\ admits)  BY DEF a
<1>13. worked \subseteq worked' /\ (admits => a \in worked')  BY DEF a
<1>14. Minds(r, t)
  <2>1. request'[r].at = "idle" \/ request'[r].turn = t  BY DEF t
  <2>2. \A w \in worked' : w \in worked \/ w.turn = t  BY <1>6, <1>12
  <2>3. asked' \in Nat /\ asked <= asked'  BY <1>2, <1>3
  <2>. QED  BY <1>2, <1>3, <1>13, <2>1, <2>2, <2>3 DEF Minds
<1>15. RequestSound(r)'
  <2>1. CASE request'[r].at = "idle"  BY <2>1 DEF RequestSound
  <2>2. CASE request'[r].at # "idle"
    <3>1. /\ admits /\ request'[r].turn = t /\ request'[r].at \in {"photo", "report"}
      BY <2>2 DEF t
    <3>2. \E w \in worked' : w.turn = t  BY <1>6, <1>13, <3>1
    <3>3. charged'[t] = 0 /\ t \in 1..asked'  BY <1>2, <1>3, <1>9
    <3>. QED  BY <3>1, <3>2, <3>3 DEF RequestSound, Working, WithPhoto, BeforePhoto, InFlux
  <2>. QED  BY <2>1, <2>2
<1>16. (\A q \in Requests : RequestSound(q))' /\ (\A p, q \in Requests : Apart(p, q))'
  BY <1>14, <1>15, OthersStand
<1>17. feature_usage_counters' \in [Counted -> Nat] /\ feature_usage_counters'[c] = n
       /\ feature_usage_counters[c] <= n
       /\ \A k \in Counted : k # c => feature_usage_counters'[k] = feature_usage_counters[k]
  <2>1. feature_usage_counters' = [feature_usage_counters EXCEPT ![c] = n]  BY DEF c
  <2>2. n \in {feature_usage_counters[c], feature_usage_counters[c] + 1}  BY DEF c
  <2>3. feature_usage_counters[c] \in Nat  BY <1>5, <1>10
  <2>4. feature_usage_counters[c] <= n  BY <2>2, <2>3
  <2>. QED  BY <1>5, <1>10, <2>1, <2>4
<1>18. worked' \subseteq [turn : Turns, user : Users, feature : Features, day : Days, nth : Nat]
  BY <1>6, <1>12 DEF MeteringInv, TypeOK
<1>19. TypeOK'  BY <1>2, <1>17, <1>18 DEF MeteringInv, TypeOK, Moves
<1>20. OnlyAdmittedWork'  BY <1>2, <1>13 DEF MeteringInv, OnlyAdmittedWork
<1>21. PosterPaidOnce' /\ DeliveredIsStored' /\ TranscriptTrusted'
  BY <1>2 DEF MeteringInv, PosterPaidOnce, DeliveredIsStored, TranscriptTrusted
<1>22. NotesCounted'  BY <1>2 DEF MeteringInv, NotesCounted
<1>24. UsageCounted'  BY <1>2 DEF MeteringInv, UsageCounted, NotesOf
<1>23. CapsCounted'
  <2> DEFINE Of(w) == [user |-> w.user, feature |-> w.feature, day |-> w.day]
  <2>1. \A w \in worked : /\ w.turn <= asked /\ w.nth \in 1..Cap[w.feature] /\ w.nth \in Nat
                          /\ Of(w) \in Counted /\ w.nth <= feature_usage_counters[Of(w)]
    BY DEF MeteringInv, TypeOK, CapsCounted, Counted
  <2>2. \A w \in worked : w.nth <= feature_usage_counters'[Of(w)]
    <3>1. SUFFICES ASSUME NEW w \in worked  PROVE w.nth <= feature_usage_counters'[Of(w)]
      OBVIOUS
    <3>2. CASE Of(w) = c
      <4>1. w.nth <= feature_usage_counters[c] /\ w.nth \in Nat  BY <2>1, <3>2
      <4>2. feature_usage_counters[c] \in Nat  BY <1>5, <1>10
      <4>. QED  BY <1>17, <3>2, <4>1, <4>2
    <3>3. CASE Of(w) # c  BY <1>17, <2>1, <3>3
    <3>. QED  BY <3>2, <3>3
  <2>3. admits => /\ a.turn <= asked /\ a.nth \in 1..Cap[a.feature]
                  /\ a.nth <= feature_usage_counters'[Of(a)]
    <3>1. feature_usage_counters[c] \in Nat  BY <1>5, <1>10
    <3>2. admits => n \in 1..Cap[c.feature]
      <4>1. admits => n = feature_usage_counters[c] + 1 /\ n <= Cap[c.feature]
        BY <1>11 DEF c
      <4>. QED  BY <3>1, <4>1, <1>11
    <3>. QED  BY <1>3, <1>6, <1>7, <1>17, <3>2
  <2>4. \A w \in worked :
          admits => ~(w.user = a.user /\ w.feature = a.feature /\ w.day = a.day /\ w.nth = a.nth)
    <3>1. SUFFICES ASSUME NEW w \in worked, admits, w.user = a.user, w.feature = a.feature,
                          w.day = a.day, w.nth = a.nth
                   PROVE FALSE
      OBVIOUS
    <3>2. Of(w) = c  BY <1>7, <3>1
    <3>3. w.nth <= feature_usage_counters[c] /\ feature_usage_counters[c] \in Nat
      BY <1>5, <1>10, <2>1, <3>2
    <3>4. n = feature_usage_counters[c] + 1  BY <3>1 DEF c
    <3>. QED  BY <1>6, <3>1, <3>3, <3>4
  <2>5. \A v, w \in worked :
          v.user = w.user /\ v.feature = w.feature /\ v.day = w.day /\ v.nth = w.nth => v = w
    BY DEF MeteringInv, CapsCounted
  <2>6. \A v, w \in worked' :
          v.user = w.user /\ v.feature = w.feature /\ v.day = w.day /\ v.nth = w.nth => v = w
    BY <1>12, <2>4, <2>5
  <2>7. \A w \in worked' : /\ w.turn <= asked /\ w.nth \in 1..Cap[w.feature]
                           /\ w.nth <= feature_usage_counters'[Of(w)]
    <3>1. SUFFICES ASSUME NEW w \in worked'
                   PROVE /\ w.turn <= asked /\ w.nth \in 1..Cap[w.feature]
                         /\ w.nth <= feature_usage_counters'[Of(w)]
      OBVIOUS
    <3>2. CASE w \in worked  BY <2>1, <2>2, <3>2
    <3>3. CASE w = a /\ admits  BY <2>3, <3>3
    <3>. QED  BY <1>12, <3>1, <3>2, <3>3
  <2>. QED  BY <1>2, <2>6, <2>7 DEF CapsCounted
<1>. QED  BY <1>16, <1>19, <1>20, <1>21, <1>22, <1>23, <1>24 DEF MeteringInv

LEMMA ChargeCapInv ==
  ASSUME MeteringInv, NEW r \in Requests, ChargeCap(r)
  PROVE  MeteringInv'
<1> DEFINE n == feature_usage_counters[CapOf(r)] + 1
           admits == UnderCap(request[r].feature, n)
<1>1. request[r].at = "cap"  BY DEF ChargeCap, At
<1>2. RequestSound(r) /\ request[r] \in RequestRecords  BY DEF MeteringInv, TypeOK
<1>3. CapOf(r) \in Counted
  BY <1>1, <1>2 DEF RequestSound, RequestRecords, CapOf, Counted
<1>4. n \in Nat  BY <1>3 DEF MeteringInv, TypeOK
<1>5. /\ feature_usage_counters' = [feature_usage_counters EXCEPT ![CapOf(r)] = n]
      /\ UNCHANGED <<day, asked, api_usage, has_api_usage, goods, metered, saaras, heard>>
  BY DEF ChargeCap
<1>6. CASE admits
  <2>1. /\ Goes(r, IF request[r].feature = "catalog" THEN "photo" ELSE "report")
        /\ worked' = worked \cup {Admitted(r, n)} /\ n <= Cap[request[r].feature]
    BY <1>6 DEF ChargeCap, UnderCap
  <2>2. (IF request[r].feature = "catalog" THEN "photo" ELSE "report") \in
          {"photo", "report"} /\ {"photo", "report"} \subseteq Stages
    BY DEF Stages
  <2>3. Moves(r) /\ Keeps(r) /\ request'[r].at \in {"photo", "report"}
    BY <2>1, <2>2, Going DEF MeteringInv
  <2>. QED
    <3>. HIDE DEF n, admits
    <3>1. n = feature_usage_counters[CapOf(r)] + 1  BY DEF n
    <3>2. worked' = IF TRUE THEN worked \cup {Admitted(r, n)} ELSE worked  BY <2>1
    <3>. QED  BY <1>1, <1>4, <1>5, <2>1, <2>3, <3>1, <3>2, CapCounts DEF Keeps
<1>7. CASE ~admits
  <2>1. Ends(r) /\ worked' = worked  BY <1>7 DEF ChargeCap
  <2>2. Moves(r) /\ request'[r].at = "idle"  BY <2>1, Ending DEF MeteringInv
  <2>. QED
    <3>. HIDE DEF n, admits
    <3>1. n = feature_usage_counters[CapOf(r)] + 1  BY DEF n
    <3>2. worked' = IF FALSE THEN worked \cup {Admitted(r, n)} ELSE worked  BY <2>1
    <3>. QED  BY <1>1, <1>4, <1>5, <2>2, <3>1, <3>2, CapCounts
<1>. QED  BY <1>6, <1>7

LEMMA CapFailsInv ==
  ASSUME MeteringInv, NEW r \in Requests, CapFails(r)
  PROVE  MeteringInv'
<1>1. request[r].at = "cap" /\ Ends(r)  BY DEF CapFails, At
<1>2. RequestSound(r) /\ request[r] \in RequestRecords  BY DEF MeteringInv, TypeOK
<1>3. CapOf(r) \in Counted
  BY <1>1, <1>2 DEF RequestSound, RequestRecords, CapOf, Counted
<1>4. feature_usage_counters \in [Counted -> Nat]  BY DEF MeteringInv, TypeOK
<1>5. PICK n \in Nat :
        /\ n \in {feature_usage_counters[CapOf(r)], feature_usage_counters[CapOf(r)] + 1}
        /\ feature_usage_counters' = [feature_usage_counters EXCEPT ![CapOf(r)] = n]
  <2>1. PICK m \in {0, 1} :
          feature_usage_counters' = [feature_usage_counters EXCEPT ![CapOf(r)] = @ + m]
    BY DEF CapFails
  <2>2. feature_usage_counters[CapOf(r)] \in Nat  BY <1>3, <1>4
  <2>3. feature_usage_counters[CapOf(r)] + m \in Nat
        /\ feature_usage_counters[CapOf(r)] + m \in
             {feature_usage_counters[CapOf(r)], feature_usage_counters[CapOf(r)] + 1}
    BY <2>2
  <2>. QED  BY <1>3, <1>4, <2>1, <2>3
<1>6. Moves(r) /\ request'[r].at = "idle"  BY <1>1, Ending DEF MeteringInv
<1>7. worked' = IF FALSE THEN worked \cup {Admitted(r, n)} ELSE worked
  BY DEF CapFails, history
<1>8. UNCHANGED <<day, asked, api_usage, has_api_usage, goods, metered, saaras, heard>>
  BY DEF CapFails, history
<1>. QED  BY <1>1, <1>5, <1>6, <1>7, <1>8, CapCounts

\* What is said of a note, and the books of its month.
LEMMA NoteCounts ==
  ASSUME MeteringInv, NEW r \in Requests, request[r].at = "count", Moves(r),
         NEW n \in Nat, NEW m \in Nat, NEW verdict \in {"allowed", "refused", "open"},
         api_usage' = [api_usage EXCEPT ![UsageOf(r)] = n],
         n \in {api_usage[UsageOf(r)], api_usage[UsageOf(r)] + 1},
         verdict # "open" => m = n /\ n = api_usage[UsageOf(r)] + 1,
         verdict = "allowed" => n <= FreeLimit, verdict = "refused" => FreeLimit < n,
         metered' = metered \cup {Said(r, m, verdict)},
         saaras' = IF verdict = "refused" THEN saaras ELSE saaras \cup {request[r].turn},
         UNCHANGED <<day, asked, feature_usage_counters, has_api_usage, goods, worked, heard>>,
         request'[r].at = IF verdict = "refused" THEN "whisper" ELSE "saaras",
         request'[r].turn = request[r].turn
  PROVE  MeteringInv'
<1> DEFINE t == request[r].turn
           c == UsageOf(r)
           a == Said(r, m, verdict)
<1>1. RequestSound(r) /\ request[r].at # "idle"  BY DEF MeteringInv
<1>2. /\ day' = day /\ asked' = asked /\ feature_usage_counters' = feature_usage_counters
      /\ has_api_usage' = has_api_usage /\ stored' = stored /\ charged' = charged
      /\ catalog_creations' = catalog_creations /\ delivered' = delivered
      /\ worked' = worked /\ heard' = heard
  BY DEF goods
<1>3. /\ t \in Turns /\ t \in 1..asked /\ asked \in Nat
      /\ \A q \in Requests : q # r /\ request[q].at # "idle" => request[q].turn # t
  BY <1>1, TurnApart
<1>4. request[r] \in RequestRecords /\ request[r].bucket \in Months
  BY <1>1 DEF MeteringInv, TypeOK, RequestSound
<1>5. c \in Monthly /\ c.user = request[r].user /\ c.month = request[r].bucket
  BY <1>4 DEF UsageOf, Monthly, RequestRecords
<1>6. /\ a \in [turn : Turns, user : Users, month : Months, nth : Nat,
                verdict : {"allowed", "refused", "open"}]
      /\ a.turn = t /\ a.user = c.user /\ a.month = c.month /\ a.nth = m
      /\ a.verdict = verdict
  BY <1>3, <1>4, <1>5 DEF Said, RequestRecords
<1>7. c = [user |-> a.user, month |-> a.month]  BY <1>6 DEF UsageOf, Said
<1>8. t \notin saaras /\ \A x \in metered : x.turn # t  BY <1>1 DEF RequestSound
<1>9. \A w \in worked : w.turn # t
  BY <1>1 DEF RequestSound, Working, WithPhoto, BeforePhoto, InFlux
<1>10. api_usage \in [Monthly -> Nat]  BY DEF MeteringInv, TypeOK
<1>11. api_usage[c] \in Nat  BY <1>5, <1>10
<1>. HIDE DEF t, c, a
<1>12. metered' = metered \cup {a}  BY DEF a
<1>13. /\ saaras \subseteq saaras' /\ \A u \in saaras' : u \in saaras \/ u = t
       /\ (verdict = "refused" => saaras' = saaras) /\ (verdict # "refused" => t \in saaras')
  BY DEF t
<1>14. request'[r].turn = t  BY DEF t
<1>15. Minds(r, t)  BY <1>2, <1>3, <1>6, <1>12, <1>13, <1>14 DEF Minds
<1>16. RequestSound(r)'
  <2>1. CASE verdict = "refused"
    <3>1. request'[r].at = "whisper"  BY <2>1
    <3>. QED  BY <1>2, <1>3, <1>9, <1>14, <3>1
         DEF RequestSound, Working, WithPhoto, BeforePhoto, InFlux
  <2>2. CASE verdict # "refused"
    <3>1. request'[r].at = "saaras" /\ t \in saaras'  BY <1>13, <2>2
    <3>. QED  BY <1>2, <1>3, <1>9, <1>14, <3>1
         DEF RequestSound, Working, WithPhoto, BeforePhoto, InFlux
  <2>. QED  BY <2>1, <2>2
<1>17. (\A q \in Requests : RequestSound(q))' /\ (\A p, q \in Requests : Apart(p, q))'
  BY <1>15, <1>16, OthersStand
<1>18. api_usage' \in [Monthly -> Nat] /\ api_usage'[c] = n /\ api_usage[c] <= n
       /\ \A k \in Monthly : k # c => api_usage'[k] = api_usage[k]
  <2>1. api_usage' = [api_usage EXCEPT ![c] = n]  BY DEF c
  <2>2. n \in {api_usage[c], api_usage[c] + 1}  BY DEF c
  <2>3. api_usage[c] <= n  BY <1>11, <2>2
  <2>. QED  BY <1>5, <1>10, <2>1, <2>3
<1>19. saaras' \subseteq Turns
  BY <1>3, <1>13 DEF MeteringInv, TypeOK
<1>20. TypeOK'  BY <1>2, <1>6, <1>12, <1>18, <1>19 DEF MeteringInv, TypeOK, Moves
<1>21. OnlyAdmittedWork' /\ PosterPaidOnce' /\ DeliveredIsStored' /\ CapsCounted'
  BY <1>2
  DEF MeteringInv, OnlyAdmittedWork, PosterPaidOnce, DeliveredIsStored, CapsCounted
<1>22. TranscriptTrusted'
  <2>1. SUFFICES ASSUME NEW h \in heard
                 PROVE  /\ h.fair
                        /\ h.by = "saaras-v3" =>
                             \A x \in metered' : x.turn = h.turn => x.verdict # "refused"
    BY <1>2 DEF TranscriptTrusted
  <2>2. /\ h.fair
        /\ h.by = "saaras-v3" =>
             \A x \in metered : x.turn = h.turn => x.verdict # "refused"
    BY DEF MeteringInv, TranscriptTrusted
  <2>3. h.by = "saaras-v3" => h.turn # t  BY <1>8 DEF MeteringInv, NotesCounted
  <2>. QED  BY <1>6, <1>12, <2>2, <2>3
<1>23. NotesCounted'
  <2> DEFINE Of(x) == [user |-> x.user, month |-> x.month]
  <2>1. \A x \in metered :
          /\ x.turn <= asked /\ Of(x) \in Monthly /\ x.nth \in Nat
          /\ x.verdict # "open" =>
               /\ x.nth >= 1 /\ x.nth <= api_usage[Of(x)]
               /\ x.verdict = "allowed" => x.nth <= FreeLimit
               /\ x.verdict = "refused" => FreeLimit < x.nth /\ x.turn \notin saaras
    <3>1. SUFFICES ASSUME NEW x \in metered
                   PROVE /\ x.turn <= asked /\ Of(x) \in Monthly /\ x.nth \in Nat
                         /\ x.verdict # "open" =>
                              /\ x.nth >= 1 /\ x.nth <= api_usage[Of(x)]
                              /\ x.verdict = "allowed" => x.nth <= FreeLimit
                              /\ x.verdict = "refused" => FreeLimit < x.nth /\ x.turn \notin saaras
      OBVIOUS
    <3>2. Of(x) \in Monthly /\ x.nth \in Nat  BY DEF MeteringInv, TypeOK, Monthly
    <3>3. x.turn <= asked
          /\ (x.verdict # "open" =>
               /\ x.nth \in 1..api_usage[Of(x)]
               /\ x.verdict = "allowed" => x.nth <= FreeLimit
               /\ x.verdict = "refused" => FreeLimit < x.nth /\ x.turn \notin saaras)
      BY DEF MeteringInv, NotesCounted
    <3>4. api_usage[Of(x)] \in Nat  BY <1>10, <3>2
    <3>. HIDE DEF Of
    <3>. QED  BY <3>2, <3>3, <3>4
  <2>2. \A x \in metered : x.verdict # "open" =>
          x.nth \in 1..api_usage'[Of(x)] /\ (x.verdict = "refused" => x.turn \notin saaras')
    <3>1. SUFFICES ASSUME NEW x \in metered, x.verdict # "open"
                   PROVE /\ x.nth \in 1..api_usage'[Of(x)]
                         /\ x.verdict = "refused" => x.turn \notin saaras'
      OBVIOUS
    <3>2. x.verdict = "refused" => x.turn \notin saaras'
      BY <1>8, <1>13, <2>1, <3>1
    <3>3. /\ Of(x) \in Monthly /\ x.nth \in Nat /\ x.nth >= 1
          /\ x.nth <= api_usage[Of(x)] /\ api_usage[Of(x)] \in Nat
      BY <1>10, <2>1, <3>1
    <3>4. api_usage[Of(x)] <= api_usage'[Of(x)] /\ api_usage'[Of(x)] \in Nat
      <4>. HIDE DEF Of
      <4>1. CASE Of(x) = c  BY <1>18, <4>1
      <4>2. CASE Of(x) # c  BY <1>18, <3>3, <4>2
      <4>. QED  BY <4>1, <4>2
    <3>5. x.nth \in 1..api_usage'[Of(x)]
      <4>. HIDE DEF Of
      <4>. QED  BY <3>3, <3>4
    <3>. QED  BY <3>2, <3>5
  <2>3. verdict # "open" =>
          /\ m \in 1..api_usage'[Of(a)]
          /\ verdict = "allowed" => m <= FreeLimit
          /\ verdict = "refused" => FreeLimit < m /\ t \notin saaras'
    <3>1. verdict # "open" => m = n /\ n = api_usage[c] + 1  BY DEF c
    <3>2. Of(a) = c  BY <1>7
    <3>3. verdict # "open" => m \in 1..n  BY <1>11, <3>1
    <3>4. verdict = "refused" => FreeLimit < m  BY <3>1
    <3>. QED  BY <1>8, <1>13, <1>18, <3>1, <3>2, <3>3, <3>4
  <2>4. \A x \in metered :
          verdict # "open" /\ x.verdict # "open" =>
            ~(x.user = a.user /\ x.month = a.month /\ x.nth = a.nth)
    <3>1. SUFFICES ASSUME NEW x \in metered, verdict # "open", x.verdict # "open",
                          x.user = a.user, x.month = a.month, x.nth = a.nth
                   PROVE FALSE
      OBVIOUS
    <3>2. Of(x) = c  BY <1>7, <3>1
    <3>3. x.nth <= api_usage[c] /\ x.nth \in Nat  BY <2>1, <3>1, <3>2
    <3>4. m = api_usage[c] + 1  BY <3>1 DEF c
    <3>. QED  BY <1>6, <1>11, <3>1, <3>3, <3>4
  <2>5. \A x, y \in metered :
          x.verdict # "open" /\ y.verdict # "open" /\ y.user = x.user /\ y.month = x.month
            /\ y.nth = x.nth => y = x
    BY DEF MeteringInv, NotesCounted
  <2>6. \A x, y \in metered' :
          x.verdict # "open" /\ y.verdict # "open" /\ y.user = x.user /\ y.month = x.month
            /\ y.nth = x.nth => y = x
    BY <1>6, <1>12, <2>4, <2>5
  <2>7. (\A u \in saaras' : u <= asked)
    BY <1>3, <1>13 DEF MeteringInv, NotesCounted
  <2>8. (\A h \in heard : h.by = "saaras-v3" => h.turn \in saaras')
    BY <1>13 DEF MeteringInv, NotesCounted
  <2>9. a.turn <= asked  BY <1>3, <1>6
  <2>. HIDE DEF Of
  <2>10. \A x \in metered' :
          /\ x.turn <= asked
          /\ x.verdict # "open" =>
               /\ x.nth \in 1..api_usage'[Of(x)]
               /\ x.verdict = "allowed" => x.nth <= FreeLimit
               /\ x.verdict = "refused" => FreeLimit < x.nth /\ x.turn \notin saaras'
    <3>1. SUFFICES ASSUME NEW x \in metered'
                   PROVE /\ x.turn <= asked
                         /\ x.verdict # "open" =>
                              /\ x.nth \in 1..api_usage'[Of(x)]
                              /\ x.verdict = "allowed" => x.nth <= FreeLimit
                              /\ x.verdict = "refused" => FreeLimit < x.nth /\ x.turn \notin saaras'
      OBVIOUS
    <3>2. CASE x \in metered  BY <2>1, <2>2, <3>2
    <3>3. CASE x = a  BY <1>6, <2>3, <2>9, <3>3
    <3>. QED  BY <1>12, <3>2, <3>3
  <2>. QED  BY <1>2, <2>6, <2>7, <2>8, <2>10 DEF NotesCounted, Of
<1>24. UsageCounted'
  <2>1. IsFiniteSet(metered')  BY <1>12, FS_AddElement DEF MeteringInv, UsageCounted
  <2>2. a \notin metered  BY <1>6, <1>8
  <2>3. ASSUME NEW k \in Monthly  PROVE api_usage'[k] <= Cardinality(NotesOf(k)')
    <3>1. /\ IsFiniteSet(metered) /\ api_usage[k] <= Cardinality(NotesOf(k))
          /\ api_usage[k] \in Nat
      BY <1>10 DEF MeteringInv, UsageCounted
    <3>2. NotesOf(k) \in SUBSET metered  BY DEF NotesOf
    <3>3. IsFiniteSet(NotesOf(k)) /\ Cardinality(NotesOf(k)) \in Nat
      BY <3>1, <3>2, FS_Subset, FS_CardinalityType
    <3>4. CASE k = c
      <4>1. NotesOf(k)' = NotesOf(k) \cup {a}  BY <1>6, <1>12, <3>4 DEF NotesOf
      <4>2. a \notin NotesOf(k)  BY <2>2 DEF NotesOf
      <4>3. Cardinality(NotesOf(k)') = Cardinality(NotesOf(k)) + 1
        BY <3>3, <4>1, <4>2, FS_AddElement
      <4>4. api_usage'[k] <= api_usage[k] + 1
        <5>1. n \in {api_usage[c], api_usage[c] + 1}  BY DEF c
        <5>. QED  BY <1>18, <3>1, <3>4, <5>1
      <4>5. api_usage'[k] \in Nat  BY <1>18
      <4>. QED  BY <3>1, <3>3, <4>3, <4>4, <4>5
    <3>5. CASE k # c
      <4>1. ~(a.user = k.user /\ a.month = k.month)
        BY <1>5, <1>6, <3>5 DEF Monthly
      <4>2. NotesOf(k)' = NotesOf(k)  BY <1>12, <4>1 DEF NotesOf
      <4>. QED  BY <1>18, <3>1, <3>5, <4>2
    <3>. QED  BY <3>4, <3>5
  <2>. QED  BY <2>1, <2>3 DEF UsageCounted
<1>. QED  BY <1>17, <1>20, <1>21, <1>22, <1>23, <1>24 DEF MeteringInv

LEMMA CountInv ==
  ASSUME MeteringInv, NEW r \in Requests, Count(r)
  PROVE  MeteringInv'
<1>1. request[r].at = "count" /\ RequestSound(r) /\ request[r] \in RequestRecords
  BY DEF Count, At, MeteringInv, TypeOK
<1>2. UsageOf(r) \in Monthly
  BY <1>1 DEF RequestSound, RequestRecords, UsageOf, Monthly
<1>3. PICK n \in Nat : n = api_usage[UsageOf(r)] + 1
  BY <1>2 DEF MeteringInv, TypeOK
<1>4. /\ api_usage' = [api_usage EXCEPT ![UsageOf(r)] = n]
      /\ UNCHANGED <<day, asked, feature_usage_counters, has_api_usage, goods, worked, heard>>
  BY <1>3 DEF Count
<1>5. CASE Exceeds(n)
  <2>1. metered' = metered \cup {Said(r, n, "refused")} /\ Goes(r, "whisper")
        /\ saaras' = saaras
    BY <1>3, <1>5 DEF Count
  <2>2. Moves(r) /\ Keeps(r) /\ request'[r].at = "whisper"
    BY <2>1, Going DEF MeteringInv, Stages
  <2>3. FreeLimit < n  BY <1>5, MeteringAssumption DEF Exceeds
  <2>. QED  BY <1>1, <1>3, <1>4, <2>1, <2>2, <2>3, NoteCounts DEF Keeps
<1>6. CASE ~Exceeds(n)
  <2>1. metered' = metered \cup {Said(r, n, "allowed")} /\ Goes(r, "saaras")
        /\ saaras' = saaras \cup {request[r].turn}
    BY <1>3, <1>6 DEF Count
  <2>2. Moves(r) /\ Keeps(r) /\ request'[r].at = "saaras"
    BY <2>1, Going DEF MeteringInv, Stages
  <2>3. n <= FreeLimit  BY <1>6, MeteringAssumption DEF Exceeds
  <2>. QED  BY <1>1, <1>3, <1>4, <2>1, <2>2, <2>3, NoteCounts DEF Keeps
<1>. QED  BY <1>5, <1>6

LEMMA CountFailsInv ==
  ASSUME MeteringInv, NEW r \in Requests, CountFails(r)
  PROVE  MeteringInv'
<1>1. request[r].at = "count" /\ RequestSound(r) /\ request[r] \in RequestRecords
  BY DEF CountFails, At, MeteringInv, TypeOK
<1>2. UsageOf(r) \in Monthly
  BY <1>1 DEF RequestSound, RequestRecords, UsageOf, Monthly
<1>3. api_usage[UsageOf(r)] \in Nat  BY <1>2 DEF MeteringInv, TypeOK
<1>4. PICK n \in Nat : /\ n \in {api_usage[UsageOf(r)], api_usage[UsageOf(r)] + 1}
                       /\ api_usage' = [api_usage EXCEPT ![UsageOf(r)] = n]
  <2>1. PICK i \in {0, 1} : api_usage' = [api_usage EXCEPT ![UsageOf(r)] = @ + i]
    BY DEF CountFails
  <2>2. api_usage[UsageOf(r)] + i \in Nat
        /\ api_usage[UsageOf(r)] + i \in {api_usage[UsageOf(r)], api_usage[UsageOf(r)] + 1}
    BY <1>3
  <2>. QED  BY <1>2, <2>1, <2>2 DEF MeteringInv, TypeOK
<1>5. /\ metered' = metered \cup {Said(r, 0, "open")} /\ Goes(r, "saaras")
      /\ saaras' = saaras \cup {request[r].turn}
      /\ UNCHANGED <<day, asked, feature_usage_counters, has_api_usage, goods, worked, heard>>
  BY DEF CountFails
<1>6. Moves(r) /\ Keeps(r) /\ request'[r].at = "saaras"
  BY <1>5, Going DEF MeteringInv, Stages
<1>. QED  BY <1>1, <1>4, <1>5, <1>6, NoteCounts DEF Keeps

-----------------------------------------------------------------------------
(* Requests come in, notes are heard, days pass.                           *)

\* A new turn, of which nothing is told yet.
LEMMA Asking ==
  ASSUME MeteringInv, NEW r \in Requests, NEW stage \in {"cap", "tier", "saaras"},
         NEW u \in Users, NEW feature \in Features, Asks(r, stage, u, feature),
         UNCHANGED <<day, books, goods, worked, metered, heard>>,
         saaras' = IF stage = "saaras" THEN saaras \cup {asked + 1} ELSE saaras
  PROVE  MeteringInv'
<1> DEFINE t == asked + 1
           rec == [Idle EXCEPT !.at = stage, !.turn = asked + 1, !.user = u,
                               !.feature = feature, !.bucket = day]
<1>1. /\ day' = day /\ feature_usage_counters' = feature_usage_counters
      /\ api_usage' = api_usage /\ has_api_usage' = has_api_usage /\ stored' = stored
      /\ charged' = charged /\ catalog_creations' = catalog_creations
      /\ delivered' = delivered /\ worked' = worked /\ metered' = metered /\ heard' = heard
  BY DEF books, goods
<1>2. asked \in Nat /\ MaxAsked \in Nat /\ asked < MaxAsked /\ asked' = t
  BY MeteringAssumption DEF MeteringInv, TypeOK, Asks
<1>3. t \in Nat /\ t \in Turns /\ t \in 1..asked' /\ asked < t /\ t \in 0..MaxAsked
      /\ asked' \in 0..MaxAsked
  BY <1>2 DEF Turns
<1>4. day \in Days /\ day \in 0..MaxDays
  BY MeteringAssumption DEF MeteringInv, TypeOK, Days
<1>5. request \in [Requests -> RequestRecords] /\ request[r].at = "idle"
  BY DEF MeteringInv, TypeOK, Asks, At
<1>6. rec \in RequestRecords /\ rec.at = stage /\ rec.turn = t /\ rec.bucket = day
  BY <1>3, <1>4, IdleTyped DEF RequestRecords, Stages
<1>7. request' = [request EXCEPT ![r] = rec]  BY DEF Asks
<1>. HIDE DEF rec, t
<1>8. Moves(r) /\ request'[r] = rec  BY <1>5, <1>6, <1>7 DEF Moves
<1>9. \A w \in worked : w.turn \in Nat /\ w.turn <= asked /\ w.turn # t
  <2>1. SUFFICES ASSUME NEW w \in worked
                 PROVE w.turn \in Nat /\ w.turn <= asked /\ w.turn # t
    OBVIOUS
  <2>2. w.turn \in Turns  BY DEF MeteringInv, TypeOK
  <2>3. w.turn <= asked  BY DEF MeteringInv, CapsCounted
  <2>. QED  BY <1>2, <1>3, <2>2, <2>3 DEF Turns
<1>10. \A x \in metered : x.turn \in Nat /\ x.turn <= asked /\ x.turn # t
  <2>1. SUFFICES ASSUME NEW x \in metered
                 PROVE x.turn \in Nat /\ x.turn <= asked /\ x.turn # t
    OBVIOUS
  <2>2. x.turn \in Turns  BY DEF MeteringInv, TypeOK
  <2>3. x.turn <= asked  BY DEF MeteringInv, NotesCounted
  <2>. QED  BY <1>2, <1>3, <2>2, <2>3 DEF Turns
<1>11. \A i \in saaras : i \in Nat /\ i <= asked /\ i # t
  BY <1>2, <1>3 DEF MeteringInv, TypeOK, NotesCounted, Turns
<1>12. /\ saaras \subseteq saaras' /\ \A i \in saaras' : i \in saaras \/ i = t
       /\ (stage = "saaras" => t \in saaras') /\ (stage # "saaras" => saaras' = saaras)
  BY DEF t
<1>13. \A q \in Requests : request[q].at # "idle" => request[q].turn # t
  BY <1>2, <1>3 DEF MeteringInv, RequestSound
<1>14. Minds(r, t)
  BY <1>1, <1>2, <1>3, <1>6, <1>8, <1>12, <1>13 DEF Minds
<1>15. RequestSound(r)'
  <2>1. CASE stage = "cap"
    BY <1>1, <1>3, <1>4, <1>6, <1>8, <1>9, <2>1
    DEF RequestSound, Working, WithPhoto, BeforePhoto, InFlux
  <2>2. CASE stage = "tier"
    <3>1. t \notin saaras'  BY <1>11, <1>12, <2>2
    <3>. QED  BY <1>1, <1>3, <1>6, <1>8, <1>9, <1>10, <2>2, <3>1
         DEF RequestSound, Working, WithPhoto, BeforePhoto, InFlux
  <2>3. CASE stage = "saaras"
    BY <1>1, <1>3, <1>6, <1>8, <1>9, <1>12, <2>3
    DEF RequestSound, Working, WithPhoto, BeforePhoto, InFlux
  <2>. QED  BY <2>1, <2>2, <2>3
<1>16. (\A q \in Requests : RequestSound(q))' /\ (\A p, q \in Requests : Apart(p, q))'
  BY <1>14, <1>15, OthersStand
<1>17. saaras' \subseteq Turns  BY <1>3, <1>12 DEF MeteringInv, TypeOK
<1>18. TypeOK'  BY <1>1, <1>3, <1>8, <1>17 DEF MeteringInv, TypeOK, Moves
<1>19. OnlyAdmittedWork' /\ PosterPaidOnce' /\ DeliveredIsStored' /\ TranscriptTrusted'
  BY <1>1 DEF MeteringInv, OnlyAdmittedWork, PosterPaidOnce, DeliveredIsStored, TranscriptTrusted
<1>20. CapsCounted'
  <2>1. \A w \in worked : w.turn <= asked'  BY <1>2, <1>3, <1>9
  <2>. QED  BY <1>1, <2>1 DEF MeteringInv, CapsCounted
<1>21. NotesCounted'
  <2>1. \A x \in metered : x.turn <= asked'  BY <1>2, <1>3, <1>10
  <2>2. \A i \in saaras' : i <= asked'  BY <1>2, <1>3, <1>11, <1>12
  <2>3. \A h \in heard : h.by = "saaras-v3" => h.turn \in saaras'
    BY <1>12 DEF MeteringInv, NotesCounted
  <2>4. \A x \in metered : x.verdict = "refused" => x.turn \notin saaras'
    BY <1>10, <1>12 DEF MeteringInv, NotesCounted
  <2>. QED  BY <1>1, <2>1, <2>2, <2>3, <2>4 DEF MeteringInv, NotesCounted
<1>22. UsageCounted'  BY <1>1 DEF MeteringInv, UsageCounted, NotesOf
<1>. QED  BY <1>16, <1>18, <1>19, <1>20, <1>21, <1>22 DEF MeteringInv

LEMMA AskInv ==
  ASSUME MeteringInv, NEW r \in Requests, NEW u \in Users, Ask(r, u)
  PROVE  MeteringInv'
<1>1. PICK feature \in Features : Asks(r, "cap", u, feature)  BY DEF Ask
<1>2. UNCHANGED <<day, books, goods, worked, metered, heard>> /\ saaras' = saaras
  BY DEF Ask, history
<1>. QED  BY <1>1, <1>2, Asking

LEMMA SendNoteInv ==
  ASSUME MeteringInv, NEW r \in Requests, NEW u \in Users, SendNote(r, u)
  PROVE  MeteringInv'
<1>1. UNCHANGED <<day, books, goods, worked, metered, heard>>  BY DEF SendNote
<1>2. "catalog" \in Features  BY DEF Features
<1>3. CASE Asks(r, "tier", u, "catalog") /\ saaras' = saaras  BY <1>1, <1>2, <1>3, Asking
<1>4. CASE Asks(r, "saaras", u, "catalog") /\ saaras' = saaras \cup {asked + 1}
  BY <1>1, <1>2, <1>4, Asking
<1>. QED  BY <1>3, <1>4 DEF SendNote

\* A note is heard by someone who may hear it, or by nobody, and the turn goes on.
LEMMA Hearing ==
  ASSUME MeteringInv, NEW r \in Requests, request[r].at # "idle", Moves(r),
         request'[r].at = "idle" \/ request'[r].turn = request[r].turn,
         NEW by \in {"saaras-v3", "whisper-local"}, NEW fair \in BOOLEAN,
         heard' \in {heard, heard \cup {[turn |-> request[r].turn, by |-> by, fair |-> fair]}},
         heard' # heard => fair,
         by = "saaras-v3" => request[r].turn \in saaras,
         UNCHANGED <<day, asked, books, goods, worked, metered, saaras>>,
         RequestSound(r)'
  PROVE  MeteringInv'
<1> DEFINE h0 == [turn |-> request[r].turn, by |-> by, fair |-> fair]
<1>1. /\ day' = day /\ asked' = asked /\ feature_usage_counters' = feature_usage_counters
      /\ api_usage' = api_usage /\ has_api_usage' = has_api_usage /\ stored' = stored
      /\ charged' = charged /\ catalog_creations' = catalog_creations
      /\ delivered' = delivered /\ worked' = worked /\ metered' = metered
      /\ saaras' = saaras
  BY DEF books, goods
<1>2. Minds(r, request[r].turn)  BY <1>1, TurnApart DEF Minds
<1>3. (\A q \in Requests : RequestSound(q))' /\ (\A p, q \in Requests : Apart(p, q))'
  BY <1>2, OthersStand
<1>4. request[r].turn \in Turns  BY TurnApart
<1>5. /\ h0 \in [turn : Turns, by : {"saaras-v3", "whisper-local"}, fair : BOOLEAN]
      /\ h0.turn = request[r].turn /\ h0.by = by /\ h0.fair = fair
  BY <1>4
<1>6. \A h \in heard' : h \in heard \/ (h = h0 /\ fair)
  <2>1. CASE heard' = heard  BY <2>1
  <2>2. CASE heard' # heard  BY <2>2
  <2>. QED  BY <2>1, <2>2
<1>. HIDE DEF h0
<1>7. TypeOK'  BY <1>1, <1>5, <1>6 DEF MeteringInv, TypeOK, Moves
<1>8. OnlyAdmittedWork' /\ PosterPaidOnce' /\ DeliveredIsStored' /\ CapsCounted'
  BY <1>1
  DEF MeteringInv, OnlyAdmittedWork, PosterPaidOnce, DeliveredIsStored, CapsCounted
<1>9. \A x \in metered : x.verdict = "refused" => x.turn \notin saaras
  BY DEF MeteringInv, NotesCounted
<1>10. h0.by = "saaras-v3" => h0.turn \in saaras  BY <1>5
<1>11. TranscriptTrusted'
  <2>1. SUFFICES ASSUME NEW h \in heard'
                 PROVE  /\ h.fair
                        /\ h.by = "saaras-v3" =>
                             \A x \in metered : x.turn = h.turn => x.verdict # "refused"
    BY <1>1 DEF TranscriptTrusted
  <2>2. CASE h \in heard  BY <2>2 DEF MeteringInv, TranscriptTrusted
  <2>3. CASE h = h0 /\ fair  BY <1>5, <1>9, <1>10, <2>3
  <2>. QED  BY <1>6, <2>2, <2>3
<1>12. NotesCounted'
  <2>1. \A h \in heard' : h.by = "saaras-v3" => h.turn \in saaras
    BY <1>6, <1>10 DEF MeteringInv, NotesCounted
  <2>. QED  BY <1>1, <2>1 DEF MeteringInv, NotesCounted
<1>13. UsageCounted'  BY <1>1 DEF MeteringInv, UsageCounted, NotesOf
<1>. QED  BY <1>3, <1>7, <1>8, <1>11, <1>12, <1>13 DEF MeteringInv

LEMMA SaarasInv ==
  ASSUME MeteringInv, NEW r \in Requests, Saaras(r)
  PROVE  MeteringInv'
<1>1. request[r].at = "saaras" /\ RequestSound(r) /\ request[r] \in RequestRecords
  BY DEF Saaras, At, MeteringInv, TypeOK
<1>2. UNCHANGED <<day, asked, books, goods, worked, metered, saaras>>  BY DEF Saaras
<1>3. request[r].turn \in saaras  BY <1>1 DEF RequestSound
<1>4. asked' = asked /\ worked' = worked  BY <1>2
<1>5. \A w \in worked : w.turn # request[r].turn
  BY <1>1 DEF RequestSound, Working, WithPhoto, BeforePhoto, InFlux
<1>6. CASE Goes(r, "whisper") /\ heard' = heard
  <2>1. Moves(r) /\ Keeps(r) /\ request'[r].at = "whisper"
    BY <1>6, Going DEF MeteringInv, Stages
  <2>2. RequestSound(r)'
    BY <1>1, <1>4, <1>5, <2>1
    DEF RequestSound, Keeps, Working, WithPhoto, BeforePhoto, InFlux
  <2>. QED  BY <1>1, <1>2, <1>3, <1>6, <2>1, <2>2, Hearing DEF Keeps
<1>7. ASSUME NEW result \in Results, Trusted(result), Hears(r, "saaras-v3", result)
      PROVE  MeteringInv'
  <2>1. Moves(r) /\ request'[r].at = "idle"  BY <1>7, Ending DEF Hears, MeteringInv
  <2>2. RequestSound(r)'  BY <2>1 DEF RequestSound
  <2>3. result.fair /\ result.fair \in BOOLEAN  BY <1>7 DEF Trusted, Results
  <2>4. heard' \in {heard, heard \cup
          {[turn |-> request[r].turn, by |-> "saaras-v3", fair |-> result.fair]}}
    BY <1>7 DEF Hears
  <2>. QED  BY <1>1, <1>2, <1>3, <2>1, <2>2, <2>3, <2>4, Hearing
<1>8. CASE request' = [request EXCEPT ![r].tries = @ + 1] /\ heard' = heard
  <2> DEFINE rec == [request[r] EXCEPT !.tries = @ + 1]
  <2>1. request \in [Requests -> RequestRecords]  BY DEF MeteringInv, TypeOK
  <2>2. /\ rec \in RequestRecords /\ rec.at = request[r].at /\ rec.turn = request[r].turn
    BY <1>1 DEF RequestRecords
  <2>3. request' = [request EXCEPT ![r] = rec]  BY <1>8, <2>1
  <2>. HIDE DEF rec
  <2>4. Moves(r) /\ request'[r] = rec  BY <2>1, <2>2, <2>3 DEF Moves
  <2>5. saaras' = saaras  BY <1>2
  <2>6. RequestSound(r)'
    BY <1>1, <1>4, <1>5, <2>2, <2>4, <2>5
    DEF RequestSound, Working, WithPhoto, BeforePhoto, InFlux
  <2>. QED  BY <1>1, <1>2, <1>3, <1>8, <2>2, <2>4, <2>6, Hearing
<1>. QED  BY <1>6, <1>7, <1>8 DEF Saaras

LEMMA WhisperInv ==
  ASSUME MeteringInv, NEW r \in Requests, Whisper(r)
  PROVE  MeteringInv'
<1>1. request[r].at = "whisper"  BY DEF Whisper, At
<1>2. UNCHANGED <<day, asked, books, goods, worked, metered, saaras>>  BY DEF Whisper
<1>3. ASSUME NEW result \in Results, Trusted(result), Hears(r, "whisper-local", result)
      PROVE  MeteringInv'
  <2>1. Moves(r) /\ request'[r].at = "idle"  BY <1>3, Ending DEF Hears, MeteringInv
  <2>2. RequestSound(r)'  BY <2>1 DEF RequestSound
  <2>3. result.fair /\ result.fair \in BOOLEAN  BY <1>3 DEF Trusted, Results
  <2>4. heard' \in {heard, heard \cup
          {[turn |-> request[r].turn, by |-> "whisper-local", fair |-> result.fair]}}
    BY <1>3 DEF Hears
  <2>. QED  BY <1>1, <1>2, <2>1, <2>2, <2>3, <2>4, Hearing
<1>4. CASE Ends(r) /\ heard' = heard
  <2>1. UNCHANGED <<day, asked, books, goods, history>>  BY <1>2, <1>4 DEF history
  <2>. QED  BY <1>1, <1>4, <2>1, Endings
<1>. QED  BY <1>3, <1>4 DEF Whisper

-----------------------------------------------------------------------------
(* Every step, and what follows.                                           *)

LEMMA NewDayInv ==
  ASSUME MeteringInv, NewDay
  PROVE  MeteringInv'
<1>1. /\ request' = request /\ asked' = asked
      /\ feature_usage_counters' = feature_usage_counters
      /\ api_usage' = api_usage /\ has_api_usage' = has_api_usage /\ stored' = stored
      /\ charged' = charged /\ catalog_creations' = catalog_creations
      /\ delivered' = delivered /\ worked' = worked /\ metered' = metered
      /\ saaras' = saaras /\ heard' = heard
  BY DEF NewDay, books, goods, history
<1>2. day' \in Days  BY MeteringAssumption DEF NewDay, MeteringInv, TypeOK, Days
<1>3. TypeOK'  BY <1>1, <1>2 DEF MeteringInv, TypeOK
<1>4. OnlyAdmittedWork' /\ PosterPaidOnce' /\ DeliveredIsStored' /\ TranscriptTrusted'
  BY <1>1 DEF MeteringInv, OnlyAdmittedWork, PosterPaidOnce, DeliveredIsStored, TranscriptTrusted
<1>5. CapsCounted' /\ NotesCounted' /\ UsageCounted'
  BY <1>1 DEF MeteringInv, CapsCounted, NotesCounted, UsageCounted, NotesOf
<1>6. (\A r \in Requests : RequestSound(r))' /\ (\A r, q \in Requests : Apart(r, q))'
  BY <1>1 DEF MeteringInv, RequestSound, Apart, Key
<1>. QED  BY <1>3, <1>4, <1>5, <1>6 DEF MeteringInv

LEMMA RestartInv ==
  ASSUME MeteringInv, Restart
  PROVE  MeteringInv'
<1>1. /\ day' = day /\ asked' = asked
      /\ feature_usage_counters' = feature_usage_counters
      /\ api_usage' = api_usage /\ has_api_usage' = has_api_usage /\ stored' = stored
      /\ charged' = charged /\ catalog_creations' = catalog_creations
      /\ delivered' = delivered /\ worked' = worked /\ metered' = metered
      /\ saaras' = saaras /\ heard' = heard
  BY DEF Restart, books, goods, history
<1>2. /\ request' \in [Requests -> RequestRecords]
      /\ \A r \in Requests : request'[r].at = "idle"
  BY IdleTyped DEF Restart
<1>3. TypeOK'  BY <1>1, <1>2 DEF MeteringInv, TypeOK
<1>4. OnlyAdmittedWork' /\ PosterPaidOnce' /\ DeliveredIsStored' /\ TranscriptTrusted'
  BY <1>1 DEF MeteringInv, OnlyAdmittedWork, PosterPaidOnce, DeliveredIsStored, TranscriptTrusted
<1>5. CapsCounted' /\ NotesCounted' /\ UsageCounted'
  BY <1>1 DEF MeteringInv, CapsCounted, NotesCounted, UsageCounted, NotesOf
<1>6. (\A r \in Requests : RequestSound(r))' /\ (\A r, q \in Requests : Apart(r, q))'
  BY <1>2 DEF RequestSound, Apart
<1>. QED  BY <1>3, <1>4, <1>5, <1>6 DEF MeteringInv

LEMMA Stutter ==
  ASSUME MeteringInv, UNCHANGED vars
  PROVE  MeteringInv'
<1>1. /\ day' = day /\ request' = request /\ asked' = asked
      /\ feature_usage_counters' = feature_usage_counters
      /\ api_usage' = api_usage /\ has_api_usage' = has_api_usage /\ stored' = stored
      /\ charged' = charged /\ catalog_creations' = catalog_creations
      /\ delivered' = delivered /\ worked' = worked /\ metered' = metered
      /\ saaras' = saaras /\ heard' = heard
  BY DEF vars, books, goods, history
<1>3. TypeOK'  BY <1>1 DEF MeteringInv, TypeOK
<1>4. OnlyAdmittedWork' /\ PosterPaidOnce' /\ DeliveredIsStored' /\ TranscriptTrusted'
  BY <1>1 DEF MeteringInv, OnlyAdmittedWork, PosterPaidOnce, DeliveredIsStored, TranscriptTrusted
<1>5. CapsCounted' /\ NotesCounted' /\ UsageCounted'
  BY <1>1 DEF MeteringInv, CapsCounted, NotesCounted, UsageCounted, NotesOf
<1>6. (\A r \in Requests : RequestSound(r))' /\ (\A r, q \in Requests : Apart(r, q))'
  BY <1>1 DEF MeteringInv, RequestSound, Apart, Key
<1>. QED  BY <1>3, <1>4, <1>5, <1>6 DEF MeteringInv

LEMMA InitSound == Init => MeteringInv
<1>. SUFFICES ASSUME Init PROVE MeteringInv  OBVIOUS
<1>1. TypeOK
  BY IdleTyped, MeteringAssumption DEF Init, TypeOK, Days
<1>2. OnlyAdmittedWork /\ PosterPaidOnce /\ DeliveredIsStored /\ TranscriptTrusted
  BY DEF Init, OnlyAdmittedWork, PosterPaidOnce, DeliveredIsStored, TranscriptTrusted
<1>3. CapsCounted /\ NotesCounted  BY DEF Init, CapsCounted, NotesCounted
<1>4. UsageCounted
  <2>1. metered = {} /\ \A k \in Monthly : api_usage[k] = 0  BY DEF Init
  <2>2. \A k \in Monthly : NotesOf(k) = {}  BY <2>1 DEF NotesOf
  <2>3. IsFiniteSet({}) /\ Cardinality({}) = 0  BY FS_EmptySet
  <2>. QED  BY <2>1, <2>2, <2>3 DEF UsageCounted
<1>5. \A r \in Requests : request[r].at = "idle"  BY IdleTyped DEF Init
<1>6. (\A r \in Requests : RequestSound(r)) /\ \A r, q \in Requests : Apart(r, q)
  BY <1>5 DEF RequestSound, Apart
<1>. QED  BY <1>1, <1>2, <1>3, <1>4, <1>6 DEF MeteringInv

LEMMA StepSound == MeteringInv /\ [Next]_vars => MeteringInv'
<1>. SUFFICES ASSUME MeteringInv, [Next]_vars PROVE MeteringInv'  OBVIOUS
<1>1. CASE UNCHANGED vars  BY <1>1, Stutter
<1>2. CASE NewDay  BY <1>2, NewDayInv
<1>3. CASE Restart  BY <1>3, RestartInv
<1>4. ASSUME NEW r \in Requests, NEW u \in Users, Ask(r, u) \/ SendNote(r, u)
      PROVE  MeteringInv'
  BY <1>4, AskInv, SendNoteInv
<1>5. ASSUME NEW r \in Requests, MakesPoster(r)  PROVE MeteringInv'
  BY <1>5, PrepareInv, UploadPhotoInv, HardStopInv, FluxInv, FluxPollInv, FluxChargeInv,
     ComposeInv, UploadPosterInv, LinkPhotoInv, RecordInv
  DEF MakesPoster
<1>6. ASSUME NEW r \in Requests, Transcribes(r)  PROVE MeteringInv'
  BY <1>6, TierInv, CountInv, CountFailsInv, SaarasInv, WhisperInv DEF Transcribes
<1>7. ASSUME NEW r \in Requests,
             ChargeCap(r) \/ CapFails(r) \/ Report(r) \/ UploadReport(r) \/ Reply(r)
      PROVE  MeteringInv'
  BY <1>7, ChargeCapInv, CapFailsInv, ReportInv, UploadReportInv, ReplyInv
<1>. QED  BY <1>1, <1>2, <1>3, <1>4, <1>5, <1>6, <1>7 DEF Next

\* However many users, requests and days, and whichever upload, charge, count or
\* transcriber fails: the invariant of metering.
THEOREM MeteringInvHolds == Spec => []MeteringInv
BY InitSound, StepSound, PTL DEF Spec

\* The variables keep their types.
THEOREM TypeCorrect == Spec => []TypeOK
BY MeteringInvHolds, PTL DEF MeteringInv

\* Nothing is stored, charged or recorded for a turn over the cap.
THEOREM OnlyAdmittedWorkHolds == Spec => []OnlyAdmittedWork
BY MeteringInvHolds, PTL DEF MeteringInv

\* A poster by Flux that is kept was charged, and charged once.
THEOREM PosterPaidOnceHolds == Spec => []PosterPaidOnce
BY MeteringInvHolds, PTL DEF MeteringInv

\* Links that are sent, and rows of creations, are of objects that are stored.
THEOREM DeliveredIsStoredHolds == Spec => []DeliveredIsStored
BY MeteringInvHolds, PTL DEF MeteringInv

\* Words that reach the graph were heard well, by someone who was let hear them.
THEOREM TranscriptTrustedHolds == Spec => []TranscriptTrusted
BY MeteringInvHolds, PTL DEF MeteringInv

\* As many distinct counts from 1 to a cap as there are turns: no more than the cap.
THEOREM CapHeldHolds == Spec => []CapHeld
<1>1. ASSUME MeteringInv PROVE CapHeld
  <2>. SUFFICES ASSUME NEW k \in Counted
       PROVE Cardinality({w \in worked : w.user = k.user /\ w.feature = k.feature
                                           /\ w.day = k.day}) <= Cap[k.feature]
    BY DEF CapHeld
  <2> DEFINE S == {w \in worked : w.user = k.user /\ w.feature = k.feature /\ w.day = k.day}
             c == Cap[k.feature]
             f == [w \in S |-> w.nth]
  <2>1. c \in Nat  BY CapTyped DEF Counted
  <2>2. \A w \in S : w.nth \in 1..c  BY <1>1 DEF MeteringInv, CapsCounted
  <2>3. \A v, w \in S : v.nth = w.nth => v = w  BY <1>1 DEF MeteringInv, CapsCounted
  <2>. HIDE DEF S, c
  <2>4. f \in Injection(S, 1..c)  BY <2>2, <2>3 DEF Injection, IsInjective
  <2>5. IsFiniteSet(1..c) /\ Cardinality(1..c) <= c  BY <2>1, FS_Interval
  <2>6. Cardinality(S) <= Cardinality(1..c) /\ IsFiniteSet(S)
    <3>. HIDE DEF f
    <3>. QED  BY <2>4, <2>5, FS_Injection
  <2>7. Cardinality(S) \in Nat /\ Cardinality(1..c) \in Nat
    BY <2>5, <2>6, FS_CardinalityType
  <2>8. Cardinality(S) <= c  BY <2>1, <2>5, <2>6, <2>7
  <2>. QED  BY <2>8 DEF S, c
<1>. QED  BY <1>1, MeteringInvHolds, PTL

\* The same of the notes the paid transcriber was asked about.
THEOREM LimitHeldHolds == Spec => []LimitHeld
<1>1. ASSUME MeteringInv PROVE LimitHeld
  <2>. SUFFICES ASSUME NEW k \in Monthly
       PROVE Cardinality({x \in metered : x.user = k.user /\ x.month = k.month
                            /\ x.turn \in saaras /\ x.verdict # "open"}) <= FreeLimit
    BY DEF LimitHeld
  <2> DEFINE S == {x \in metered : x.user = k.user /\ x.month = k.month
                     /\ x.turn \in saaras /\ x.verdict # "open"}
             f == [x \in S |-> x.nth]
  <2>1. FreeLimit \in Nat  BY MeteringAssumption
  <2>2. ASSUME NEW x \in S  PROVE x.nth \in 1..FreeLimit
    <3>1. x.verdict = "allowed"
      BY <1>1 DEF MeteringInv, TypeOK, NotesCounted
    <3>2. x.nth <= FreeLimit /\ x.nth \in 1..api_usage[[user |-> x.user, month |-> x.month]]
      BY <1>1, <3>1 DEF MeteringInv, NotesCounted
    <3>3. x.nth \in Nat  BY <1>1 DEF MeteringInv, TypeOK
    <3>. QED  BY <2>1, <3>2, <3>3
  <2>3. \A v, w \in S : v.nth = w.nth => v = w  BY <1>1 DEF MeteringInv, NotesCounted
  <2>. HIDE DEF S
  <2>4. f \in Injection(S, 1..FreeLimit)  BY <2>2, <2>3 DEF Injection, IsInjective
  <2>5. IsFiniteSet(1..FreeLimit) /\ Cardinality(1..FreeLimit) <= FreeLimit
    BY <2>1, FS_Interval
  <2>6. Cardinality(S) <= Cardinality(1..FreeLimit) /\ IsFiniteSet(S)
    <3>. HIDE DEF f
    <3>. QED  BY <2>4, <2>5, FS_Injection
  <2>7. Cardinality(S) \in Nat /\ Cardinality(1..FreeLimit) \in Nat
    BY <2>5, <2>6, FS_CardinalityType
  <2>8. Cardinality(S) <= FreeLimit  BY <2>1, <2>5, <2>6, <2>7
  <2>. QED  BY <2>8 DEF S
<1>. QED  BY <1>1, MeteringInvHolds, PTL

\* A refused note was counted beyond the limit, and a count is of a note: there
\* are as many others of its month.
THEOREM RefusedForCauseHolds == Spec => []RefusedForCause
<1>1. ASSUME MeteringInv PROVE RefusedForCause
  <2>. SUFFICES ASSUME NEW x \in metered, x.verdict = "refused"
       PROVE FreeLimit <= Cardinality(NotesOf(x) \ {x})
    BY DEF RefusedForCause
  <2> DEFINE k == [user |-> x.user, month |-> x.month]
  <2>1. k \in Monthly /\ x.nth \in Nat  BY <1>1 DEF MeteringInv, TypeOK, Monthly
  <2>2. NotesOf(x) = NotesOf(k) /\ x \in NotesOf(x)  BY DEF NotesOf
  <2>3. FreeLimit < x.nth /\ x.nth \in 1..api_usage[k]
    BY <1>1 DEF MeteringInv, NotesCounted
  <2>4. api_usage[k] <= Cardinality(NotesOf(k)) /\ api_usage[k] \in Nat
        /\ IsFiniteSet(metered)
    BY <1>1, <2>1 DEF MeteringInv, TypeOK, UsageCounted
  <2>5. NotesOf(x) \in SUBSET metered  BY DEF NotesOf
  <2>6. IsFiniteSet(NotesOf(x)) /\ Cardinality(NotesOf(x)) \in Nat
    BY <2>4, <2>5, FS_Subset, FS_CardinalityType
  <2>7. Cardinality(NotesOf(x) \ {x}) = Cardinality(NotesOf(x)) - 1
    BY <2>2, <2>6, FS_RemoveElement
  <2>8. FreeLimit \in Nat  BY MeteringAssumption
  <2>. HIDE DEF k
  <2>9. x.nth <= Cardinality(NotesOf(x))  BY <2>1, <2>2, <2>3, <2>4, <2>6
  <2>. QED  BY <2>1, <2>3, <2>6, <2>7, <2>8, <2>9
<1>. QED  BY <1>1, MeteringInvHolds, PTL
=============================================================================
