------------------------------- MODULE Metering -------------------------------
(* What users are let do for so many times, and what it costs: product       *)
(* photos and posters (catalog_node), monthly reports (ledger_report_node),  *)
(* each so often a day, and voice notes (the cascade of transcribers), so    *)
(* many a month with the better one.                                         *)
(*                                                                           *)
(* Whether the Flux budget is stopped is what ModelRouter says of a budget:  *)
(* here it may be read either way.  The cache of posters is never written    *)
(* (its statement is empty) and never has one, so it is left out.            *)
EXTENDS Naturals, FiniteSets

CONSTANTS
  Users, Requests,
  MAX_CATALOG_CREATIONS_PER_DAY, MAX_LEDGER_REPORTS_PER_DAY,
  FreeLimit,           \* TIER_LIMITS["free"]["sarvam_stt"]
  MAX_POLL_ATTEMPTS,
  SaarasModels,        \* how many models saaras_provider tries
  DaysPerMonth,
  MaxDays, MaxAsked    \* bounds: days, and requests made

ASSUME MeteringAssumption ==
  /\ Users # {}
  /\ MAX_CATALOG_CREATIONS_PER_DAY \in Nat /\ MAX_LEDGER_REPORTS_PER_DAY \in Nat
  /\ FreeLimit \in Nat /\ MAX_POLL_ATTEMPTS \in Nat \ {0} /\ SaarasModels \in Nat \ {0}
  /\ DaysPerMonth \in Nat \ {0} /\ MaxDays \in Nat \ {0} /\ MaxAsked \in Nat

Days == 1..MaxDays
Month(d) == (d - 1) \div DaysPerMonth
Months == 0..MaxDays

Turns == 1..MaxAsked
Features == {"catalog", "report"}
Cap == [catalog |-> MAX_CATALOG_CREATIONS_PER_DAY, report |-> MAX_LEDGER_REPORTS_PER_DAY]

\* What is stored for a turn, sent to the user, or named in catalog_creations.
Objects == {"photo", "flux-pro", "pillow", "report"}
Keys == [turn : Turns, object : Objects]

VARIABLES
  day,                    \* today
  request,                \* what each handler is about
  asked,                  \* requests made
  feature_usage_counters, \* use_count by user, feature and day
  api_usage,              \* current_usage for sarvam_stt, by user and month
  has_api_usage,          \* the table exists; no migration makes it
  stored,                 \* the blobs
  charged,                \* rows of credit_usage_log, by turn
  catalog_creations,      \* the objects they name
  delivered,              \* the objects whose links were sent
  worked,                 \* history: the turns a daily cap let through
  metered,                \* history: voice notes, and what was said of them
  saaras,                 \* history: the notes the paid transcriber was asked about
  heard                   \* history: words of notes that reached the graph

books == <<feature_usage_counters, api_usage, has_api_usage>>
goods == <<stored, charged, catalog_creations, delivered>>
history == <<worked, metered, saaras, heard>>
vars == <<day, request, asked, books, goods, history>>

InFlux == {"flux_submit", "flux_poll", "flux_download"}
Stages == InFlux \cup
  {"idle", "cap", "photo", "upload_photo", "hard_stop", "flux_charge", "pillow",
   "upload_poster", "link_photo", "record", "report", "upload_report", "reply",
   "tier", "count", "saaras", "whisper"}

\* object: what is to be stored or recorded; sends: its link is in the reply.
Idle == [at |-> "idle", turn |-> 0, user |-> CHOOSE u \in Users : TRUE,
         feature |-> "catalog", bucket |-> 0, tries |-> 0, object |-> "photo",
         sends |-> FALSE]

Counted == [user : Users, feature : Features, day : Days]
Monthly == [user : Users, month : Months]

Init ==
  /\ day = 1 /\ request = [r \in Requests |-> Idle] /\ asked = 0
  /\ feature_usage_counters = [k \in Counted |-> 0]
  /\ api_usage = [k \in Monthly |-> 0] /\ has_api_usage \in BOOLEAN
  /\ stored = {} /\ charged = [t \in Turns |-> 0]
  /\ catalog_creations = {} /\ delivered = {}
  /\ worked = {} /\ metered = {} /\ saaras = {} /\ heard = {}

At(r, stage) == request[r].at = stage
Goes(r, stage) == request' = [request EXCEPT ![r].at = stage]
GoesWith(r, stage, object) ==
  request' = [request EXCEPT ![r].at = stage, ![r].object = object]
Ends(r) == request' = [request EXCEPT ![r] = Idle]
Key(r, object) == [turn |-> request[r].turn, object |-> object]

NewDay ==
  /\ day < MaxDays /\ day' = day + 1
  /\ UNCHANGED <<request, asked, books, goods, history>>

Asks(r, stage, u, feature) ==
  /\ At(r, "idle") /\ asked < MaxAsked
  /\ asked' = asked + 1
  /\ request' = [request EXCEPT ![r] = [Idle EXCEPT !.at = stage, !.turn = asked + 1,
       !.user = u, !.feature = feature, !.bucket = day]]

\* A photo, or the word for a report; the date is read before the statement runs.
Ask(r, u) ==
  /\ \E feature \in Features : Asks(r, "cap", u, feature)
  /\ UNCHANGED <<day, books, goods, history>>

-----------------------------------------------------------------------------
(* The daily cap.                                                          *)

\* Deliberately wrong variant: compared as if the count were of those before it.
UnderCapBefore(feature, n) == n - 1 <= Cap[feature]

UnderCap(feature, n) == n <= Cap[feature]

CapOf(r) == [user |-> request[r].user, feature |-> request[r].feature,
             day |-> request[r].bucket]
Admitted(r, n) == [turn |-> request[r].turn, user |-> request[r].user,
  feature |-> request[r].feature, day |-> request[r].bucket, nth |-> n]

\* Deliberately wrong variant: the work is done whatever the count says.
ChargeCapUnheeded(r) ==
  LET n == feature_usage_counters[CapOf(r)] + 1
  IN  /\ At(r, "cap")
      /\ feature_usage_counters' = [feature_usage_counters EXCEPT ![CapOf(r)] = n]
      /\ Goes(r, IF request[r].feature = "catalog" THEN "photo" ELSE "report")
      /\ worked' = IF UnderCap(request[r].feature, n) THEN worked \cup {Admitted(r, n)}
                   ELSE worked
      /\ UNCHANGED <<day, asked, api_usage, has_api_usage, goods, metered, saaras, heard>>

ChargeCap(r) ==
  LET n == feature_usage_counters[CapOf(r)] + 1
  IN  /\ At(r, "cap")
      /\ feature_usage_counters' = [feature_usage_counters EXCEPT ![CapOf(r)] = n]
      /\ IF UnderCap(request[r].feature, n)
         THEN /\ Goes(r, IF request[r].feature = "catalog" THEN "photo" ELSE "report")
              /\ worked' = worked \cup {Admitted(r, n)}
         ELSE Ends(r) /\ UNCHANGED worked
      /\ UNCHANGED <<day, asked, api_usage, has_api_usage, goods, metered, saaras, heard>>

\* The turn ends in an error, and may have been counted.
CapFails(r) ==
  /\ At(r, "cap") /\ Ends(r)
  /\ \E n \in {0, 1} :
       feature_usage_counters' = [feature_usage_counters EXCEPT ![CapOf(r)] = @ + n]
  /\ UNCHANGED <<day, asked, api_usage, has_api_usage, goods, history>>

-----------------------------------------------------------------------------
(* A photo and its poster.                                                 *)

\* No key, a photo that cannot be loaded, is too large or too poor, no model.
Prepare(r) ==
  /\ At(r, "photo") /\ (Ends(r) \/ Goes(r, "upload_photo"))
  /\ UNCHANGED <<day, asked, books, goods, history>>

\* An upload that fails may have stored the object.
Uploads(r, object) ==
  /\ stored' = stored \cup {Key(r, object)}
  /\ UNCHANGED <<day, asked, books, charged, catalog_creations, delivered, history>>
UploadsNot(r, object) ==
  /\ stored' \in {stored, stored \cup {Key(r, object)}}
  /\ UNCHANGED <<day, asked, books, charged, catalog_creations, delivered, history>>

UploadPhoto(r) ==
  /\ At(r, "upload_photo")
  /\ \/ Uploads(r, "photo") /\ Goes(r, "hard_stop")
     \/ UploadsNot(r, "photo") /\ Ends(r)

\* No key of Flux, or its budget is stopped: Pillow draws the poster.
HardStop(r) ==
  /\ At(r, "hard_stop") /\ (Goes(r, "flux_submit") \/ Goes(r, "pillow"))
  /\ UNCHANGED <<day, asked, books, goods, history>>

FluxSubmit(r) ==
  /\ At(r, "flux_submit") /\ Goes(r, "flux_poll")
  /\ UNCHANGED <<day, asked, books, goods, history>>

FluxPoll(r) ==
  /\ At(r, "flux_poll")
  /\ \/ Goes(r, "flux_download")
     \/ /\ request[r].tries + 1 < MAX_POLL_ATTEMPTS
        /\ request' = [request EXCEPT ![r].tries = @ + 1]
  /\ UNCHANGED <<day, asked, books, goods, history>>

\* Deliberately wrong variant: the poster is handed on, to be charged later.
FluxDownloadUnpaid(r) ==
  /\ At(r, "flux_download") /\ GoesWith(r, "upload_poster", "flux-pro")
  /\ UNCHANGED <<day, asked, books, goods, history>>

FluxDownload(r) ==
  /\ At(r, "flux_download") /\ Goes(r, "flux_charge")
  /\ UNCHANGED <<day, asked, books, goods, history>>

\* An error, a task that failed, the last poll, or sixty seconds.
FluxFails(r) ==
  /\ request[r].at \in InFlux /\ Goes(r, "pillow")
  /\ UNCHANGED <<day, asked, books, goods, history>>

\* A charge that fails, though it may be in the books, ends the turn.
FluxCharge(r) ==
  LET t == request[r].turn
  IN  /\ At(r, "flux_charge")
      /\ \/ /\ charged' = [charged EXCEPT ![t] = @ + 1]
            /\ GoesWith(r, "upload_poster", "flux-pro")
         \/ Ends(r) /\ \E n \in {0, 1} : charged' = [charged EXCEPT ![t] = @ + n]
      /\ UNCHANGED <<day, asked, books, stored, catalog_creations, delivered, history>>

\* There may be no font for it.
Compose(r) ==
  /\ At(r, "pillow")
  /\ GoesWith(r, "upload_poster", "pillow") \/ Goes(r, "link_photo")
  /\ UNCHANGED <<day, asked, books, goods, history>>

Sends(r, stage, object, b) ==
  request' = [request EXCEPT ![r].at = stage, ![r].object = object, ![r].sends = b]

\* Deliberately wrong variant: the poster's link is sent all the same.
UploadPosterAnyhow(r) ==
  /\ At(r, "upload_poster")
  /\ Uploads(r, request[r].object) \/ UploadsNot(r, request[r].object)
  /\ Sends(r, "record", request[r].object, TRUE)

\* Stored, linked and sent; or else the photo is.
UploadPoster(r) ==
  /\ At(r, "upload_poster")
  /\ \/ Uploads(r, request[r].object) /\ Sends(r, "record", request[r].object, TRUE)
     \/ UploadsNot(r, request[r].object) /\ GoesWith(r, "link_photo", "photo")

\* Without a link the reply is an excuse, and the row names the photo.
LinkPhoto(r) ==
  /\ At(r, "link_photo") /\ \E b \in BOOLEAN : Sends(r, "record", "photo", b)
  /\ UNCHANGED <<day, asked, books, goods, history>>

\* An error is swallowed.
Record(r) ==
  /\ At(r, "record") /\ Goes(r, "reply")
  /\ catalog_creations' \in
       {catalog_creations, catalog_creations \cup {Key(r, request[r].object)}}
  /\ UNCHANGED <<day, asked, books, stored, charged, delivered, history>>

-----------------------------------------------------------------------------
(* A report.                                                               *)

\* Unknown users, templates and PDFs: whatever fails, the day's count stays.
Report(r) ==
  /\ At(r, "report") /\ (Ends(r) \/ Goes(r, "upload_report"))
  /\ UNCHANGED <<day, asked, books, goods, history>>

\* A report without entries is stored, too, and not sent.
UploadReport(r) ==
  /\ At(r, "upload_report")
  /\ \/ /\ Uploads(r, "report") /\ \E b \in BOOLEAN : Sends(r, "reply", "report", b)
     \/ UploadsNot(r, "report") /\ Ends(r)

Reply(r) ==
  /\ At(r, "reply") /\ Ends(r)
  /\ delivered' = IF request[r].sends
                  THEN delivered \cup {Key(r, request[r].object)} ELSE delivered
  /\ UNCHANGED <<day, asked, books, stored, charged, catalog_creations, history>>

-----------------------------------------------------------------------------
(* Voice notes.                                                            *)

\* POST /voice counts for the phone; the webhook transcribes for nobody.
SendNote(r, u) ==
  /\ \/ Asks(r, "tier", u, "catalog") /\ UNCHANGED saaras
     \/ Asks(r, "saaras", u, "catalog") /\ saaras' = saaras \cup {asked + 1}
  /\ UNCHANGED <<day, books, goods, worked, metered, heard>>

\* A phone is no id of a user: the plan is the free one.  The month is read now.
Tier(r) ==
  /\ At(r, "tier")
  /\ request' = [request EXCEPT ![r].at = "count", ![r].bucket = Month(day)]
  /\ UNCHANGED <<day, asked, books, goods, history>>

\* Deliberately wrong variant: the last note of the month is refused.
ExceedsAt(n) == n >= FreeLimit

Exceeds(n) == n > FreeLimit

UsageOf(r) == [user |-> request[r].user, month |-> request[r].bucket]
Said(r, n, verdict) == [turn |-> request[r].turn, user |-> request[r].user,
  month |-> request[r].bucket, nth |-> n, verdict |-> verdict]

\* Deliberately wrong variant: whoever is over the limit is let through as well.
CountLax(r) ==
  LET n == api_usage[UsageOf(r)] + 1
  IN  /\ At(r, "count") /\ has_api_usage
      /\ api_usage' = [api_usage EXCEPT ![UsageOf(r)] = n]
      /\ metered' = metered \cup {Said(r, n, "allowed")}
      /\ saaras' = saaras \cup {request[r].turn} /\ Goes(r, "saaras")
      /\ UNCHANGED <<day, asked, feature_usage_counters, has_api_usage, goods, worked, heard>>

Count(r) ==
  LET n == api_usage[UsageOf(r)] + 1
  IN  /\ At(r, "count") /\ has_api_usage
      /\ api_usage' = [api_usage EXCEPT ![UsageOf(r)] = n]
      /\ IF Exceeds(n)
         THEN /\ metered' = metered \cup {Said(r, n, "refused")}
              /\ Goes(r, "whisper") /\ UNCHANGED saaras
         ELSE /\ metered' = metered \cup {Said(r, n, "allowed")}
              /\ saaras' = saaras \cup {request[r].turn} /\ Goes(r, "saaras")
      /\ UNCHANGED <<day, asked, feature_usage_counters, has_api_usage, goods, worked, heard>>

\* An error says yes, counted or not; without the table there is nothing else.
CountFails(r) ==
  /\ At(r, "count")
  /\ \E n \in IF has_api_usage THEN {0, 1} ELSE {0} :
       api_usage' = [api_usage EXCEPT ![UsageOf(r)] = @ + n]
  /\ metered' = metered \cup {Said(r, 0, "open")}
  /\ saaras' = saaras \cup {request[r].turn} /\ Goes(r, "saaras")
  /\ UNCHANGED <<day, asked, feature_usage_counters, has_api_usage, goods, worked, heard>>

\* What a transcriber answers; fair: CONFIDENCE_FLOOR or more.
Results == [fair : BOOLEAN, empty : BOOLEAN]

\* Deliberately wrong variant: whatever was heard is better than nothing.
TrustedAnyhow(result) == ~result.empty

Trusted(result) == result.fair

Hears(r, by, result) ==
  /\ heard' = IF result.empty THEN heard
              ELSE heard \cup {[turn |-> request[r].turn, by |-> by, fair |-> result.fair]}
  /\ Ends(r)

\* The first model that answers at all is the answer, or the last error is.
Saaras(r) ==
  /\ At(r, "saaras")
  /\ \/ \E result \in Results :
          IF Trusted(result) THEN Hears(r, "saaras-v3", result)
          ELSE Goes(r, "whisper") /\ UNCHANGED heard
     \/ /\ IF request[r].tries + 1 < SaarasModels
           THEN request' = [request EXCEPT ![r].tries = @ + 1]
           ELSE Goes(r, "whisper")
        /\ UNCHANGED heard
  /\ UNCHANGED <<day, asked, books, goods, worked, metered, saaras>>

\* In vain, there is no transcript.
Whisper(r) ==
  /\ At(r, "whisper")
  /\ \/ \E result \in Results : Trusted(result) /\ Hears(r, "whisper-local", result)
     \/ Ends(r) /\ UNCHANGED heard
  /\ UNCHANGED <<day, asked, books, goods, worked, metered, saaras>>

-----------------------------------------------------------------------------
Restart ==
  /\ request' = [r \in Requests |-> Idle]
  /\ UNCHANGED <<day, asked, books, goods, history>>

MakesPoster(r) ==
  \/ Prepare(r) \/ UploadPhoto(r) \/ HardStop(r) \/ FluxSubmit(r) \/ FluxPoll(r)
  \/ FluxDownload(r) \/ FluxFails(r) \/ FluxCharge(r) \/ Compose(r) \/ UploadPoster(r)
  \/ LinkPhoto(r) \/ Record(r)

Transcribes(r) == Tier(r) \/ Count(r) \/ CountFails(r) \/ Saaras(r) \/ Whisper(r)

Next ==
  \/ \E r \in Requests :
       \/ \E u \in Users : Ask(r, u) \/ SendNote(r, u)
       \/ ChargeCap(r) \/ CapFails(r) \/ MakesPoster(r)
       \/ Report(r) \/ UploadReport(r) \/ Reply(r) \/ Transcribes(r)
  \/ NewDay \/ Restart

Spec == Init /\ [][Next]_vars

-----------------------------------------------------------------------------
(* Properties.                                                             *)

RequestRecords ==
  [at : Stages, turn : 0..MaxAsked, user : Users, feature : Features, bucket : 0..MaxDays,
   tries : Nat, object : Objects, sends : BOOLEAN]

TypeOK ==
  /\ day \in Days /\ asked \in 0..MaxAsked
  /\ request \in [Requests -> RequestRecords]
  /\ feature_usage_counters \in [Counted -> Nat]
  /\ api_usage \in [Monthly -> Nat] /\ has_api_usage \in BOOLEAN
  /\ charged \in [Turns -> Nat]
  /\ stored \subseteq Keys /\ catalog_creations \subseteq Keys /\ delivered \subseteq Keys
  /\ worked \subseteq [turn : Turns, user : Users, feature : Features, day : Days, nth : Nat]
  /\ metered \subseteq [turn : Turns, user : Users, month : Months, nth : Nat,
                        verdict : {"allowed", "refused", "open"}]
  /\ saaras \subseteq Turns
  /\ heard \subseteq [turn : Turns, by : {"saaras-v3", "whisper-local"}, fair : BOOLEAN]

\* No more photos are worked on for a user on a day, and no more reports, than the
\* caps say, however many turns ask at once and whenever midnight comes.
CapHeld ==
  \A k \in Counted :
    Cardinality({w \in worked : w.user = k.user /\ w.feature = k.feature /\ w.day = k.day})
      <= Cap[k.feature]

\* Nothing is stored, charged or recorded for a turn the cap did not let through.
OnlyAdmittedWork ==
  /\ \A k \in stored \cup catalog_creations : \E w \in worked : w.turn = k.turn
  /\ \A t \in Turns : charged[t] > 0 => \E w \in worked : w.turn = t

\* A poster by Flux that anyone gets to see was paid for, and none is paid for twice.
PosterPaidOnce ==
  /\ \A t \in Turns : charged[t] <= 1
  /\ \A k \in stored : k.object = "flux-pro" => charged[k.turn] = 1

\* A link that is sent leads somewhere, and so does the key in catalog_creations.
DeliveredIsStored == delivered \cup catalog_creations \subseteq stored

\* A phone's notes of a month go to the paid transcriber no more often than the
\* free plan says, but for those whose counting failed.
LimitHeld ==
  \A k \in Monthly :
    Cardinality({x \in metered : x.user = k.user /\ x.month = k.month
                                   /\ x.turn \in saaras /\ x.verdict # "open"})
      <= FreeLimit

NotesOf(k) == {x \in metered : x.user = k.user /\ x.month = k.month}

\* Nobody is kept from it without having sent as many notes in that month.
RefusedForCause ==
  \A x \in metered :
    x.verdict = "refused" => FreeLimit <= Cardinality(NotesOf(x) \ {x})

\* Words that reach the graph were made out well enough, and not by the paid
\* transcriber for who was kept from it.
TranscriptTrusted ==
  \A h \in heard :
    /\ h.fair
    /\ h.by = "saaras-v3" => \A x \in metered : x.turn = h.turn => x.verdict # "refused"

-----------------------------------------------------------------------------
(* The inductive invariant.                                                *)

BeforePhoto == {"photo", "upload_photo"}
WithPhoto == InFlux \cup {"hard_stop", "flux_charge", "pillow", "upload_poster",
                         "link_photo", "record"}
Working == BeforePhoto \cup WithPhoto \cup {"report", "upload_report", "reply"}

RequestSound(r) ==
  LET q == request[r]
  IN  q.at # "idle" =>
        /\ q.turn \in 1..asked
        /\ q.at = "cap" => q.bucket \in Days
        /\ q.at = "count" => q.bucket \in Months
        /\ q.at \in Working => \E w \in worked : w.turn = q.turn
        /\ q.at \notin Working => \A w \in worked : w.turn # q.turn
        /\ q.at \in {"tier", "count"} =>
             q.turn \notin saaras /\ \A x \in metered : x.turn # q.turn
        /\ q.at = "saaras" => q.turn \in saaras
        /\ q.at \in WithPhoto => Key(r, "photo") \in stored
        /\ q.at \in BeforePhoto \cup InFlux \cup {"hard_stop", "flux_charge"} =>
             charged[q.turn] = 0
        /\ q.at \in {"upload_poster", "record", "reply"} /\ q.object = "flux-pro" =>
             charged[q.turn] = 1
        /\ q.at \in {"record", "reply"} => Key(r, q.object) \in stored

Apart(r, q) ==
  r # q /\ request[r].at # "idle" /\ request[q].at # "idle" =>
    request[r].turn # request[q].turn

CapsCounted ==
  \A w \in worked :
    /\ w.turn <= asked /\ w.nth \in 1..Cap[w.feature]
    /\ w.nth <= feature_usage_counters[[user |-> w.user, feature |-> w.feature,
                                        day |-> w.day]]
    /\ \A v \in worked :
         v.user = w.user /\ v.feature = w.feature /\ v.day = w.day /\ v.nth = w.nth => v = w

NotesCounted ==
  /\ \A t \in saaras : t <= asked
  /\ \A h \in heard : h.by = "saaras-v3" => h.turn \in saaras
  /\ \A x \in metered :
       /\ x.turn <= asked
       /\ x.verdict # "open" =>
            /\ x.nth \in 1..api_usage[[user |-> x.user, month |-> x.month]]
            /\ x.verdict = "allowed" => x.nth <= FreeLimit
            /\ x.verdict = "refused" => FreeLimit < x.nth /\ x.turn \notin saaras
            /\ \A y \in metered : y.verdict # "open" /\ y.user = x.user
                                   /\ y.month = x.month /\ y.nth = x.nth => y = x

UsageCounted ==
  /\ IsFiniteSet(metered)
  /\ \A k \in Monthly : api_usage[k] <= Cardinality(NotesOf(k))

MeteringInv ==
  /\ TypeOK /\ OnlyAdmittedWork /\ PosterPaidOnce /\ DeliveredIsStored
  /\ TranscriptTrusted /\ CapsCounted /\ NotesCounted /\ UsageCounted
  /\ \A r \in Requests : RequestSound(r)
  /\ \A r, q \in Requests : Apart(r, q)
=============================================================================
