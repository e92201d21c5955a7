----------------------------- MODULE Admission -----------------------------
(***************************************************************************)
(* What the webhook promises its users, without the webhook: each message  *)
(* starts at most one turn, a phone starts at most MaxPerHour turns per    *)
(* hour bucket, and a started turn ends exactly once: answered, with an    *)
(* answer that could not be sent, in silence, or lost with the process.    *)
(***************************************************************************)
EXTENDS Naturals

CONSTANTS
  Messages,    \* message ids assigned by the messaging platform
  Phones,      \* sender numbers
  Sender,      \* Sender[m]: the phone message m comes from
  Hours,       \* hour buckets
  MaxPerHour   \* admitted turns per phone and bucket

VARIABLES
  status,      \* status[m]: where the one turn of message m stands
  quota        \* quota[<<p, h>>]: turns of phone p charged to bucket h

avars == <<status, quota>>

Status == {"new", "admitted", "answered", "unanswered", "silent", "lost"}

AInit ==
  /\ status = [m \in Messages |-> "new"]
  /\ quota = [b \in Phones \X Hours |-> 0]

Admit(m, h) ==
  LET b == <<Sender[m], h>> IN
  /\ status[m] = "new"
  /\ quota[b] < MaxPerHour
  /\ status' = [status EXCEPT ![m] = "admitted"]
  /\ quota' = [quota EXCEPT ![b] = @ + 1]

End(m, outcome) ==
  /\ status[m] = "admitted"
  /\ status' = [status EXCEPT ![m] = outcome]
  /\ UNCHANGED quota

\* A crash loses every turn in progress at once.
LoseAll ==
  /\ status' = [m \in Messages |->
                  IF status[m] = "admitted" THEN "lost" ELSE status[m]]
  /\ UNCHANGED quota

ANext ==
  \/ \E m \in Messages, h \in Hours : Admit(m, h)
  \/ \E m \in Messages, outcome \in {"answered", "unanswered", "silent"} : End(m, outcome)
  \/ LoseAll

ASpec == AInit /\ [][ANext]_avars
=============================================================================
