--------------------------- MODULE LedgerConsent ---------------------------
(***************************************************************************)
(* What the confirmation loop promises for every entry it drafts, without  *)
(* the loop: the question about the entry is handed to the sender before   *)
(* the entry can be saved, it is saved at most once, and once it is put    *)
(* aside (declined, replaced or lost) it is never saved.  Whether the      *)
(* question reached the user is known to nobody: an entry whose question   *)
(* failed to be sent (unseen) may be asked about again, or saved by a yes. *)
(***************************************************************************)
CONSTANT Entries

VARIABLE status   \* status[e]: what has become of entry e

Status == {"none", "drafted", "shown", "unseen", "saved", "dropped"}

CInit == status = [e \in Entries |-> "none"]

Ahead(s) ==
  CASE s = "none"    -> {"drafted"}
    [] s = "drafted" -> {"shown", "unseen", "dropped"}
    [] s = "unseen"  -> {"shown", "saved", "dropped"}
    [] s = "shown"   -> {"saved", "dropped"}
    [] OTHER         -> {}

\* Drafting an entry drops the one it takes the place of, in the same step.
Draft(e) ==
  /\ status[e] = "none"
  /\ \E old \in SUBSET {o \in Entries : "dropped" \in Ahead(status[o])} :
       status' = [o \in Entries |-> IF o = e THEN "drafted"
                                    ELSE IF o \in old THEN "dropped"
                                    ELSE status[o]]

\* One entry is shown or not, saved or dropped.
MoveOn(e) ==
  \E s \in Ahead(status[e]) \ {"drafted"} : status' = [status EXCEPT ![e] = s]

CNext == \E e \in Entries : Draft(e) \/ MoveOn(e)

CSpec == CInit /\ [][CNext]_status
=============================================================================
