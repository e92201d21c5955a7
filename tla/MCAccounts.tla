----------------------------- MODULE MCAccounts -----------------------------
(* Small instances of Accounts for TLC.                                    *)
EXTENDS Accounts, TLC

CONSTANTS seller, boss, sita, gita, admin, r1, r2

\* The seller writes from her telephone, with its country code.
Telephone == [owner |-> seller, form |-> "country"]
MCWriter == {Telephone}

MCHandlers == Permutations({r1, r2})

\* Usernames of letters.
NoDigits == [h \in Handles |-> Nobody]
AnyTail == [h \in Handles |-> Phones]
Short == [h \in Handles |-> h]

\* One of letters, and one that is the seller's number as her messages have it.
OfGita(x) == [h \in Handles |-> IF h = gita THEN x ELSE Nobody]
SellersDigits == OfGita(seller)
SellersNumber == OfGita(Telephone)
OtherTails == [h \in Handles |-> IF h = gita THEN {} ELSE Phones]

\* One username registers, with the seller's number or without one.
MCRegistered == {<<gita, seller>>, <<gita, Nobody>>}
MCSignups == {<<sita, Nobody>>, <<gita, seller>>}

MCTexted == [channel : {"text"}, words : {"yes", "other"}]
MCTyped == [channel : {"text"}, words : {"yes", "other"}]
             \cup [channel : {"chat", "voice"}, words : {"yes"}]
=============================================================================
