---------------------------- MODULE MCModelRouter ----------------------------
(* Small instances of ModelRouter for TLC.                                 *)
EXTENDS ModelRouter, TLC

CONSTANTS a1, s1, v1

\* A bargain, a question and a picture.
Mixed == (a1 :> "advanced") @@ (s1 :> "standard") @@ (v1 :> "vision")
MCCost == [k \in Kinds |-> CASE k = "standard" -> 1 [] k = "advanced" -> 2 [] OTHER -> 3]
=============================================================================
