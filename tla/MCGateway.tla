----------------------------- MODULE MCGateway -----------------------------
(* Small instances of Gateway for TLC.                                     *)
EXTENDS Gateway, TLC

CONSTANTS m1, m2, m3, p1, p2

MCMessages1 == {m1}
MCMessages2 == {m1, m2}
MCMessages3 == {m1, m2, m3}

\* Two messages compete for one phone's quota; a third comes from another.
MCSender1 == m1 :> p1
MCSender2 == (m1 :> p1) @@ (m2 :> p1)
MCSender3 == (m1 :> p1) @@ (m2 :> p1) @@ (m3 :> p2)

MCNone == {}
MCUnsupported == {m2}
=============================================================================
