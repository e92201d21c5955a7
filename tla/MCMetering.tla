------------------------------ MODULE MCMetering ------------------------------
(* A small instance of Metering for TLC.                                   *)
EXTENDS Metering, TLC

CONSTANTS r1, r2, u1

MCHandlers == Permutations({r1, r2})
=============================================================================
