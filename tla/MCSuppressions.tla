-------------------------- MODULE MCSuppressions --------------------------
(* Two requests about two checks.                                          *)
EXTENDS Suppressions, TLC

CONSTANTS k1, k2, r1, r2
=============================================================================
