----------------------------- MODULE MCLogLines -----------------------------
(* Every stream of up to three lines, some as long as the bound allows and  *)
(* then some.                                                               *)
EXTENDS LogLines, TLC
=============================================================================
