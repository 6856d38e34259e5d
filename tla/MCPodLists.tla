----------------------------- MODULE MCPodLists -----------------------------
(* Two clients of two workers each, one with two namespaces selected.      *)
EXTENDS PodLists, TLC

CONSTANTS c1, c2

MCOrder == c1 :> <<"a", "b">> @@ c2 :> <<"a">>
=============================================================================
