--------------------------- MODULE LatestIncident ---------------------------
(***************************************************************************)
(* What restart diagnostics promise of a pod that lives: its newest        *)
(* recorded incident is there to be read until a newer one takes its       *)
(* place.  What is kept of a pod that is gone may be forgotten.            *)
(***************************************************************************)
EXTENDS Naturals

CONSTANTS
    Names,
    MaxTime     \* bound on the times of incidents

VARIABLES
    newest,     \* time of the newest incident recorded of each pod, 0: none
    stage       \* of each pod: awaited, kept by the promise, or free of it

Init ==
    /\ newest \in [Names -> 0..MaxTime]
    /\ stage \in [Names -> {"awaited", "kept", "free"}]
    /\ \A n \in Names : stage[n] = "awaited" => newest[n] = 0

Record(n, t) ==
    /\ stage[n] # "awaited"
    /\ t > newest[n]
    /\ newest' = [newest EXCEPT ![n] = t]
    /\ UNCHANGED stage

Forget(n) ==
    /\ stage[n] = "free"
    /\ \E t \in 0..MaxTime : t < newest[n] /\ newest' = [newest EXCEPT ![n] = t]
    /\ UNCHANGED stage

Come(n) ==
    /\ stage[n] = "awaited"
    /\ stage' = [stage EXCEPT ![n] = "kept"]
    /\ UNCHANGED newest

Leave(n) ==
    /\ stage[n] # "free"
    /\ stage' = [stage EXCEPT ![n] = "free"]
    /\ UNCHANGED newest

Next ==
    \E n \in Names : Come(n) \/ Leave(n) \/ Forget(n) \/ \E t \in 1..MaxTime : Record(n, t)

Spec == Init /\ [][Next]_<<newest, stage>>
=============================================================================
