----------------------------- MODULE WriteAhead -----------------------------
(***************************************************************************)
(* What the configuration store promises its readers, with every mutation, *)
(* lock, failure and restart abstracted away: a value becomes visible only *)
(* by publishing what durable storage holds at that very moment.  A write  *)
(* may reach storage and never be published (its caller was told that it   *)
(* failed, or the process died first); nothing is published that storage   *)
(* did not accept.                                                         *)
(***************************************************************************)
CONSTANT Values,     \* the configurations
         Blank       \* what an empty storage stands for

VARIABLES view,      \* what readers see, or saw last
          durable    \* what storage holds

waVars == <<view, durable>>

Init == view = Blank /\ durable \in Values

\* Storage accepts a value (or is emptied): readers see nothing of it yet.
Store == /\ durable' \in Values
         /\ UNCHANGED view

\* Readers move to the stored value.
Publish == /\ view' = durable
           /\ UNCHANGED durable

Next == Store \/ Publish

Spec == Init /\ [][Next]_waVars
=============================================================================
