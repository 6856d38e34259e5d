------------------------- MODULE MCIncidentSecrets -------------------------
(* Small instances of IncidentSecrets.                                     *)
EXTENDS IncidentSecrets, TLC

CONSTANTS a, b, l1, w1, w2, migration

Of(n, u, t) == [name |-> n, uid |-> u, time |-> t]

With(s) == [n \in SecretNames |-> IF n \in DOMAIN s THEN s[n] ELSE NoSecret]

NothingFound == {With(<<>>)}

\* A Secret of an earlier release newer than that of this release; or beside that of
\* another pod.
Older  == With(a :> Of(a, 1, 1) @@ l1 :> Of(a, 1, 2))
Beside == With(b :> Of(b, 1, 1) @@ l1 :> Of(a, 1, 2))

MCFound == NothingFound \cup {Older, Beside}

Pods(first, second) == uids = (a :> first @@ b :> second) /\ live = uids

\* Two incidents when nothing was found and one pod is yet to be born; one beside a
\* migration.
Start ==
    \/ secrets \in NothingFound /\ Pods(1, 0) /\ reports = 0 /\ step[migration] = "idle"
    \/ secrets = Older /\ Pods(1, 0) /\ reports = 1 /\ step[migration] = "list"
    \/ secrets = Beside /\ Pods(1, 1) /\ reports = 1 /\ step[migration] = "list"

MCInit == Init /\ Start

MCSpec == MCInit /\ [][Next]_vars /\ Fairness
=============================================================================
