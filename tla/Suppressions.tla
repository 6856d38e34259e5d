---------------------------- MODULE Suppressions ----------------------------
(***************************************************************************)
(* Suppressed Insights: one ConfigMap holds the list of suppressed checks  *)
(* for all users.  A request reads the list, then reads the ConfigMap      *)
(* again and writes it; each call to the API server is a step and may      *)
(* fail.  The update carries the resource version of the second read.      *)
(***************************************************************************)
EXTENDS Naturals, FiniteSets

CONSTANTS
    Keys,       \* checks, after normalisation
    Updates     \* requests that may be under way together

VARIABLES
    map,        \* the ConfigMap: there, missing, or with a value that is no list
    keys,       \* the suppressed checks it lists
    step,       \* where each request is
    key,        \* the check it is about
    on,         \* whether to suppress it
    next,       \* the list it is about to write
    fresh,      \* nothing wrote the ConfigMap since its second read
    alone       \* ... since its first (history)

suppressionVars == <<map, keys, step, key, on, next, fresh, alone>>

TypeOK ==
    /\ map \in {"there", "missing", "invalid"}
    /\ keys \subseteq Keys
    /\ map # "there" => keys = {}
    /\ step \in [Updates -> {"idle", "list", "get", "create", "update", "failed", "acked"}]
    /\ key \in [Updates -> Keys]
    /\ on \in [Updates -> BOOLEAN]
    /\ next \in [Updates -> SUBSET Keys]
    /\ fresh \in [Updates -> BOOLEAN]
    /\ alone \in [Updates -> BOOLEAN]
    /\ \A r \in Updates : step[r] \in {"get", "create", "update"} =>
           (key[r] \in next[r] <=> on[r])

\* The chart creates the ConfigMap with an empty list.
SuppressionInit ==
    /\ map = "there"
    /\ keys = {}
    /\ step = [r \in Updates |-> "idle"]
    /\ key \in [Updates -> Keys]
    /\ on \in [Updates -> BOOLEAN]
    /\ next = [r \in Updates |-> {}]
    /\ fresh = [r \in Updates |-> FALSE]
    /\ alone = [r \in Updates |-> FALSE]

GoTo(r, s) == step' = [step EXCEPT ![r] = s]

Settled(r) == step[r] \in {"idle", "failed", "acked"}

\* A user suppresses a check, or restores it.
Ask(r, k, b) ==
    /\ Settled(r)
    /\ GoTo(r, "list")
    /\ key' = [key EXCEPT ![r] = k]
    /\ on' = [on EXCEPT ![r] = b]
    /\ UNCHANGED <<map, keys, next, fresh, alone>>

\* A mistaken Changed: a check is added and never removed.
ChangedAdding(r) == keys \cup {key[r]}

\* What the request makes of the list it read.
Changed(r) == IF on[r] THEN keys \cup {key[r]} ELSE keys \ {key[r]}

\* A mistaken ListKeys: a value that cannot be read counts as empty.
ListLeniently(r) ==
    /\ step[r] = "list"
    /\ next' = [next EXCEPT ![r] = Changed(r)]
    /\ GoTo(r, "get")
    /\ alone' = [alone EXCEPT ![r] = TRUE]
    /\ UNCHANGED <<map, keys, key, on, fresh>>

\* SetInsightSuppressed computes the list to write from the first read: a missing
\* ConfigMap is an empty list, a value that is no list an error.
ListKeys(r) ==
    /\ step[r] = "list"
    /\ map # "invalid"
    /\ next' = [next EXCEPT ![r] = Changed(r)]
    /\ GoTo(r, "get")
    /\ alone' = [alone EXCEPT ![r] = TRUE]
    /\ UNCHANGED <<map, keys, key, on, fresh>>

\* upsertSuppressedInsightsData reads the ConfigMap, whatever its value by now.
Get(r) ==
    /\ step[r] = "get"
    /\ GoTo(r, IF map = "missing" THEN "create" ELSE "update")
    /\ fresh' = [fresh EXCEPT ![r] = TRUE]
    /\ UNCHANGED <<map, keys, key, on, next, alone>>

Outdate ==
    /\ fresh' = [r \in Updates |-> FALSE]
    /\ alone' = [r \in Updates |-> FALSE]

MayWrite(r) ==
    \/ step[r] = "create" /\ map = "missing"
    \/ step[r] = "update" /\ fresh[r]

\* The API server accepts the write; its answer may get lost.
Write(r) ==
    /\ MayWrite(r)
    /\ map' = "there"
    /\ keys' = next[r]
    /\ Outdate
    /\ GoTo(r, "acked") \/ GoTo(r, "failed")
    /\ UNCHANGED <<key, on, next>>

\* Any call may fail, for a conflict among other reasons.
Fail(r) ==
    /\ ~Settled(r)
    /\ GoTo(r, "failed")
    /\ UNCHANGED <<map, keys, key, on, next, fresh, alone>>

\* Somebody deletes the ConfigMap, or breaks it.
OperatorEdits ==
    /\ map' \in {"missing", "invalid"} \ {map}
    /\ keys' = {}
    /\ Outdate
    /\ UNCHANGED <<step, key, on, next>>

SuppressionNext ==
    \/ \E r \in Updates :
           \/ \E k \in Keys, b \in BOOLEAN : Ask(r, k, b)
           \/ ListKeys(r) \/ Get(r) \/ Write(r) \/ Fail(r)
    \/ OperatorEdits

SuppressionSpec == SuppressionInit /\ [][SuppressionNext]_suppressionVars

-----------------------------------------------------------------------------
(* Properties.                                                             *)

Apart(s, t) == (s \ t) \cup (t \ s)

\* A request that nobody overtook between its first read and its write changes
\* the check it is about and no other, and never replaces a value it could not
\* read.
UndisturbedWriteExact ==
    [][\A r \in Updates :
          step[r] \in {"create", "update"} /\ alone[r] /\ ~alone'[r]
              /\ step'[r] # step[r]
              => map # "invalid" /\ Apart(keys, keys') \subseteq {key[r]}]_suppressionVars

\* A request acknowledged as done took effect.
AckHonoured ==
    [][\A r \in Updates :
          step'[r] = "acked" /\ step[r] # "acked" => (key[r] \in keys' <=> on[r])]_suppressionVars

=============================================================================
