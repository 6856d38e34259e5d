-------------------------- MODULE RolePermissions --------------------------
(***************************************************************************)
(* What a role's stored permissions mean: their normalisation when a role  *)
(* is saved, the compact form the Secret keeps, what an import makes of    *)
(* that form, and the decisions handlers take.                             *)
(*                                                                         *)
(* Names are those after trimming and folding; BlankNames are those that   *)
(* are empty then.  A resource without entry is one without any flag.      *)
(***************************************************************************)
EXTENDS Naturals

CONSTANTS
    Resources,   \* resource areas a role can be granted
    Namespaces,
    BlankNames,
    Served       \* the namespaces this server manages

ASSUME PermissionAssumption ==
    /\ Namespaces \cap BlankNames = {}
    /\ Served \subseteq Namespaces

Actions == {"view", "edit", "delete"}
Levels  == {"none", "view", "edit", "full"}
Flags   == [Actions -> BOOLEAN]

\* The last action each level allows; every action allows those before it.
Rank      == [view |-> 1, edit |-> 2, delete |-> 3]
LevelRank == [none |-> 0, view |-> 1, edit |-> 2, full |-> 3]

\* Permissions as a client or an operator writes them.
RawValue == [form : {"level"}, level : Levels] \cup [form : {"flags"}, flags : Flags]
Raw      == [namespaces : SUBSET (Namespaces \cup BlankNames),
             resources  : [Resources -> RawValue]]

\* Permissions as the store keeps them.
Permissions == [namespaces : SUBSET Namespaces, resources : [Resources -> Flags]]

NoFlags       == [a \in Actions |-> FALSE]
NoPermissions == [namespaces |-> {}, resources |-> [r \in Resources |-> NoFlags]]

LevelToFlags(l) == [a \in Actions |-> Rank[a] <= LevelRank[l]]

\* A mistaken FlagsToLevel: it starts from the weakest action.
LowestLevel(f) ==
    IF f["view"] THEN "view"
    ELSE IF f["edit"] THEN "edit"
    ELSE IF f["delete"] THEN "full" ELSE "none"

FlagsToLevel(f) ==
    IF f["delete"] THEN "full"
    ELSE IF f["edit"] THEN "edit"
    ELSE IF f["view"] THEN "view" ELSE "none"

\* delete implies edit, edit implies view.
Closed(f) == [a \in Actions |-> \E b \in Actions : f[b] /\ Rank[a] <= Rank[b]]

ParseValue(v) == IF v.form = "level" THEN LevelToFlags(v.level) ELSE Closed(v.flags)

Parse(raw) ==
    [namespaces |-> raw.namespaces \ BlankNames,
     resources  |-> [r \in Resources |-> ParseValue(raw.resources[r])]]

\* Permissions that grant nothing lose their namespaces too.
Expanded(perm) ==
    IF \E r \in Resources, a \in Actions : perm.resources[r][a]
    THEN perm
    ELSE NoPermissions

\* normalizeRolePermissionsJSON: what CreateRole and UpdateRole store.
NormalizePermissions(raw) == Expanded(Parse(raw))

\* The Secret's form: one level for each resource.
Compact(perm) ==
    [namespaces |-> perm.namespaces,
     levels     |-> [r \in Resources |-> FlagsToLevel(perm.resources[r])]]

Restore(c) ==
    Expanded([namespaces |-> c.namespaces,
              resources  |-> [r \in Resources |-> LevelToFlags(c.levels[r])]])

AsRaw(perm) ==
    [namespaces |-> perm.namespaces,
     resources  |-> [r \in Resources |-> [form |-> "flags", flags |-> perm.resources[r]]]]

\* What a restart makes of stored permissions: Secret, import, normalisation.
Reloaded(perm) == NormalizePermissions(AsRaw(Restore(Compact(perm))))

-----------------------------------------------------------------------------
(* Decisions.  A role is [mode, permissions].                              *)

Modes == {"admin", "viewer"}

\* parsePermissionSet, whenever a handler decides.
Effective(perm) ==
    [namespaces |-> perm.namespaces,
     resources  |-> [r \in Resources |-> Closed(perm.resources[r])]]

HasPermission(role, resource, action) ==
    \/ role.mode = "admin"
    \/ Effective(role.permissions).resources[resource][action]

NamespaceAllowed(role, ns) ==
    /\ ns \in Served
    /\ \/ role.mode = "admin"
       \/ Effective(role.permissions).namespaces = {}
       \/ ns \in Effective(role.permissions).namespaces

-----------------------------------------------------------------------------
(* What permissions mean to whoever writes them.                           *)

Meant(raw, r, a) ==
    LET v == raw.resources[r]
    IN  IF v.form = "level"
        THEN Rank[a] <= LevelRank[v.level]
        ELSE \E b \in Actions : v.flags[b] /\ Rank[a] <= Rank[b]

MeansSome(raw) == \E r \in Resources, a \in Actions : Meant(raw, r, a)

\* Stored permissions decide as their author meant: the actions, and for a
\* role that may do anything the namespaces.
MeansWhatWasWritten(perm, raw) ==
    /\ \A r \in Resources, a \in Actions :
          Effective(perm).resources[r][a] <=> Meant(raw, r, a)
    /\ MeansSome(raw) => Effective(perm).namespaces = raw.namespaces \ BlankNames
=============================================================================
