----------------------------- MODULE ConfigStore -----------------------------
(***************************************************************************)
(* The authentication configuration of BeaverDeck: users.Store's roles,    *)
(* local users, identity-provider settings and group mappings, the local   *)
(* session versions, and the Kubernetes Secret that persists them.         *)
(*                                                                         *)
(* Every runtime change runs through mutateConfigAndPersist: it takes the  *)
(* mutation mutex and the store's write lock, edits memory, writes the     *)
(* Secret while readers wait, and either keeps the edit or puts the        *)
(* previous snapshot and session versions back.  The process may die       *)
(* between any two of these steps and imports the Secret when it starts.   *)
(***************************************************************************)
EXTENDS Naturals, FiniteSets

CONSTANTS
    Users,        \* usernames of local accounts
    Fold,         \* a username's lower-case form
    Passwords,
    Roles,        \* role names
    AdminRole,    \* the role named "admin"
    Providers,    \* the identity providers looked at
    Groups,       \* their groups that may be mapped to a role
    ProviderOf,   \* the provider each group belongs to
    Oversized,    \* role and group names cleanConfigField refuses
    Uploads,      \* snapshots an administrator may upload or pre-create
    MaxVersion,   \* bound on session versions
    MaxCrashes,   \* bound on process deaths
    NoRole, NoAccount, NoSecret

Modes     == {"admin", "viewer"}

\* Provider settings: as shipped, as an administrator set them up, and set up with
\* text that validateConfigTextFields refuses, control characters or more than 4096
\* characters, which the handlers only trim.
Settings  == {"default", "custom", "refused"}

\* A stored password hash is the password it accepts and whether it was made
\* with today's iteration count; the salt is abstracted.
Account == [role : Roles, password : Passwords, current : BOOLEAN]

Config == [roles    : [Roles -> Modes \cup {NoRole}],
           users    : [Users -> Account \cup {NoAccount}],
           settings : [Providers -> Settings],
           mappings : [Groups -> Roles \cup {NoRole}]]

Snapshots == [config : Config, initialized : BOOLEAN]

ASSUME ConfigAssumption ==
    /\ AdminRole \in Roles
    /\ NoRole \notin Roles \cup Modes
    /\ NoAccount \notin Account
    /\ NoSecret \notin Snapshots
    /\ Fold \in [Users -> Users]
    /\ Providers \subseteq {"google", "oidc", "entra"}
    /\ ProviderOf \in [Groups -> Providers]
    /\ Oversized \subseteq Roles \cup Groups
    /\ AdminRole \notin Oversized
    /\ Uploads \subseteq Snapshots
    /\ MaxVersion \in Nat \ {0}
    /\ MaxCrashes \in Nat

VARIABLES
    phase,             \* where the process is: see Phases
    config,            \* roles, users, settings and mappings in memory
    versions,          \* sessionVersions; 0 where the map has no entry
    previous,          \* the snapshot a mutation can fall back to: what
    previousVersions,  \*   readers saw when the lock was last free
    secret,            \* the Kubernetes Secret's snapshot
    adminSeen,         \* this process has had someone who could administer it
    stray,             \* the Secret holds a change reported as failed
    crashes            \* process deaths so far

vars == <<phase, config, versions, previous, previousVersions, secret,
          adminSeen, stray, crashes>>

\* "saving" and "saved": a mutation holds the write lock, before and after
\* the Secret accepted it.  "starting" and "restored" are the same two points
\* of the startup PersistConfig.
Phases == {"down", "starting", "restored", "idle", "saving", "saved"}

-----------------------------------------------------------------------------
(* Configurations.                                                         *)

RoleExists(c, r)   == c.roles[r] # NoRole
UserExists(c, u)   == c.users[u] # NoAccount
IsAdminUser(c, u)  == UserExists(c, u) /\ c.roles[c.users[u].role] = "admin"
HasLocalAdmin(c)   == \E u \in Users : IsAdminUser(c, u)

\* Someone can sign in as an administrator.
Administrable(c) ==
    \/ HasLocalAdmin(c)
    \/ \E g \in Groups : /\ c.mappings[g] # NoRole
                         /\ c.roles[c.mappings[g]] = "admin"
                         /\ c.settings[ProviderOf[g]] # "default"

\* Taken: some account already uses this name, letter case aside.
Taken(c, u) == \E v \in Users : UserExists(c, v) /\ Fold[v] = Fold[u]

\* u is the only administrator among the local accounts.
IsLastLocalAdmin(c, u) ==
    /\ IsAdminUser(c, u)
    /\ \A v \in Users \ {u} : ~IsAdminUser(c, v)

EnsureDefaults(c) == [c EXCEPT !.roles[AdminRole] = "admin"]

DefaultConfig ==
    [roles    |-> [r \in Roles |-> IF r = AdminRole THEN "admin" ELSE NoRole],
     users    |-> [u \in Users |-> NoAccount],
     settings |-> [p \in Providers |-> "default"],
     mappings |-> [g \in Groups |-> NoRole]]

NoVersions == [u \in Users |-> 0]

\* A mistaken Snapshot: any account makes the store initialized.
SnapshotOfAnyAccount(c) ==
    [config |-> c, initialized |-> \E u \in Users : UserExists(c, u)]

\* snapshotLocked: what is written to the Secret.
Snapshot(c) == [config |-> c, initialized |-> HasLocalAdmin(c)]

\* An import completes a snapshot that does not list the admin role.
Normalize(s) ==
    IF s.config.roles[AdminRole] = NoRole THEN EnsureDefaults(s.config)
                                          ELSE s.config

\* NormalizeConfigSnapshot accepts the snapshot.
RolesAcceptable(c) ==
    /\ c.roles[AdminRole] = "admin"
    /\ \A r \in Oversized \cap Roles : ~RoleExists(c, r)

UsersAcceptable(c, initialized) ==
    /\ \A u \in Users : UserExists(c, u) => RoleExists(c, c.users[u].role)
    /\ \A u, v \in Users : /\ UserExists(c, u)
                           /\ UserExists(c, v)
                           /\ Fold[u] = Fold[v]
                           => u = v
    /\ initialized => HasLocalAdmin(c)

MappingsAcceptable(c) ==
    \A g \in Groups : c.mappings[g] # NoRole =>
        RoleExists(c, c.mappings[g]) /\ g \notin Oversized

SettingsAcceptable(c) == \A p \in Providers : c.settings[p] # "refused"

Importable(s) ==
    LET c == Normalize(s)
    IN  /\ RolesAcceptable(c)
        /\ UsersAcceptable(c, s.initialized)
        /\ SettingsAcceptable(c)
        /\ MappingsAcceptable(c)

\* applyConfigSnapshotLocked: an account of the snapshot moves to its next
\* session version, any other loses its version.
AppliedVersions(c, v) ==
    [u \in Users |-> IF UserExists(c, u) THEN v[u] + 1 ELSE 0]

-----------------------------------------------------------------------------
(* mutateConfigAndPersist, one step at a time.                             *)

\* Both locks are taken, memory is edited, and the save is about to start.
\* A request the store refuses changes nothing and is not a step.
Mutate(c, v) ==
    /\ phase = "idle"
    /\ \A u \in Users : v[u] <= MaxVersion
    /\ config' = c
    /\ versions' = v
    /\ phase' = "saving"
    /\ UNCHANGED <<previous, previousVersions, secret, adminSeen, stray, crashes>>

\* The API server stores the encoded snapshot.
WriteSecret ==
    /\ phase \in {"saving", "starting"}
    /\ secret' = Snapshot(config)
    /\ stray' = FALSE
    /\ phase' = IF phase = "saving" THEN "saved" ELSE "restored"
    /\ UNCHANGED <<config, versions, previous, previousVersions, adminSeen, crashes>>

\* The locks are free again (or startup is over): readers see the edit.
Release ==
    /\ phase' = "idle"
    /\ previous' = config
    /\ previousVersions' = versions
    /\ adminSeen' = (adminSeen \/ Administrable(config))

\* The save returned nil.
Commit ==
    /\ phase = "saved"
    /\ Release
    /\ UNCHANGED <<config, versions, secret, stray, crashes>>

\* The save returned an error: the write was refused, or ("saved") it was
\* applied and its answer lost.  Memory goes back to the previous snapshot.
Rollback ==
    /\ phase \in {"saving", "saved"}
    /\ config' = previous
    /\ versions' = previousVersions
    /\ phase' = "idle"
    /\ stray' = (stray \/ phase = "saved")
    /\ UNCHANGED <<previous, previousVersions, secret, adminSeen, crashes>>

-----------------------------------------------------------------------------
(* The operations.  The administration API asks for an admin caller, and a *)
(* login for an initialized store: neither happens before adminSeen.       *)

WithUser(u, a)    == [config EXCEPT !.users[u] = a]
WithRole(r, m)    == [config EXCEPT !.roles[r] = m]
WithMapping(g, r) == [config EXCEPT !.mappings[g] = r]
WithVersion(u, n) == [versions EXCEPT ![u] = n]

NewAccount(r, pw) == [role |-> r, password |-> pw, current |-> TRUE]

CompleteBootstrap(u, pw) ==
    LET c == EnsureDefaults(config)
    IN  /\ ~HasLocalAdmin(c)
        /\ Mutate([c EXCEPT !.users[u] = NewAccount(AdminRole, pw)],
                  WithVersion(u, versions[u] + 1))

\* An initialized store refuses, after ensureDefaultsLocked and with no rollback.
CompleteBootstrapRefused ==
    /\ phase = "idle"
    /\ HasLocalAdmin(EnsureDefaults(config))
    /\ config' = EnsureDefaults(config)
    /\ UNCHANGED <<phase, versions, previous, previousVersions, secret,
                   adminSeen, stray, crashes>>

CreateUser(u, pw, r) ==
    /\ adminSeen
    /\ RoleExists(config, r)
    /\ ~Taken(config, u)
    /\ Mutate(WithUser(u, NewAccount(r, pw)), WithVersion(u, 1))

UpdateUserRole(u, r) ==
    /\ adminSeen
    /\ RoleExists(config, r)
    /\ UserExists(config, u)
    /\ IsLastLocalAdmin(config, u) => config.roles[r] = "admin"
    /\ Mutate([config EXCEPT !.users[u].role = r], versions)

\* A mistaken ResetLocalPassword: the account's sessions are not ended.
ResetKeepingSessions(u, pw) ==
    /\ adminSeen
    /\ UserExists(config, u)
    /\ Mutate(WithUser(u, NewAccount(config.users[u].role, pw)), versions)

ResetLocalPassword(u, pw) ==
    /\ adminSeen
    /\ UserExists(config, u)
    /\ Mutate(WithUser(u, NewAccount(config.users[u].role, pw)),
              WithVersion(u, versions[u] + 1))

DeleteUser(u) ==
    /\ adminSeen
    /\ UserExists(config, u)
    /\ ~IsLastLocalAdmin(config, u)
    /\ Mutate(WithUser(u, NoAccount), WithVersion(u, 0))

\* A mistaken UpgradePasswordHash: the hash is not compared again.
UpgradeUnchecked(u, pw) ==
    /\ adminSeen
    /\ IF UserExists(config, u)
       THEN Mutate(WithUser(u, NewAccount(config.users[u].role, pw)), versions)
       ELSE Mutate(config, versions)

\* VerifyLocalCredentials re-hashes pw when u's hash, as it was read, accepted
\* it with an outdated iteration count, unless that hash was replaced since.
\* The configuration is saved either way.
UpgradePasswordHash(u, pw) ==
    /\ adminSeen
    /\ IF /\ UserExists(config, u)
          /\ config.users[u].password = pw
          /\ ~config.users[u].current
       THEN Mutate([config EXCEPT !.users[u].current = TRUE], versions)
       ELSE Mutate(config, versions)

CreateRole(r, m) ==
    /\ adminSeen
    /\ r = AdminRole => m = "admin"
    /\ ~RoleExists(config, r)
    /\ Mutate(WithRole(r, m), versions)

UpdateRole(r, m) ==
    /\ adminSeen
    /\ r = AdminRole => m = "admin"
    /\ RoleExists(config, r)
    /\ Mutate(WithRole(r, m), versions)

\* Mistaken DeleteRoles: accounts, or group mappings, are not looked at.
DeleteRoleInUse(r) ==
    /\ adminSeen
    /\ r # AdminRole
    /\ RoleExists(config, r)
    /\ \A g \in Groups : config.mappings[g] # r
    /\ Mutate(WithRole(r, NoRole), versions)

DeleteRole(r) ==
    /\ adminSeen
    /\ r # AdminRole
    /\ RoleExists(config, r)
    /\ \A u \in Users : UserExists(config, u) => config.users[u].role # r
    /\ \A g \in Groups : config.mappings[g] # r
    /\ Mutate(WithRole(r, NoRole), versions)

\* A provider's settings and group mappings: the methods for Google, generic OpenID
\* Connect and Entra ID are of one shape.
SetMapping(g, r) ==
    /\ adminSeen
    /\ RoleExists(config, r)
    /\ Mutate(WithMapping(g, r), versions)

RemoveMapping(g) ==
    /\ adminSeen
    /\ config.mappings[g] # NoRole
    /\ Mutate(WithMapping(g, NoRole), versions)

Configure(p, text) ==
    /\ adminSeen
    /\ Mutate([config EXCEPT !.settings[p] = text], versions)

ResetProvider(p) ==
    /\ adminSeen
    /\ Mutate([config EXCEPT
                 !.settings[p] = "default",
                 !.mappings = [g \in Groups |-> IF ProviderOf[g] = p THEN NoRole ELSE @[g]]],
              versions)

\* A runtime import.
ReplaceConfigSnapshot(s) ==
    /\ adminSeen
    /\ Importable(s)
    /\ Mutate(Normalize(s), AppliedVersions(Normalize(s), versions))

-----------------------------------------------------------------------------
(* initializeUserConfig, process death, and the operator's hands.          *)

\* No Secret: the empty configuration, ready for bootstrap; nothing is saved.
StartEmpty ==
    /\ phase = "down"
    /\ secret = NoSecret
    /\ config' = DefaultConfig
    /\ versions' = NoVersions
    /\ previous' = DefaultConfig
    /\ previousVersions' = NoVersions
    /\ phase' = "idle"
    /\ UNCHANGED <<secret, adminSeen, stray, crashes>>

\* A Secret the import accepts is applied to the fresh store, then saved back.
\* One it refuses ends the process: nothing changes.
StartImport ==
    /\ phase = "down"
    /\ secret # NoSecret
    /\ Importable(secret)
    /\ config' = EnsureDefaults(Normalize(secret))
    /\ versions' = AppliedVersions(Normalize(secret), NoVersions)
    /\ phase' = "starting"
    /\ UNCHANGED <<previous, previousVersions, secret, adminSeen, stray, crashes>>

\* A mistaken Ready: startup does not wait for its save.
ReadyUnsaved ==
    /\ phase \in {"starting", "restored"}
    /\ Release
    /\ UNCHANGED <<config, versions, secret, stray, crashes>>

Ready ==
    /\ phase = "restored"
    /\ Release
    /\ UNCHANGED <<config, versions, secret, stray, crashes>>

\* Memory is gone; the Secret stays as it is.
Exit ==
    /\ phase' = "down"
    /\ config' = DefaultConfig
    /\ versions' = NoVersions
    /\ adminSeen' = FALSE
    /\ UNCHANGED <<previous, previousVersions, secret, stray>>

\* The startup save returned an error, applied or not.
StartupSaveFails ==
    /\ phase \in {"starting", "restored"}
    /\ Exit
    /\ UNCHANGED crashes

Crash ==
    /\ phase # "down"
    /\ crashes < MaxCrashes
    /\ crashes' = crashes + 1
    /\ Exit

\* While the process is down an operator may delete the Secret, as the recovery
\* hint suggests, or put one there.
OperatorEdits ==
    /\ phase = "down"
    /\ secret' \in {NoSecret} \cup {s \in Uploads : Importable(s)}
    /\ stray' = FALSE
    /\ UNCHANGED <<phase, config, versions, previous, previousVersions,
                   adminSeen, crashes>>

-----------------------------------------------------------------------------
Init ==
    /\ phase = "down"
    /\ config = DefaultConfig
    /\ versions = NoVersions
    /\ previous = DefaultConfig
    /\ previousVersions = NoVersions
    /\ secret = NoSecret
    /\ adminSeen = FALSE
    /\ stray = FALSE
    /\ crashes = 0

AccountOperation ==
    \/ \E u \in Users, pw \in Passwords :
          \/ CompleteBootstrap(u, pw)
          \/ ResetLocalPassword(u, pw)
    \/ \E u \in Users, pw \in Passwords, r \in Roles : CreateUser(u, pw, r)
    \/ \E u \in Users, r \in Roles : UpdateUserRole(u, r)
    \/ \E u \in Users : DeleteUser(u)
    \/ CompleteBootstrapRefused

RoleOperation ==
    \/ \E r \in Roles, m \in Modes : CreateRole(r, m) \/ UpdateRole(r, m)
    \/ \E r \in Roles : DeleteRole(r)

ProviderOperation ==
    \/ \E p \in Providers : ResetProvider(p) \/ \E text \in Settings \ {"default"} : Configure(p, text)
    \/ \E g \in Groups, r \in Roles : SetMapping(g, r)
    \/ \E g \in Groups : RemoveMapping(g)

Import == \E s \in Uploads : ReplaceConfigSnapshot(s)

\* A login's password check may ask for this one.
Upgrade == \E u \in Users, pw \in Passwords : UpgradePasswordHash(u, pw)

Operation == AccountOperation \/ RoleOperation \/ ProviderOperation \/ Import

Housekeeping ==
    \/ WriteSecret \/ Commit \/ Rollback
    \/ StartEmpty \/ StartImport \/ Ready \/ StartupSaveFails
    \/ OperatorEdits

Next == Operation \/ Upgrade \/ Housekeeping \/ Crash

Spec == Init /\ [][Next]_vars

\* A save and a startup take their next step; the API server does not refuse
\* the startup save for ever.
Fairness ==
    /\ WF_vars(WriteSecret \/ Commit \/ Rollback)
    /\ WF_vars(StartEmpty \/ StartImport)
    /\ SF_vars(WriteSecret)
    /\ SF_vars(Ready)

FairSpec == Spec /\ Fairness

-----------------------------------------------------------------------------
TypeOK ==
    /\ phase \in Phases
    /\ config \in Config
    /\ previous \in Config
    /\ versions \in [Users -> 0..MaxVersion]
    /\ previousVersions \in [Users -> 0..MaxVersion]
    /\ secret \in Snapshots \cup {NoSecret}
    /\ adminSeen \in BOOLEAN
    /\ stray \in BOOLEAN
    /\ crashes \in 0..MaxCrashes

-----------------------------------------------------------------------------
(* What readers can rely on.                                               *)

\* A configuration whose references resolve: the admin role is there in admin
\* mode, and accounts and group mappings name existing roles.
Sound(c) ==
    /\ c.roles[AdminRole] = "admin"
    /\ \A u \in Users : UserExists(c, u) => RoleExists(c, c.users[u].role)
    /\ \A g \in Groups : c.mappings[g] # NoRole => RoleExists(c, c.mappings[g])

\* Deleting a role, importing a snapshot, bootstrapping and starting never leave
\* an account or a mapping pointing at a missing role, nor demote "admin".
ReferencesResolve == Sound(config) /\ Sound(previous)

\* Whenever the lock is free, memory holds exactly what was published last: a
\* mutation whose save failed leaves no trace in the configuration and does not
\* move a session version (mutateConfigAndPersist's rollback).
FailedSaveLeavesNoTrace ==
    phase = "idle" => config = previous /\ versions = previousVersions

\* An idle server's Secret holds its configuration, unless a save reported as
\* failed was applied all the same, or nothing was ever saved.
DurableMatchesRuntime ==
    phase = "idle" /\ ~stray =>
        \/ secret = Snapshot(config)
        \/ secret = NoSecret /\ config = DefaultConfig

\* Every name and text is one the import takes: administrators typed none that is
\* too long or holds control characters, nor one username in two letter cases.
Legible(c) ==
    /\ \A r \in Oversized \cap Roles : ~RoleExists(c, r)
    /\ \A g \in Oversized \cap Groups : c.mappings[g] = NoRole
    /\ \A p \in Providers : c.settings[p] # "refused"
    /\ \A u, v \in Users : UserExists(c, u) /\ UserExists(c, v) /\ Fold[u] = Fold[v] => u = v

\* A Secret the next start refuses, for its names and texts only.
LockedOut == secret # NoSecret /\ ~Legible(secret.config)

\* Whatever the application or an accepted upload left in the Secret, the next
\* start imports it, or refuses it for a name or text it holds: no order of accepted
\* changes makes configurations that cannot be imported for their references, the
\* admin role or the administrator they lack.
SecretImportable == secret # NoSecret => Importable(secret) \/ LockedOut

\* Readers only ever move to a configuration the Secret holds at that moment.
Storage == INSTANCE WriteAhead WITH
    Values  <- Config,
    Blank   <- DefaultConfig,
    view    <- previous,
    durable <- IF secret = NoSecret THEN DefaultConfig ELSE secret.config

ReadersSeeDurable == Storage!Spec

\* A mutation returns and a restart succeeds: the server is ready again and again,
\* while the API server answers and the Secret holds no refused name or text.
ServiceReturns == []<>(phase = "idle" \/ LockedOut)

=============================================================================
