-------------------------- MODULE ConfigStoreProofs --------------------------
(***************************************************************************)
(* Theorems of ConfigStore, for every set of users, roles, groups and      *)
(* uploads, and of Sessions, for every set of sign-ins under way together. *)
(* The argument: every operation the store accepts is an Edit, a mutation  *)
(* to a well-typed configuration whose references resolve; the rest of the *)
(* protocol only moves such configurations between memory, the previous    *)
(* snapshot and the Secret.  Signing in takes the store through its own    *)
(* steps only, so that what holds of the store holds under sessions too.   *)
(***************************************************************************)
EXTENDS Sessions, TLAPS

\* What an accepted operation amounts to.
Edit == \E c \in Config, v \in [Users -> Nat] : Sound(c) /\ Mutate(c, v)

-----------------------------------------------------------------------------
(* Changing one part of a configuration.                                   *)

\* The default configuration is well typed and refers to nothing missing.
LEMMA DefaultSound == DefaultConfig \in Config /\ Sound(DefaultConfig)
  BY ConfigAssumption
  DEF DefaultConfig, Config, Modes, Settings, Sound, UserExists, RoleExists

\* Storing an account keeps references whole when the account's role exists.
LEMMA UserEdit ==
  ASSUME NEW c \in Config, Sound(c), NEW u \in Users,
         NEW a \in Account \cup {NoAccount},
         a # NoAccount => RoleExists(c, a.role)
  PROVE  /\ [c EXCEPT !.users[u] = a] \in Config
         /\ Sound([c EXCEPT !.users[u] = a])
  BY DEF Config, Sound, UserExists, RoleExists

\* Giving a role a mode keeps them whole; admin may only be given "admin".
LEMMA RoleEdit ==
  ASSUME NEW c \in Config, Sound(c), NEW r \in Roles, NEW m \in Modes,
         r = AdminRole => m = "admin"
  PROVE  /\ [c EXCEPT !.roles[r] = m] \in Config
         /\ Sound([c EXCEPT !.roles[r] = m])
  BY ConfigAssumption DEF Config, Sound, UserExists, RoleExists, Modes

\* So does removing a role nobody refers to.
LEMMA RoleRemoval ==
  ASSUME NEW c \in Config, Sound(c), NEW r \in Roles, r # AdminRole,
         \A u \in Users : UserExists(c, u) => c.users[u].role # r,
         \A g \in Groups : c.mappings[g] # r
  PROVE  /\ [c EXCEPT !.roles[r] = NoRole] \in Config
         /\ Sound([c EXCEPT !.roles[r] = NoRole])
  <1> DEFINE d == [c EXCEPT !.roles[r] = NoRole]
  <1>1. d \in Config
    BY DEF Config
  <1>2. d.roles[AdminRole] = "admin" /\ d.users = c.users /\ d.mappings = c.mappings
    BY ConfigAssumption DEF Config, Sound
  <1>3. \A q \in Roles \ {r} : d.roles[q] = c.roles[q]
    BY DEF Config
  <1>4. ASSUME NEW u \in Users, UserExists(c, u)
        PROVE  c.users[u].role \in Roles \ {r}
    BY <1>4 DEF Config, UserExists, Account
  <1>5. ASSUME NEW g \in Groups, c.mappings[g] # NoRole
        PROVE  c.mappings[g] \in Roles \ {r}
    BY <1>5 DEF Config
  <1> QED
    BY <1>1, <1>2, <1>3, <1>4, <1>5 DEF Sound, UserExists, RoleExists

\* Mapping a group to an existing role, or to none.
LEMMA MappingEdit ==
  ASSUME NEW c \in Config, Sound(c), NEW g \in Groups,
         NEW r \in Roles \cup {NoRole}, r # NoRole => RoleExists(c, r)
  PROVE  /\ [c EXCEPT !.mappings[g] = r] \in Config
         /\ Sound([c EXCEPT !.mappings[g] = r])
  BY DEF Config, Sound, UserExists, RoleExists

\* A snapshot the import accepts is sound once normalized.
LEMMA ImportSound ==
  ASSUME NEW s \in Snapshots, Importable(s)
  PROVE  /\ Normalize(s) \in Config
         /\ Sound(Normalize(s))
         /\ EnsureDefaults(Normalize(s)) = Normalize(s)
  <1>1. Normalize(s) \in Config
    BY ConfigAssumption DEF Snapshots, Config, Normalize, EnsureDefaults, Modes
  <1>2. Sound(Normalize(s))
    BY DEF Importable, RolesAcceptable, UsersAcceptable, MappingsAcceptable, Sound
  <1>3. \A c \in Config : Sound(c) => EnsureDefaults(c) = c
    BY ConfigAssumption DEF Config, Sound, EnsureDefaults
  <1> QED
    BY <1>1, <1>2, <1>3

-----------------------------------------------------------------------------
(* Every operation is an Edit.                                             *)

\* Account operations edit soundly, or refuse a bootstrap and change nothing.
LEMMA AccountOperationEdits ==
  ASSUME TypeOK, Sound(config), AccountOperation
  PROVE  Edit \/ UNCHANGED vars
  <1> USE DEF TypeOK
  <1>0. EnsureDefaults(config) = config
    BY ConfigAssumption DEF Config, Sound, EnsureDefaults
  <1>v. \A u \in Users : versions[u] + 1 \in Nat
    OBVIOUS
  <1>w. ASSUME NEW u \in Users, NEW n \in Nat
        PROVE  WithVersion(u, n) \in [Users -> Nat]
    BY DEF WithVersion
  <1>n. ASSUME NEW r \in Roles, NEW pw \in Passwords
        PROVE  /\ NewAccount(r, pw) \in Account
               /\ NewAccount(r, pw).role = r
    BY DEF NewAccount, Account
  <1>1. ASSUME NEW u \in Users, NEW pw \in Passwords, CompleteBootstrap(u, pw)
        PROVE  Edit
    <2> DEFINE a == NewAccount(AdminRole, pw)
    <2>1. a \in Account /\ RoleExists(config, a.role)
      BY <1>n, ConfigAssumption DEF Sound, RoleExists, Modes
    <2> HIDE DEF a
    <2>2. [config EXCEPT !.users[u] = a] \in Config /\ Sound([config EXCEPT !.users[u] = a])
      BY <2>1, UserEdit
    <2>3. Mutate([config EXCEPT !.users[u] = a], WithVersion(u, versions[u] + 1))
      BY <1>1, <1>0 DEF CompleteBootstrap, a
    <2> QED
      BY <2>2, <2>3, <1>v, <1>w DEF Edit
  <1>2. ASSUME NEW u \in Users, NEW pw \in Passwords, ResetLocalPassword(u, pw)
        PROVE  Edit
    <2> DEFINE a == NewAccount(config.users[u].role, pw)
    <2>1. a \in Account /\ RoleExists(config, a.role)
      <3>1. config.users[u] \in Account /\ RoleExists(config, config.users[u].role)
        BY <1>2 DEF ResetLocalPassword, UserExists, Config, Sound
      <3>2. config.users[u].role \in Roles
        BY <3>1 DEF Account
      <3> QED
        BY <3>1, <3>2, <1>n
    <2> HIDE DEF a
    <2>2. [config EXCEPT !.users[u] = a] \in Config /\ Sound([config EXCEPT !.users[u] = a])
      BY <2>1, UserEdit
    <2>3. Mutate([config EXCEPT !.users[u] = a], WithVersion(u, versions[u] + 1))
      BY <1>2 DEF ResetLocalPassword, WithUser, a
    <2> QED
      BY <2>2, <2>3, <1>v, <1>w DEF Edit
  <1>3. ASSUME NEW u \in Users, NEW pw \in Passwords, NEW r \in Roles, CreateUser(u, pw, r)
        PROVE  Edit
    <2> DEFINE a == NewAccount(r, pw)
    <2>1. a \in Account /\ RoleExists(config, a.role)
      BY <1>3, <1>n DEF CreateUser
    <2> HIDE DEF a
    <2>2. [config EXCEPT !.users[u] = a] \in Config /\ Sound([config EXCEPT !.users[u] = a])
      BY <2>1, UserEdit
    <2>3. Mutate([config EXCEPT !.users[u] = a], WithVersion(u, 1))
      BY <1>3 DEF CreateUser, WithUser, a
    <2> QED
      BY <2>2, <2>3, <1>w DEF Edit
  <1>4. ASSUME NEW u \in Users, NEW r \in Roles, UpdateUserRole(u, r)
        PROVE  Edit
    <2> DEFINE a == [config.users[u] EXCEPT !.role = r]
    <2>1. a \in Account /\ RoleExists(config, a.role)
      BY <1>4 DEF UpdateUserRole, UserExists, Config, Account
    <2>2. [config EXCEPT !.users[u].role = r] = [config EXCEPT !.users[u] = a]
      OBVIOUS
    <2> HIDE DEF a
    <2>3. [config EXCEPT !.users[u] = a] \in Config /\ Sound([config EXCEPT !.users[u] = a])
      BY <2>1, UserEdit
    <2>4. Mutate([config EXCEPT !.users[u] = a], versions)
      BY <1>4, <2>2 DEF UpdateUserRole
    <2>5. versions \in [Users -> Nat]
      OBVIOUS
    <2> QED
      BY <2>3, <2>4, <2>5 DEF Edit
  <1>5. ASSUME NEW u \in Users, DeleteUser(u)
        PROVE  Edit
    <2>1. /\ [config EXCEPT !.users[u] = NoAccount] \in Config
          /\ Sound([config EXCEPT !.users[u] = NoAccount])
      BY UserEdit
    <2>2. Mutate([config EXCEPT !.users[u] = NoAccount], WithVersion(u, 0))
      BY <1>5 DEF DeleteUser, WithUser
    <2> QED
      BY <2>1, <2>2, <1>w DEF Edit
  <1>6. CompleteBootstrapRefused => UNCHANGED vars
    BY <1>0 DEF CompleteBootstrapRefused, vars
  <1> QED
    BY <1>1, <1>2, <1>3, <1>4, <1>5, <1>6 DEF AccountOperation

\* Operations on roles edit soundly.
LEMMA RoleOperationEdits ==
  ASSUME TypeOK, Sound(config), RoleOperation
  PROVE  Edit
  <1> USE DEF TypeOK
  <1>v. versions \in [Users -> Nat]
    OBVIOUS
  <1>1. ASSUME NEW r \in Roles, NEW m \in Modes, CreateRole(r, m) \/ UpdateRole(r, m)
        PROVE  Edit
    <2>1. r = AdminRole => m = "admin"
      BY <1>1 DEF CreateRole, UpdateRole
    <2>2. [config EXCEPT !.roles[r] = m] \in Config /\ Sound([config EXCEPT !.roles[r] = m])
      BY <2>1, RoleEdit
    <2>3. Mutate([config EXCEPT !.roles[r] = m], versions)
      BY <1>1 DEF CreateRole, UpdateRole, WithRole
    <2> QED
      BY <2>2, <2>3, <1>v DEF Edit
  <1>2. ASSUME NEW r \in Roles, DeleteRole(r)
        PROVE  Edit
    <2>1. /\ [config EXCEPT !.roles[r] = NoRole] \in Config
          /\ Sound([config EXCEPT !.roles[r] = NoRole])
      BY <1>2, RoleRemoval DEF DeleteRole
    <2>2. Mutate([config EXCEPT !.roles[r] = NoRole], versions)
      BY <1>2 DEF DeleteRole, WithRole
    <2> QED
      BY <2>1, <2>2, <1>v DEF Edit
  <1> QED
    BY <1>1, <1>2 DEF RoleOperation

\* Operations on provider settings and mappings edit soundly.
LEMMA ProviderOperationEdits ==
  ASSUME TypeOK, Sound(config), ProviderOperation
  PROVE  Edit
  <1> USE DEF TypeOK
  <1>v. versions \in [Users -> Nat]
    OBVIOUS
  <1>1. ASSUME NEW p \in Providers, NEW text \in Settings, Configure(p, text)
        PROVE  Edit
    <2>1. /\ [config EXCEPT !.settings[p] = text] \in Config
          /\ Sound([config EXCEPT !.settings[p] = text])
      BY DEF Config, Sound, UserExists, RoleExists
    <2> QED
      BY <1>1, <1>v, <2>1 DEF Configure, Edit
  <1>2. ASSUME NEW p \in Providers, ResetProvider(p)
        PROVE  Edit
    <2> DEFINE kept == [g \in Groups |-> IF ProviderOf[g] = p THEN NoRole ELSE config.mappings[g]]
               c    == [config EXCEPT !.settings[p] = "default", !.mappings = kept]
    <2>1. c \in Config
      BY DEF Config, Settings
    <2>2. c.roles = config.roles /\ c.users = config.users /\ c.mappings = kept
      BY DEF Config
    <2>3. Sound(c)
      BY <2>2 DEF Sound, UserExists, RoleExists
    <2>4. Mutate(c, versions)
      BY <1>2 DEF ResetProvider
    <2> QED
      BY <1>v, <2>1, <2>3, <2>4 DEF Edit
  <1>3. ASSUME NEW g \in Groups, NEW r \in Roles, SetMapping(g, r)
        PROVE  Edit
    <2>1. /\ [config EXCEPT !.mappings[g] = r] \in Config
          /\ Sound([config EXCEPT !.mappings[g] = r])
      BY <1>3, MappingEdit DEF SetMapping
    <2> QED
      BY <1>3, <1>v, <2>1 DEF SetMapping, WithMapping, Edit
  <1>4. ASSUME NEW g \in Groups, RemoveMapping(g)
        PROVE  Edit
    <2>1. /\ [config EXCEPT !.mappings[g] = NoRole] \in Config
          /\ Sound([config EXCEPT !.mappings[g] = NoRole])
      BY MappingEdit
    <2> QED
      BY <1>4, <1>v, <2>1 DEF RemoveMapping, WithMapping, Edit
  <1> QED
    BY <1>1, <1>2, <1>3, <1>4
    DEF ProviderOperation

\* So do an import and a password upgrade.
LEMMA ImportEdits ==
  ASSUME TypeOK, Sound(config), Import \/ Upgrade
  PROVE  Edit
  <1> USE DEF TypeOK
  <1>1. ASSUME NEW s \in Uploads, ReplaceConfigSnapshot(s)
        PROVE  Edit
    <2>1. Normalize(s) \in Config /\ Sound(Normalize(s))
      BY <1>1, ImportSound, ConfigAssumption DEF ReplaceConfigSnapshot
    <2>2. AppliedVersions(Normalize(s), versions) \in [Users -> Nat]
      BY DEF AppliedVersions
    <2> QED
      BY <1>1, <2>1, <2>2 DEF ReplaceConfigSnapshot, Edit
  <1>2. ASSUME NEW u \in Users, NEW pw \in Passwords, UpgradePasswordHash(u, pw)
        PROVE  Edit
    <2> DEFINE a == [config.users[u] EXCEPT !.current = TRUE]
    <2>0. versions \in [Users -> Nat]
      OBVIOUS
    <2>1. CASE UserExists(config, u) /\ Mutate([config EXCEPT !.users[u].current = TRUE], versions)
      <3>1. a \in Account /\ RoleExists(config, a.role)
        BY <2>1 DEF UserExists, Config, Account, Sound
      <3>2. [config EXCEPT !.users[u].current = TRUE] = [config EXCEPT !.users[u] = a]
        OBVIOUS
      <3> HIDE DEF a
      <3>3. [config EXCEPT !.users[u] = a] \in Config /\ Sound([config EXCEPT !.users[u] = a])
        BY <3>1, UserEdit
      <3> QED
        BY <2>0, <2>1, <3>2, <3>3 DEF Edit
    <2>2. CASE Mutate(config, versions)
      BY <2>0, <2>2 DEF Edit
    <2> QED
      BY <1>2, <2>1, <2>2 DEF UpgradePasswordHash
  <1> QED
    BY <1>1, <1>2 DEF Import, Upgrade

\* A step of the store is an Edit, a step of its bookkeeping, or no step.
LEMMA NextShape ==
  ASSUME TypeOK, Sound(config), [Next]_vars
  PROVE  \/ Edit
         \/ Housekeeping
         \/ Crash
         \/ UNCHANGED vars
  BY AccountOperationEdits, RoleOperationEdits, ProviderOperationEdits, ImportEdits
  DEF Next, Operation

-----------------------------------------------------------------------------
(* Types and references.                                                   *)

\* The actions that make up Housekeeping, expanded together where a proof has
\* nothing to say of them one by one.
LEMMA TypesAndReferencesStep ==
  ASSUME TypeOK, ReferencesResolve, [Next]_vars
  PROVE  TypeOK' /\ ReferencesResolve'
  <1> USE DEF ReferencesResolve
  <1>1. CASE Edit
    <2> PICK c \in Config, v \in [Users -> Nat] : Sound(c) /\ Mutate(c, v)
      BY <1>1 DEF Edit
    <2>1. v \in [Users -> 0..MaxVersion]
      BY ConfigAssumption DEF Mutate
    <2> QED
      BY <2>1 DEF Mutate, TypeOK, Phases
  <1>2. CASE WriteSecret
    <2>1. Snapshot(config) \in Snapshots
      BY DEF TypeOK, Snapshot, Snapshots, HasLocalAdmin
    <2> QED
      BY <1>2, <2>1 DEF WriteSecret, TypeOK, Phases
  <1>3. CASE Commit \/ Ready
    BY <1>3 DEF Commit, Ready, Release, TypeOK, Phases, Administrable, HasLocalAdmin
  <1>4. CASE Rollback
    BY <1>4 DEF Rollback, TypeOK, Phases
  <1>5. CASE StartEmpty
    BY <1>5, DefaultSound, ConfigAssumption DEF StartEmpty, TypeOK, Phases, NoVersions
  <1>6. CASE StartImport
    <2>1. secret \in Snapshots /\ Importable(secret)
      BY <1>6 DEF StartImport, TypeOK
    <2>2. Normalize(secret) \in Config /\ Sound(Normalize(secret))
          /\ EnsureDefaults(Normalize(secret)) = Normalize(secret)
      BY <2>1, ImportSound
    <2>3. AppliedVersions(Normalize(secret), NoVersions) \in [Users -> 0..MaxVersion]
      BY ConfigAssumption DEF AppliedVersions, NoVersions
    <2> QED
      BY <1>6, <2>2, <2>3 DEF StartImport, TypeOK, Phases
  <1>7. CASE StartupSaveFails \/ Crash
    <2>1. Exit /\ crashes' \in 0..MaxCrashes
      BY <1>7, ConfigAssumption DEF StartupSaveFails, Crash, TypeOK
    <2>2. adminSeen' \in BOOLEAN /\ stray' \in BOOLEAN
      BY <2>1 DEF Exit, TypeOK
    <2>3. NoVersions \in [Users -> 0..MaxVersion]
      BY ConfigAssumption DEF NoVersions
    <2> QED
      BY <2>1, <2>2, <2>3, DefaultSound DEF Exit, TypeOK, Phases
  <1>8. CASE OperatorEdits
    <2>1. secret' \in Snapshots \cup {NoSecret}
      BY <1>8, ConfigAssumption DEF OperatorEdits
    <2> QED
      BY <1>8, <2>1 DEF OperatorEdits, TypeOK
  <1>9. CASE UNCHANGED vars
    BY <1>9 DEF vars, TypeOK
  <1> QED
    BY <1>1, <1>2, <1>3, <1>4, <1>5, <1>6, <1>7, <1>8, <1>9, NextShape DEF Housekeeping

LEMMA TypesInitially ==
  ASSUME Init
  PROVE  TypeOK /\ ReferencesResolve
  <1>1. adminSeen \in BOOLEAN /\ stray \in BOOLEAN
    BY DEF Init
  <1>2. NoVersions \in [Users -> 0..MaxVersion] /\ 0 \in 0..MaxCrashes
    BY ConfigAssumption DEF NoVersions
  <1> QED
    BY <1>1, <1>2, DefaultSound DEF Init, TypeOK, Phases, ReferencesResolve

LEMMA TypesAndReferences == Spec => [](TypeOK /\ ReferencesResolve)
  BY TypesInitially, TypesAndReferencesStep, PTL DEF Spec

\* The store's variables stay in their types.
THEOREM TypeCorrect == Spec => []TypeOK
  BY TypesAndReferences, PTL

\* Accounts and mappings never point at a missing role, and "admin" stays the
\* admin role, in memory and in what readers see.
THEOREM ReferencesAlwaysResolve == Spec => []ReferencesResolve
  BY TypesAndReferences, PTL

-----------------------------------------------------------------------------
(* Memory, readers and the Secret.                                         *)

\* Where the save has succeeded the Secret holds memory; where the lock is free
\* memory is what was published; and between mutations the published
\* configuration is the stored one, strays and empty starts aside.
Agreement ==
    /\ FailedSaveLeavesNoTrace
    /\ phase \in {"saved", "restored"} => secret = Snapshot(config) /\ ~stray
    /\ phase \in {"idle", "saving"} /\ ~stray =>
          \/ secret = Snapshot(previous)
          \/ secret = NoSecret /\ previous = DefaultConfig

LEMMA AgreementStep ==
  ASSUME TypeOK, ReferencesResolve, Agreement, [Next]_vars
  PROVE  Agreement'
  <1> USE DEF Agreement, FailedSaveLeavesNoTrace
  <1>1. CASE Edit
    BY <1>1 DEF Edit, Mutate
  <1>2. CASE WriteSecret
    <2>1. Snapshot(config)' = Snapshot(config)
      BY <1>2 DEF WriteSecret, Snapshot, HasLocalAdmin, IsAdminUser, UserExists
    <2> QED
      BY <1>2, <2>1 DEF WriteSecret
  <1>3. CASE Commit \/ Ready
    BY <1>3 DEF Commit, Ready, Release
  <1>4. CASE Rollback
    BY <1>4 DEF Rollback, TypeOK
  <1>5. CASE StartEmpty
    BY <1>5 DEF StartEmpty
  <1>6. CASE StartImport \/ StartupSaveFails \/ Crash \/ OperatorEdits
    BY <1>6 DEF StartImport, StartupSaveFails, Crash, OperatorEdits, Exit
  <1>7. CASE UNCHANGED vars
    BY <1>7 DEF vars
  <1> QED
    BY <1>1, <1>2, <1>3, <1>4, <1>5, <1>6, <1>7, NextShape
    DEF Housekeeping, ReferencesResolve

LEMMA AlwaysAgrees == Spec => []Agreement
  <1>1. Init => Agreement
    BY DEF Init, Agreement, FailedSaveLeavesNoTrace
  <1> QED
    BY <1>1, AgreementStep, TypesAndReferences, PTL DEF Spec

\* A failed save leaves neither configuration nor session versions changed.
THEOREM RollbackIsExact == Spec => []FailedSaveLeavesNoTrace
  BY AlwaysAgrees, PTL DEF Agreement

\* An idle server's Secret holds its configuration, strays aside.
THEOREM DurableAlwaysMatches == Spec => []DurableMatchesRuntime
  <1>1. Agreement => DurableMatchesRuntime
    BY DEF Agreement, FailedSaveLeavesNoTrace, DurableMatchesRuntime
  <1> QED
    BY <1>1, AlwaysAgrees, PTL

-----------------------------------------------------------------------------
(* Restarts.                                                               *)

\* A sound configuration is acceptable to the import but for names and texts.
LEMMA SoundIsImportable ==
  ASSUME NEW c \in Config, Sound(c), Legible(c)
  PROVE  Importable(Snapshot(c))
  <1>1. Normalize(Snapshot(c)) = c /\ Snapshot(c).initialized = HasLocalAdmin(c)
    BY ConfigAssumption DEF Normalize, Snapshot, Sound, Modes
  <1>2. RolesAcceptable(c)
    BY DEF RolesAcceptable, Sound, Legible
  <1>3. UsersAcceptable(c, HasLocalAdmin(c))
    BY DEF UsersAcceptable, Sound, Legible
  <1>4. SettingsAcceptable(c)
    BY DEF SettingsAcceptable, Legible
  <1>5. MappingsAcceptable(c)
    BY DEF MappingsAcceptable, Sound, Legible
  <1> QED
    BY <1>1, <1>2, <1>3, <1>4, <1>5 DEF Importable

\* The server can be restarted from its Secret unless a name or text in it is one
\* the import refuses: every configuration any order of accepted operations stores
\* passes the rest of NormalizeConfigSnapshot.
THEOREM RestartAlwaysPossible == Spec => []SecretImportable
  <1>1. Init => SecretImportable
    BY DEF Init, SecretImportable
  <1>2. ASSUME TypeOK, ReferencesResolve, SecretImportable, [Next]_vars
        PROVE  SecretImportable'
    <2>1. CASE WriteSecret
      <3>1. secret' = Snapshot(config) /\ secret'.config = config
        BY <2>1 DEF WriteSecret, Snapshot
      <3>2. Legible(config) => Importable(Snapshot(config))
        BY <1>2, SoundIsImportable DEF TypeOK, ReferencesResolve
      <3> QED
        BY <3>1, <3>2 DEF SecretImportable, LockedOut
    <2>2. CASE OperatorEdits
      <3>1. secret' = NoSecret \/ \E s \in Uploads : secret' = s /\ Importable(s)
        BY <2>2 DEF OperatorEdits
      <3> QED
        BY <3>1 DEF SecretImportable
    <2>3. CASE UNCHANGED secret
      BY <1>2, <2>3 DEF SecretImportable, LockedOut
    <2>4. WriteSecret \/ OperatorEdits \/ UNCHANGED secret
      BY <1>2, NextShape
      DEF ReferencesResolve, Housekeeping, Edit, Mutate, Commit, Rollback, StartEmpty,
          StartImport, Ready, StartupSaveFails, Crash, Exit, vars
    <2> QED
      BY <2>1, <2>2, <2>3, <2>4
  <1> QED
    BY <1>1, <1>2, TypesAndReferences, PTL DEF Spec

-----------------------------------------------------------------------------
(* Refinement.                                                             *)

\* Every behaviour of the store is one of the write-ahead register: readers
\* only ever move to a configuration that is durable at that moment.
THEOREM ReadersAlwaysSeeDurable == Spec => ReadersSeeDurable
  <1> DEFINE stored == IF secret = NoSecret THEN DefaultConfig ELSE secret.config
  <1>1. Init => Storage!Init
    BY DefaultSound DEF Init, Storage!Init
  <1>2. ASSUME TypeOK, ReferencesResolve, Agreement, [Next]_vars, TypeOK'
        PROVE  [Storage!Next]_(Storage!waVars)
    <2>0. stored \in Config /\ stored' \in Config
      BY <1>2, DefaultSound DEF TypeOK, Snapshots
    <2>1. CASE Commit \/ Ready
      <3>0. Snapshot(config) \in Snapshots
        BY <1>2 DEF TypeOK, Snapshot, Snapshots, HasLocalAdmin
      <3>1. secret = Snapshot(config) /\ secret # NoSecret
        BY <1>2, <2>1, <3>0, ConfigAssumption DEF Agreement, Commit, Ready
      <3>2. previous' = secret.config /\ secret' = secret
        BY <2>1, <3>1 DEF Commit, Ready, Release, Snapshot
      <3> QED
        BY <3>1, <3>2 DEF Storage!Next, Storage!Publish
    <2>2. CASE StartEmpty
      BY <2>2 DEF StartEmpty, Storage!Next, Storage!Publish
    <2>3. CASE UNCHANGED previous
      BY <2>0, <2>3 DEF Storage!Next, Storage!Store
    <2>4. Commit \/ Ready \/ StartEmpty \/ UNCHANGED previous
      BY <1>2, NextShape
      DEF ReferencesResolve, Housekeeping, Edit, Mutate, WriteSecret, Rollback,
          StartImport, StartupSaveFails, OperatorEdits, Crash, Exit, vars
    <2> QED
      BY <2>1, <2>2, <2>3, <2>4
  <1> QED
    BY <1>1, <1>2, TypesAndReferences, AlwaysAgrees, PTL
    DEF Spec, ReadersSeeDurable, Storage!Spec

-----------------------------------------------------------------------------
(* Session versions.  An account has one, and a mutation that changes its  *)
(* password moves it.                                                      *)

Numbered(c, v) == \A u \in Users : UserExists(c, u) => v[u] >= 1

Moved ==
    \A u \in Users :
        /\ UserExists(previous, u)
        /\ UserExists(config, u)
        /\ previous.users[u].password # config.users[u].password
        => versions[u] # previousVersions[u]

VersionsMove ==
    /\ Numbered(config, versions)
    /\ Numbered(previous, previousVersions)
    /\ phase \in {"saving", "saved"} => Moved

\* What an operation does to the versions.
OperationMoves ==
    \A u \in Users : UserExists(config', u) =>
        /\ versions'[u] >= 1
        /\ UserExists(config, u) /\ config.users[u].password # config'.users[u].password
               => versions'[u] # versions[u]

\* One account changes, its version with it or its password not at all.
LEMMA AccountMoves ==
  ASSUME TypeOK, Numbered(config, versions), NEW u \in Users,
         NEW a \in Account \cup {NoAccount}, NEW n \in Nat,
         Mutate(WithUser(u, a), WithVersion(u, n)),
         a # NoAccount => n >= 1 /\ (UserExists(config, u) => n # versions[u])
  PROVE  OperationMoves
  <1>1. config' = [config EXCEPT !.users[u] = a] /\ versions' = [versions EXCEPT ![u] = n]
    BY DEF Mutate, WithUser, WithVersion
  <1>2. \A w \in Users : /\ config'.users[w] = IF w = u THEN a ELSE config.users[w]
                         /\ versions'[w] = IF w = u THEN n ELSE versions[w]
    BY <1>1 DEF TypeOK, Config
  <1> QED
    BY <1>2 DEF OperationMoves, Numbered, UserExists

\* No version changes, and no password.
LEMMA OthersMove ==
  ASSUME Numbered(config, versions), versions' = versions,
         \A u \in Users : UserExists(config', u) =>
             UserExists(config, u) /\ config'.users[u].password = config.users[u].password
  PROVE  OperationMoves
  BY DEF OperationMoves, Numbered

LEMMA AccountOperationMoves ==
  ASSUME TypeOK, Sound(config), Numbered(config, versions), AccountOperation
  PROVE  OperationMoves
  <1>0. EnsureDefaults(config) = config
    BY ConfigAssumption DEF TypeOK, Config, Sound, EnsureDefaults
  <1>v. \A u \in Users : versions[u] \in Nat
    BY DEF TypeOK
  <1>n. ASSUME NEW r \in Roles, NEW pw \in Passwords
        PROVE  NewAccount(r, pw) \in Account
    BY DEF NewAccount, Account
  <1>1. ASSUME NEW u \in Users, NEW pw \in Passwords,
               CompleteBootstrap(u, pw) \/ ResetLocalPassword(u, pw)
        PROVE  OperationMoves
    <2>1. PICK a \in Account : Mutate(WithUser(u, a), WithVersion(u, versions[u] + 1))
      <3>1. CASE CompleteBootstrap(u, pw)
        BY <1>0, <1>n, <3>1, ConfigAssumption DEF CompleteBootstrap, WithUser
      <3>2. CASE ResetLocalPassword(u, pw)
        <4>1. config.users[u].role \in Roles
          BY <3>2 DEF ResetLocalPassword, UserExists, TypeOK, Config, Account
        <4> QED
          BY <1>n, <3>2, <4>1 DEF ResetLocalPassword
      <3> QED
        BY <1>1, <3>1, <3>2
    <2>2. versions[u] + 1 \in Nat /\ versions[u] + 1 >= 1 /\ versions[u] + 1 # versions[u]
      BY <1>v
    <2> QED
      BY <2>1, <2>2, AccountMoves
  <1>2. ASSUME NEW u \in Users, NEW pw \in Passwords, NEW r \in Roles, CreateUser(u, pw, r)
        PROVE  OperationMoves
    <2>1. ~UserExists(config, u) /\ Mutate(WithUser(u, NewAccount(r, pw)), WithVersion(u, 1))
      BY <1>2 DEF CreateUser, Taken
    <2> QED
      BY <1>n, <2>1, AccountMoves
  <1>3. ASSUME NEW u \in Users, DeleteUser(u)
        PROVE  OperationMoves
    BY <1>3, AccountMoves DEF DeleteUser
  <1>4. ASSUME NEW u \in Users, NEW r \in Roles, UpdateUserRole(u, r)
        PROVE  OperationMoves
    <2>1. versions' = versions /\ config' = [config EXCEPT !.users[u].role = r]
      BY <1>4 DEF UpdateUserRole, Mutate
    <2>2. config.users[u] \in Account
      BY <1>4 DEF UpdateUserRole, UserExists, TypeOK, Config
    <2>3. \A w \in Users : config'.users[w] = IF w = u THEN [config.users[u] EXCEPT !.role = r]
                                                       ELSE config.users[w]
      BY <2>1 DEF TypeOK, Config
    <2>4. [config.users[u] EXCEPT !.role = r].password = config.users[u].password
      BY <2>2 DEF Account
    <2>5. UserExists(config, u)
      BY <1>4 DEF UpdateUserRole
    <2> QED
      BY <2>1, <2>3, <2>4, <2>5, OthersMove DEF UserExists
  <1>5. CompleteBootstrapRefused => OperationMoves
    BY <1>0, OthersMove DEF CompleteBootstrapRefused
  <1> QED
    BY <1>1, <1>2, <1>3, <1>4, <1>5 DEF AccountOperation

\* Operations on roles and providers leave accounts alone; an import moves every
\* account it brings, and an upgraded hash accepts the same password.
LEMMA OperationsMove ==
  ASSUME TypeOK, Sound(config), Numbered(config, versions), Operation \/ Upgrade
  PROVE  OperationMoves
  <1>v. \A u \in Users : versions[u] \in Nat
    BY DEF TypeOK
  <1>1. ASSUME versions' = versions, config'.users = config.users
        PROVE  OperationMoves
    BY <1>1, OthersMove DEF UserExists
  <1>2. RoleOperation \/ ProviderOperation => versions' = versions /\ config'.users = config.users
    BY DEF RoleOperation, CreateRole, UpdateRole, DeleteRole, ProviderOperation, Configure,
       ResetProvider, SetMapping, RemoveMapping, WithRole, WithMapping, Mutate, TypeOK, Config
  <1>3. ASSUME NEW s \in Uploads, ReplaceConfigSnapshot(s)
        PROVE  OperationMoves
    <2>1. /\ config' = Normalize(s)
          /\ versions' = AppliedVersions(Normalize(s), versions)
      BY <1>3 DEF ReplaceConfigSnapshot, Mutate
    <2>2. \A u \in Users : UserExists(config', u) => versions'[u] = versions[u] + 1
      BY <2>1 DEF AppliedVersions
    <2> QED
      BY <1>v, <2>2 DEF OperationMoves
  <1>4. ASSUME NEW u \in Users, NEW pw \in Passwords, UpgradePasswordHash(u, pw)
        PROVE  OperationMoves
    <2>1. CASE config' = config /\ versions' = versions
      BY <1>1, <2>1
    <2>2. CASE UserExists(config, u) /\ config' = [config EXCEPT !.users[u].current = TRUE]
               /\ versions' = versions
      <3>1. config.users[u] \in Account
        BY <2>2 DEF UserExists, TypeOK, Config
      <3>2. \A w \in Users : config'.users[w] = IF w = u THEN [config.users[u] EXCEPT !.current = TRUE]
                                                         ELSE config.users[w]
        BY <2>2 DEF TypeOK, Config
      <3>3. [config.users[u] EXCEPT !.current = TRUE].password = config.users[u].password
        BY <3>1 DEF Account
      <3> QED
        BY <2>2, <3>2, <3>3, OthersMove DEF UserExists
    <2> QED
      BY <1>4, <2>1, <2>2 DEF UpgradePasswordHash, Mutate
  <1> QED
    BY <1>1, <1>2, <1>3, <1>4, AccountOperationMoves DEF Operation, Import, Upgrade

LEMMA VersionsMoveStep ==
  ASSUME TypeOK, ReferencesResolve, Agreement, VersionsMove, [Next]_vars
  PROVE  VersionsMove'
  <1>1. CASE Operation \/ Upgrade
    <2>1. OperationMoves
      BY <1>1, OperationsMove DEF ReferencesResolve, VersionsMove
    <2>2. Edit \/ UNCHANGED vars
      BY <1>1, AccountOperationEdits, RoleOperationEdits, ProviderOperationEdits, ImportEdits
      DEF Operation, ReferencesResolve
    <2>3. CASE Edit
      <3>1. phase = "idle" /\ UNCHANGED <<previous, previousVersions>>
        BY <2>3 DEF Edit, Mutate
      <3>2. config = previous /\ versions = previousVersions
        BY <3>1 DEF Agreement, FailedSaveLeavesNoTrace
      <3> QED
        BY <2>1, <3>1, <3>2 DEF OperationMoves, VersionsMove, Numbered, Moved
    <2>4. CASE UNCHANGED vars
      BY <2>4 DEF vars, VersionsMove, Numbered, Moved
    <2> QED
      BY <2>2, <2>3, <2>4
  <1>2. CASE WriteSecret
    BY <1>2 DEF WriteSecret, VersionsMove, Numbered, Moved
  <1>3. CASE Commit \/ Ready \/ Rollback
    BY <1>3 DEF Commit, Ready, Rollback, Release, VersionsMove, Numbered
  <1>4. \A u \in Users : ~UserExists(DefaultConfig, u)
    BY DEF UserExists, DefaultConfig
  <1>5. CASE StartEmpty \/ StartupSaveFails \/ Crash
    BY <1>4, <1>5 DEF StartEmpty, StartupSaveFails, Crash, Exit, VersionsMove, Numbered
  <1>6. CASE StartImport
    <2>1. secret \in Snapshots /\ Importable(secret)
      BY <1>6 DEF StartImport, TypeOK
    <2>2. EnsureDefaults(Normalize(secret)) = Normalize(secret)
      BY <2>1, ImportSound
    <2>3. /\ config' = Normalize(secret)
          /\ versions' = AppliedVersions(Normalize(secret), NoVersions)
          /\ phase' = "starting" /\ UNCHANGED <<previous, previousVersions>>
      BY <1>6, <2>2 DEF StartImport
    <2>4. \A u \in Users : UserExists(config', u) => versions'[u] = 1
      BY <2>3 DEF AppliedVersions, NoVersions
    <2> QED
      BY <2>3, <2>4 DEF VersionsMove, Numbered
  <1>7. CASE OperatorEdits
    BY <1>7 DEF OperatorEdits, VersionsMove, Numbered
  <1>8. CASE UNCHANGED vars
    BY <1>8 DEF vars, VersionsMove, Numbered, Moved
  <1> QED
    BY <1>1, <1>2, <1>3, <1>5, <1>6, <1>7, <1>8 DEF Next, Housekeeping

LEMMA VersionsAlwaysMove == Spec => []VersionsMove
  <1>1. Init => VersionsMove
    BY DEF Init, VersionsMove, Numbered, DefaultConfig, UserExists
  <1> QED
    BY <1>1, VersionsMoveStep, TypesAndReferences, AlwaysAgrees, PTL DEF Spec

-----------------------------------------------------------------------------
(* Signing in takes the store through its own steps.                       *)

LEMMA SessionStepOfStore ==
  ASSUME SessionTypeOK, [SessionNext]_allVars
  PROVE  [Next]_vars
  <1>1. ASSUME NEW c \in Clients, UpgradeHash(c)
        PROVE  Upgrade
    <2>1. signIns[c] \in SignIn /\ signIns[c].step = "outdated"
      BY <1>1 DEF SessionTypeOK, UpgradeHash
    <2>2. signIns[c].user \in Users /\ signIns[c].password \in Passwords
      BY <2>1 DEF SignIn
    <2> QED
      BY <1>1, <2>2 DEF UpgradeHash, Upgrade
  <1>2. LoginStep => Upgrade \/ UNCHANGED vars
    BY <1>1 DEF LoginStep, StartLogin, Verify, CreateSession, NewSessionToken, Stamp, StoreSession
  <1>3. SessionStep \/ Tick => UNCHANGED vars
    BY DEF SessionStep, Logout, SweepCheck, SweepDelete, Tick
  <1>4. ConfigStep => Operation \/ Housekeeping
    BY DEF ConfigStep, Housekeeping
  <1>5. ProcessEnds => Crash \/ Housekeeping
    BY DEF ProcessEnds, Housekeeping
  <1>6. UNCHANGED allVars => UNCHANGED vars
    BY DEF allVars
  <1> QED
    BY <1>2, <1>3, <1>4, <1>5, <1>6 DEF SessionNext, Next

\* What CreateSession reads makes a token.
LEMMA AccountRead ==
  ASSUME SessionTypeOK, NEW c \in Clients, CreateSession(c), UserExists(config, signIns[c].user)
  PROVE  \E u \in Users, r \in Roles, n \in 1..MaxVersion :
             /\ UserExists(config, u) /\ n = AtLeastOne(versions[u])
             /\ Move(c, [step |-> "read", user |-> u, role |-> r, version |-> n,
                         disturbed |-> FALSE])
  <1>1. signIns[c] \in SignIn /\ signIns[c].step = "verified"
    BY DEF SessionTypeOK, CreateSession
  <1>2. PICK u \in Users : u = signIns[c].user
    BY <1>1 DEF SignIn
  <1>3. config.users[u] \in Account
    BY <1>2 DEF UserExists, SessionTypeOK, TypeOK, Config
  <1>4. AtLeastOne(versions[u]) \in 1..MaxVersion
    <2>1. versions[u] \in 0..MaxVersion /\ MaxVersion \in Nat \ {0}
      BY ConfigAssumption DEF SessionTypeOK, TypeOK
    <2> QED
      BY <2>1 DEF AtLeastOne
  <1>5. config.users[u].role \in Roles
    BY <1>3 DEF Account
  <1> QED
    BY <1>2, <1>4, <1>5 DEF CreateSession

\* The steps of a login between two publications, without a lock: the clock, the store
\* and the sweeper stand still.
LEMMA LoginLeaves ==
  ASSUME SessionTypeOK, LoginStep
  PROVE  UNCHANGED <<now, sweeping, previous, previousVersions>>
  BY DEF LoginStep, StartLogin, Verify, UpgradeHash, UpgradePasswordHash, Mutate, CreateSession,
     NewSessionToken, Stamp, StoreSession, vars

\* A step issues a token, touches the records in no way that adds one, or is of the
\* sweeper.
LEMMA SessionTypeStep ==
  ASSUME SessionTypeOK, ReferencesResolve, [SessionNext]_allVars
  PROVE  SessionTypeOK' /\ ReferencesResolve'
  <1>1. TypeOK' /\ ReferencesResolve'
    BY SessionStepOfStore, TypesAndReferencesStep DEF SessionTypeOK
  <1>2. NoSignIn \in SignIn /\ NoToken \in Token \cup {NoToken}
    BY DEF NoSignIn, SignIn
  <1>3. ASSUME NEW c \in Clients, NEW s \in SignIn, Move(c, s)
        PROVE  signIns' \in [Clients -> SignIn]
    BY <1>3 DEF Move, SessionTypeOK
  <1>4. CASE LoginStep
    <2>1. PICK c \in Clients : \/ \E u \in Users, pw \in Passwords : StartLogin(c, u, pw)
                               \/ Verify(c)
                               \/ UpgradeHash(c)
                               \/ CreateSession(c)
                               \/ NewSessionToken(c)
                               \/ StoreSession(c)
      BY <1>4 DEF LoginStep
    <2>2. signIns[c] \in SignIn
      BY DEF SessionTypeOK
    <2>3. CASE \E u \in Users, pw \in Passwords : StartLogin(c, u, pw)
      <3>1. PICK u \in Users, pw \in Passwords : StartLogin(c, u, pw)
        BY <2>3
      <3>2. [step |-> "admitted", user |-> u, password |-> pw] \in SignIn
        BY DEF SignIn
      <3>3. signIns' \in [Clients -> SignIn]
        BY <1>3, <3>1, <3>2 DEF StartLogin
      <3> QED
        BY <1>1, <3>1, <3>3 DEF StartLogin, SessionTypeOK
    <2>4. CASE Verify(c)
      <3>1. \A s \in {"verified", "outdated"} : [signIns[c] EXCEPT !.step = s] \in SignIn
        BY <2>2, <2>4 DEF Verify, SignIn
      <3>2. \E s \in SignIn : Move(c, s)
        BY <1>2, <2>4, <3>1 DEF Verify
      <3> QED
        BY <1>1, <1>3, <2>4, <3>2 DEF Verify, SessionTypeOK
    <2>5. CASE UpgradeHash(c)
      <3>1. [signIns[c] EXCEPT !.step = "verified"] \in SignIn
        BY <2>2, <2>5 DEF UpgradeHash, SignIn
      <3>2. signIns' \in [Clients -> SignIn]
        BY <1>3, <2>5, <3>1 DEF UpgradeHash
      <3> QED
        BY <1>1, <2>5, <3>2 DEF UpgradeHash, SessionTypeOK
    <2>6. CASE CreateSession(c)
      <3>1. \E t \in SignIn : Move(c, t)
        <4>1. CASE UserExists(config, signIns[c].user)
          BY <2>6, <4>1, AccountRead DEF SignIn
        <4>2. CASE ~UserExists(config, signIns[c].user)
          BY <1>2, <2>6, <4>2 DEF CreateSession
        <4> QED
          BY <4>1, <4>2
      <3>2. signIns' \in [Clients -> SignIn]
        BY <1>3, <3>1
      <3> QED
        BY <1>1, <2>6, <3>2 DEF CreateSession, SessionTypeOK
    <2>7. CASE NewSessionToken(c)
      <3>1. PICK t \in Token : /\ t = TokenAt(signIns[c], now)
                               /\ [step |-> "stamped", token |-> t,
                                   disturbed |-> signIns[c].disturbed] \in SignIn
        BY <2>2, <2>7 DEF NewSessionToken, Stamp, TokenAt, Token, SignIn, SessionTypeOK
      <3>2. signIns' \in [Clients -> SignIn] /\ ended' \subseteq ended
        BY <1>3, <2>7, <3>1 DEF NewSessionToken, Stamp
      <3> QED
        BY <1>1, <2>7, <3>2 DEF NewSessionToken, Stamp, SessionTypeOK
    <2>8. CASE StoreSession(c)
      <3>1. signIns[c].token \in Token
        BY <2>2, <2>8 DEF StoreSession, SignIn
      <3>2. signIns' \in [Clients -> SignIn]
        BY <1>2, <1>3, <2>8 DEF StoreSession
      <3> QED
        BY <1>1, <2>8, <3>1, <3>2 DEF StoreSession, SessionTypeOK
    <2> QED
      BY <2>1, <2>3, <2>4, <2>5, <2>6, <2>7, <2>8
  <1>5. CASE SessionStep
    BY <1>1, <1>5 DEF SessionStep, Logout, SweepCheck, SweepDelete, SessionTypeOK
  <1>6. CASE Tick
    <2>1. now' \in 0..MaxTime
      BY <1>6, SessionAssumption DEF Tick, SessionTypeOK
    <2> QED
      BY <1>1, <1>6, <2>1 DEF Tick, SessionTypeOK
  <1>7. CASE ConfigStep
    <2>1. \A s \in SignIn : Marked(s) \in SignIn
      BY DEF Marked, SignIn
    <2>2. signIns' \in [Clients -> SignIn]
      BY <1>7, <2>1 DEF ConfigStep, SessionTypeOK
    <2> QED
      BY <1>1, <1>7, <2>2 DEF ConfigStep, SessionTypeOK
  <1>8. CASE ProcessEnds
    BY <1>1, <1>2, <1>8 DEF ProcessEnds, SessionTypeOK
  <1>9. CASE UNCHANGED allVars
    BY <1>1, <1>9 DEF allVars, sessionVars, SessionTypeOK
  <1> QED
    BY <1>4, <1>5, <1>6, <1>7, <1>8, <1>9 DEF SessionNext

LEMMA SessionTypes == SessionSpec => [](SessionTypeOK /\ ReferencesResolve)
  <1>1. Init => TypeOK /\ ReferencesResolve
    BY TypesInitially
  <1>2. SessionInit => SessionTypeOK /\ ReferencesResolve
    <2>1. NoSignIn \in SignIn
      BY DEF NoSignIn, SignIn
    <2> QED
      BY <1>1, <2>1, SessionAssumption DEF SessionInit, SessionTypeOK
  <1> QED
    BY <1>2, SessionTypeStep, PTL DEF SessionSpec

\* The variables of sign-in and sessions stay in their types.
THEOREM SessionTypeCorrect == SessionSpec => []SessionTypeOK
  BY SessionTypes, PTL

\* With sign-ins, logouts, the sweep and the clock beside it the store does what it
\* does alone: every theorem about it holds of the two together.
THEOREM SessionsKeepTheStore == SessionSpec => Spec
  <1>1. SessionInit => Init
    BY DEF SessionInit
  <1> QED
    BY <1>1, SessionStepOfStore, SessionTypes, PTL DEF SessionSpec, Spec

LEMMA StoreUnderSessions == SessionSpec => [](Agreement /\ VersionsMove)
  BY SessionsKeepTheStore, AlwaysAgrees, VersionsAlwaysMove, PTL

-----------------------------------------------------------------------------
(* What becomes of the records.                                            *)

\* A token that was logged out is not live and no sign-in is about to store it.
EndedOut ==
    \A t \in ended :
        /\ t \notin sessions \ revoked
        /\ \A c \in Clients : signIns[c].step = "stamped" => signIns[c].token # t

LEMMA EndedStep ==
  ASSUME SessionTypeOK, EndedOut, [SessionNext]_allVars
  PROVE  EndedOut'
  <1> USE DEF EndedOut
  <1>0. NoSignIn.step # "stamped"
    BY DEF NoSignIn
  <1>m. ASSUME NEW c \in Clients, NEW s, Move(c, s)
        PROVE  \A d \in Clients : signIns'[d] = IF d = c THEN s ELSE signIns[d]
    BY <1>m DEF Move, SessionTypeOK
  <1>1. ASSUME NEW c \in Clients, NEW s, Move(c, s), s.step # "stamped",
               UNCHANGED <<sessions, revoked, ended>>
        PROVE  EndedOut'
    BY <1>1, <1>m
  <1>2. CASE LoginStep
    <2>1. PICK c \in Clients : \/ \E u \in Users, pw \in Passwords : StartLogin(c, u, pw)
                               \/ Verify(c)
                               \/ UpgradeHash(c)
                               \/ CreateSession(c)
                               \/ NewSessionToken(c)
                               \/ StoreSession(c)
      BY <1>2 DEF LoginStep
    <2>2. signIns[c] \in SignIn
      BY DEF SessionTypeOK
    <2>3. CASE \E u \in Users, pw \in Passwords : StartLogin(c, u, pw)
      BY <1>1, <2>3 DEF StartLogin
    <2>4. CASE Verify(c)
      <3>1. \E s : Move(c, s) /\ s.step # "stamped"
        BY <1>0, <2>2, <2>4 DEF Verify, SignIn
      <3> QED
        BY <1>1, <2>4, <3>1 DEF Verify
    <2>5. CASE UpgradeHash(c)
      <3>1. \E s : Move(c, s) /\ s.step # "stamped"
        BY <2>2, <2>5 DEF UpgradeHash, SignIn
      <3> QED
        BY <1>1, <2>5, <3>1 DEF UpgradeHash
    <2>6. CASE CreateSession(c)
      <3>1. \E s : Move(c, s) /\ s.step # "stamped"
        BY <1>0, <2>6 DEF CreateSession
      <3> QED
        BY <1>1, <2>6, <3>1 DEF CreateSession
    <2>7. CASE NewSessionToken(c)
      <3>1. PICK t : /\ t = TokenAt(signIns[c], now)
                     /\ Move(c, [step |-> "stamped", token |-> t, disturbed |-> signIns[c].disturbed])
                     /\ ended' = ended \ {t}
        BY <2>7 DEF NewSessionToken, Stamp, TokenAt
      <3>2. UNCHANGED <<sessions, revoked>>
        BY <2>7 DEF NewSessionToken, Stamp
      <3> QED
        BY <1>m, <3>1, <3>2
    <2>8. CASE StoreSession(c)
      BY <1>0, <1>m, <2>8 DEF StoreSession
    <2> QED
      BY <2>1, <2>3, <2>4, <2>5, <2>6, <2>7, <2>8
  <1>3. CASE SessionStep
    BY <1>3 DEF SessionStep, Logout, SweepCheck, SweepDelete
  <1>4. CASE ConfigStep
    <2>1. \A s \in SignIn : /\ Marked(s).step = s.step
                            /\ s.step = "stamped" => Marked(s).token = s.token
      BY DEF Marked, SignIn
    <2> QED
      BY <1>4, <2>1 DEF ConfigStep, SessionTypeOK
  <1>5. CASE ProcessEnds
    BY <1>5 DEF ProcessEnds
  <1>6. CASE Tick \/ UNCHANGED allVars
    BY <1>6 DEF Tick, allVars, sessionVars
  <1> QED
    BY <1>2, <1>3, <1>4, <1>5, <1>6 DEF SessionNext

\* A logged-out token stays out (revokeSession, sweepSessions), unless newSessionToken
\* makes the same token for another sign-in of the same tick.
THEOREM LoggedOutAlwaysStaysOut == SessionSpec => []LoggedOutStaysOut
  <1>1. SessionInit => EndedOut
    BY DEF SessionInit, EndedOut
  <1>2. EndedOut => LoggedOutStaysOut
    BY DEF EndedOut, LoggedOutStaysOut
  <1> QED
    BY <1>1, <1>2, EndedStep, SessionTypes, PTL DEF SessionSpec

\* A sign-in whose account nobody deleted or moved to another version since it was read
\* holds what will be accepted.
UndisturbedHonoured ==
    \A c \in Clients :
        /\ signIns[c].step = "read" /\ ~signIns[c].disturbed
               => Honours(signIns[c].user, signIns[c].version)
        /\ signIns[c].step = "stamped" /\ ~signIns[c].disturbed
               => Honours(signIns[c].token.user, signIns[c].token.version)

LEMMA UndisturbedStep ==
  ASSUME SessionTypeOK, ReferencesResolve, ReferencesResolve', Agreement, UndisturbedHonoured,
         [SessionNext]_allVars
  PROVE  UndisturbedHonoured'
  <1> USE DEF UndisturbedHonoured
  <1>0. NoSignIn.step = "none"
    BY DEF NoSignIn
  <1>m. ASSUME NEW c \in Clients, NEW s, Move(c, s)
        PROVE  \A d \in Clients : signIns'[d] = IF d = c THEN s ELSE signIns[d]
    BY <1>m DEF Move, SessionTypeOK
  <1>h. ASSUME UNCHANGED <<previous, previousVersions>>, NEW u, NEW n
        PROVE  Honours(u, n)' = Honours(u, n)
    BY <1>h DEF Honours, UserExists, RoleExists
  <1>1. ASSUME NEW c \in Clients, NEW s, Move(c, s), s.step \notin {"read", "stamped"},
               UNCHANGED <<previous, previousVersions>>
        PROVE  UndisturbedHonoured'
    BY <1>1, <1>m, <1>h
  <1>2. CASE LoginStep
    <2>1. PICK c \in Clients : \/ \E u \in Users, pw \in Passwords : StartLogin(c, u, pw)
                               \/ Verify(c)
                               \/ UpgradeHash(c)
                               \/ CreateSession(c)
                               \/ NewSessionToken(c)
                               \/ StoreSession(c)
      BY <1>2 DEF LoginStep
    <2>2. signIns[c] \in SignIn /\ UNCHANGED <<previous, previousVersions>>
      BY <1>2, LoginLeaves DEF SessionTypeOK
    <2>3. CASE \E u \in Users, pw \in Passwords : StartLogin(c, u, pw)
      BY <1>1, <2>2, <2>3 DEF StartLogin
    <2>4. CASE Verify(c)
      <3>1. \E s : Move(c, s) /\ s.step \notin {"read", "stamped"}
        BY <1>0, <2>2, <2>4 DEF Verify, SignIn
      <3> QED
        BY <1>1, <2>2, <3>1
    <2>5. CASE UpgradeHash(c)
      <3>1. \E s : Move(c, s) /\ s.step \notin {"read", "stamped"}
        BY <2>2, <2>5 DEF UpgradeHash, SignIn
      <3> QED
        BY <1>1, <2>2, <3>1
    <2>6. CASE CreateSession(c)
      <3>1. CASE ~UserExists(config, signIns[c].user)
        BY <1>0, <1>1, <2>2, <2>6, <3>1 DEF CreateSession
      <3>2. CASE UserExists(config, signIns[c].user)
        <4>1. PICK u \in Users, r \in Roles, n \in 1..MaxVersion :
                  /\ UserExists(config, u) /\ n = AtLeastOne(versions[u])
                  /\ Move(c, [step |-> "read", user |-> u, role |-> r, version |-> n,
                              disturbed |-> FALSE])
          BY <2>6, <3>2, AccountRead
        <4>2. previous = config /\ previousVersions = versions
          BY <2>6 DEF CreateSession, Agreement, FailedSaveLeavesNoTrace
        <4>3. Honours(u, n)
          BY <4>1, <4>2 DEF Honours, ReferencesResolve, Sound
        <4> QED
          BY <1>m, <1>h, <2>2, <4>1, <4>3
      <3> QED
        BY <3>1, <3>2
    <2>7. CASE NewSessionToken(c)
      <3>1. PICK t : /\ t = TokenAt(signIns[c], now)
                     /\ Move(c, [step |-> "stamped", token |-> t, disturbed |-> signIns[c].disturbed])
        BY <2>7 DEF NewSessionToken, Stamp, TokenAt
      <3>2. t.user = signIns[c].user /\ t.version = signIns[c].version /\ signIns[c].step = "read"
        BY <2>7, <3>1 DEF NewSessionToken, Stamp, TokenAt
      <3> QED
        BY <1>m, <1>h, <2>2, <3>1, <3>2
    <2>8. CASE StoreSession(c)
      BY <1>0, <1>1, <2>2, <2>8 DEF StoreSession
    <2> QED
      BY <2>1, <2>3, <2>4, <2>5, <2>6, <2>7, <2>8
  <1>3. CASE ConfigStep
    <2>0. signIns \in [Clients -> SignIn] /\ signIns' = [c \in Clients |-> Marked(signIns[c])]
      BY <1>3 DEF ConfigStep, SessionTypeOK
    <2>1. ASSUME NEW u \in Users, NEW n, Honours(u, n), ~Disturbs(u)
          PROVE  Honours(u, n)'
      <3>1. UserExists(previous', u) /\ previousVersions'[u] = previousVersions[u]
        BY <2>1 DEF Disturbs, Honours
      <3>2. RoleExists(previous', previous'.users[u].role)
        BY <3>1 DEF ReferencesResolve, Sound, RoleExists, UserExists
      <3> QED
        BY <2>1, <3>1, <3>2 DEF Honours, AtLeastOne, RoleExists, UserExists
    <2>2. ASSUME NEW c \in Clients, signIns[c].step = "read", ~Marked(signIns[c]).disturbed
          PROVE  /\ ~signIns[c].disturbed /\ ~Disturbs(signIns[c].user)
                 /\ Marked(signIns[c]) = signIns[c] /\ signIns[c].user \in Users
      BY <2>0, <2>2 DEF Marked, SignIn
    <2>3. ASSUME NEW c \in Clients, signIns[c].step = "stamped", ~Marked(signIns[c]).disturbed
          PROVE  /\ ~signIns[c].disturbed /\ ~Disturbs(signIns[c].token.user)
                 /\ Marked(signIns[c]) = signIns[c] /\ signIns[c].token.user \in Users
      BY <2>0, <2>3 DEF Marked, SignIn, Token
    <2>4. \A c \in Clients : Marked(signIns[c]).step = signIns[c].step
      BY <2>0 DEF Marked, SignIn
    <2> QED
      BY <2>0, <2>1, <2>2, <2>3, <2>4
  <1>4. CASE ProcessEnds
    BY <1>0, <1>4 DEF ProcessEnds
  <1>5. CASE SessionStep \/ Tick \/ UNCHANGED allVars
    BY <1>h, <1>5 DEF SessionStep, Logout, SweepCheck, SweepDelete, Tick, allVars, sessionVars, vars
  <1> QED
    BY <1>2, <1>3, <1>4, <1>5 DEF SessionNext

\* A token is accepted when its record is stored, although VerifyLocalCredentials,
\* CreateSession and issueSessionToken read and write at four moments, unless it expired
\* or its account was deleted or moved to another version in between.
THEOREM NoneStillborn == SessionSpec => NoStillbornSession
  <1>1. SessionInit => UndisturbedHonoured
    BY DEF SessionInit, UndisturbedHonoured, NoSignIn
  <1>2. ASSUME SessionTypeOK, UndisturbedHonoured, NEW c \in Clients, NEW t \in sessions',
               StoreSession(c), signIns[c].token = t, ~signIns[c].disturbed, Fresh(t)
        PROVE  Accepts(t)'
    <2>1. Honours(t.user, t.version) /\ UNCHANGED <<now, previous, previousVersions>>
      BY <1>2 DEF StoreSession, UndisturbedHonoured, vars
    <2>2. t \in sessions' \ revoked'
      BY <1>2 DEF StoreSession
    <2> QED
      BY <1>2, <2>1, <2>2 DEF Accepts, Fresh, Honours, UserExists, RoleExists
  <1>3. SessionTypeOK /\ UndisturbedHonoured /\ [SessionNext]_allVars =>
            [\A c \in Clients, t \in sessions' :
                /\ StoreSession(c)
                /\ signIns[c].token = t
                /\ ~signIns[c].disturbed
                /\ Fresh(t)
                => Accepts(t)']_allVars
    BY <1>2
  <1>4. SessionTypeOK /\ (ReferencesResolve /\ ReferencesResolve') /\ Agreement
            /\ UndisturbedHonoured /\ [SessionNext]_allVars => UndisturbedHonoured'
    BY UndisturbedStep
  <1> QED
    BY <1>1, <1>3, <1>4, SessionTypes, StoreUnderSessions, PTL DEF SessionSpec, NoStillbornSession

\* An upgrade of an outdated hash (VerifyLocalCredentials) keeps the password the
\* account has by then.
THEOREM UpgradeAlwaysKeepsPassword == SessionSpec => UpgradeKeepsPassword
  <1>1. ASSUME SessionTypeOK, NEW c \in Clients, NEW u \in Users, UpgradeHash(c), UserExists(config, u)
        PROVE  config'.users[u].password = config.users[u].password
    <2>1. PICK v, pw : UpgradePasswordHash(v, pw)
      BY <1>1 DEF UpgradeHash
    <2>2. config' = config \/ config' = [config EXCEPT !.users[v].current = TRUE]
      BY <2>1 DEF UpgradePasswordHash, Mutate
    <2>3. config.users[u] \in Account /\ config \in Config
      BY <1>1 DEF UserExists, SessionTypeOK, TypeOK, Config
    <2>4. CASE config' = config
      BY <2>4
    <2>5. CASE config' = [config EXCEPT !.users[v].current = TRUE]
      <3>1. config'.users[u] \in {config.users[u], [config.users[u] EXCEPT !.current = TRUE]}
        BY <2>3, <2>5 DEF Config
      <3> QED
        BY <2>3, <3>1 DEF Account
    <2> QED
      BY <2>2, <2>4, <2>5
  <1>2. SessionTypeOK /\ [SessionNext]_allVars =>
            [\A c \in Clients, u \in Users :
                /\ UpgradeHash(c)
                /\ UserExists(config, u)
                => config'.users[u].password = config.users[u].password]_allVars
    BY <1>1
  <1> QED
    BY <1>2, SessionTypes, PTL DEF SessionSpec, UpgradeKeepsPassword

-----------------------------------------------------------------------------
(* Sessions end.                                                           *)

SessionsWhileServing ==
    ~Serving => sessions = {} /\ \A c \in Clients : signIns[c].step = "none"

LEMMA ServingStep ==
  ASSUME SessionTypeOK, SessionsWhileServing, [SessionNext]_allVars
  PROVE  SessionsWhileServing'
  <1> USE DEF SessionsWhileServing, Serving
  <1>1. CASE LoginStep
    <2>1. Serving
      BY <1>1 DEF LoginStep, StartLogin, Verify, UpgradeHash, CreateSession, NewSessionToken, Stamp,
         StoreSession
    <2>2. Serving'
      BY <1>1, <2>1 DEF LoginStep, StartLogin, Verify, UpgradeHash, UpgradePasswordHash, Mutate,
         CreateSession, NewSessionToken, Stamp, StoreSession, vars
    <2> QED
      BY <2>2
  <1>2. CASE SessionStep \/ Tick
    BY <1>2 DEF SessionStep, Logout, SweepCheck, SweepDelete, Tick, vars
  <1>3. CASE ProcessEnds
    BY <1>3 DEF ProcessEnds, NoSignIn
  <1>4. CASE ConfigStep
    <2>1. sessions' = sessions /\ signIns' = [c \in Clients |-> Marked(signIns[c])]
      BY <1>4 DEF ConfigStep
    <2>2. \A c \in Clients : signIns[c].step = "none" => signIns'[c].step = "none"
      BY <2>1 DEF Marked, SessionTypeOK
    <2>3. Operation => phase = "idle" /\ phase' \in {"idle", "saving"}
      BY DEF Operation, AccountOperation, RoleOperation, ProviderOperation, Import,
         CompleteBootstrap, CompleteBootstrapRefused, CreateUser, UpdateUserRole,
         ResetLocalPassword, DeleteUser, CreateRole, UpdateRole, DeleteRole, SetMapping,
         RemoveMapping, Configure, ResetProvider, ReplaceConfigSnapshot, Mutate
    <2>4. WriteSecret \/ Commit \/ Rollback \/ StartEmpty \/ StartImport \/ Ready \/ OperatorEdits
              => phase \in {"down", "starting", "restored"} \/ phase' \in {"idle", "saving", "saved"}
      BY DEF WriteSecret, Commit, Rollback, StartEmpty, StartImport, Ready, Release, OperatorEdits
    <2> QED
      BY <1>4, <2>1, <2>2, <2>3, <2>4 DEF ConfigStep
  <1>5. CASE UNCHANGED allVars
    BY <1>5 DEF allVars, vars, sessionVars
  <1> QED
    BY <1>1, <1>2, <1>3, <1>4, <1>5 DEF SessionNext

LEMMA AlwaysWhileServing == SessionSpec => []SessionsWhileServing
  <1>1. SessionInit => SessionsWhileServing
    BY DEF SessionInit, SessionsWhileServing, NoSignIn
  <1> QED
    BY <1>1, ServingStep, SessionTypes, PTL DEF SessionSpec

\* Who is held is an account and one of its versions; nobody is while no process serves.
LEMMA HeldAccounts ==
  ASSUME SessionTypeOK, SessionsWhileServing
  PROVE  Held \subseteq Users \X Nat /\ (~Serving => Held = {})
  <1>1. \A c \in Clients : signIns[c] \in SignIn
    BY DEF SessionTypeOK
  <1>2. ASSUME NEW h \in Held
        PROVE  h \in Users \X Nat
    <2>1. CASE \E t \in sessions : h = <<t.user, t.version>>
      BY <2>1, ConfigAssumption DEF SessionTypeOK, Token
    <2>2. CASE \E c \in Clients : signIns[c].step = "read" /\ h = <<signIns[c].user, signIns[c].version>>
      BY <1>1, <2>2, ConfigAssumption DEF SignIn
    <2>3. CASE \E c \in Clients : /\ signIns[c].step = "stamped"
                                  /\ h = <<signIns[c].token.user, signIns[c].token.version>>
      BY <1>1, <2>3, ConfigAssumption DEF SignIn, Token
    <2> QED
      BY <2>1, <2>2, <2>3 DEF Held
  <1>3. ~Serving => Held = {}
    BY DEF SessionsWhileServing, Held
  <1> QED
    BY <1>2, <1>3

\* A password change that is published ends every session of its account, stored or in
\* the making: the version moved with the password, and a token bears the version it
\* was read with.
THEOREM PasswordChangeAlwaysEndsSessions == SessionSpec => PasswordChangeEndsLiveSessions
  <1> DEFINE Ends == \A h \in Held :
                         /\ Honours(h[1], h[2])
                         /\ Honours(h[1], h[2])'
                         => previous.users[h[1]].password = previous'.users[h[1]].password
  <1>1. ASSUME SessionTypeOK, ReferencesResolve, VersionsMove, SessionsWhileServing, SessionNext
        PROVE  Ends
    <2>1. CASE UNCHANGED previous
      BY <2>1
    <2>2. CASE ~Serving
      BY <1>1, <2>2, HeldAccounts
    <2>3. CASE Commit
      <3>1. /\ previous' = config /\ previousVersions' = versions
            /\ Moved /\ Numbered(config, versions) /\ Numbered(previous, previousVersions)
        BY <1>1, <2>3 DEF Commit, Release, VersionsMove
      <3> SUFFICES ASSUME NEW h \in Held, Honours(h[1], h[2]), Honours(h[1], h[2])',
                          previous.users[h[1]].password # previous'.users[h[1]].password
                   PROVE  FALSE
        OBVIOUS
      <3>2. h \in Users \X Nat
        BY <1>1, HeldAccounts
      <3> DEFINE u == h[1]
      <3>3. u \in Users
        BY <3>2
      <3>4. /\ UserExists(previous, u) /\ UserExists(config, u)
            /\ AtLeastOne(previousVersions[u]) = AtLeastOne(versions[u])
        BY <3>1 DEF Honours, UserExists
      <3>5. previousVersions[u] \in Nat /\ versions[u] \in Nat
        BY <1>1, <3>3 DEF SessionTypeOK, TypeOK
      <3>6. previousVersions[u] >= 1 /\ versions[u] >= 1
        BY <3>1, <3>3, <3>4 DEF Numbered
      <3>7. previousVersions[u] = versions[u]
        BY <3>4, <3>5, <3>6 DEF AtLeastOne
      <3> QED
        BY <3>1, <3>3, <3>4, <3>7 DEF Moved
    <2>4. Commit \/ ~Serving \/ UNCHANGED previous
      <3>1. [Next]_vars
        BY <1>1, SessionStepOfStore
      <3> QED
        BY <1>1, <3>1, NextShape
        DEF SessionTypeOK, ReferencesResolve, Housekeeping, Edit, Mutate, WriteSecret, Rollback,
            StartEmpty, StartImport, Ready, StartupSaveFails, OperatorEdits, Crash, Exit, vars,
            Serving
    <2> QED
      BY <2>1, <2>2, <2>3, <2>4
  <1>2. SessionTypeOK /\ ReferencesResolve /\ VersionsMove /\ SessionsWhileServing
            /\ [SessionNext]_allVars => [Ends]_allVars
    BY <1>1
  <1> QED
    BY <1>2, SessionTypes, StoreUnderSessions, AlwaysWhileServing, PTL
    DEF SessionSpec, PasswordChangeEndsLiveSessions

-----------------------------------------------------------------------------
(* The sweeper.                                                            *)

\* Between its look at a record and the deletion only a sign-in in the tick of the
\* logout makes the record usable again.
SweeperHoldsStale ==
    sweeping # NoToken =>
        /\ sweeping \in sessions
        /\ sweeping \in revoked \/ sweeping \in reissued \/ ~Fresh(sweeping)

LEMMA SweeperStep ==
  ASSUME SessionTypeOK, SweeperHoldsStale, [SessionNext]_allVars
  PROVE  SweeperHoldsStale'
  <1> USE DEF SweeperHoldsStale
  <1>0. ASSUME now' \in {now, now + 1}, sweeping' = sweeping, sweeping # NoToken,
               ~Fresh(sweeping)
        PROVE  ~Fresh(sweeping)'
    <2>1. sweeping \in Token /\ now \in Nat
      BY <1>0, SessionAssumption DEF SessionTypeOK
    <2>2. sweeping.iat \in Nat /\ TTL \in Nat
      BY <2>1, SessionAssumption DEF Token
    <2> QED
      BY <1>0, <2>1, <2>2 DEF Fresh
  <1>1. ASSUME UNCHANGED <<sweeping, sessions, revoked, reissued>>, now' \in {now, now + 1}
        PROVE  SweeperHoldsStale'
    BY <1>0, <1>1
  <1>2. CASE LoginStep
    <2>1. now' = now /\ sweeping' = sweeping
      BY <1>2, LoginLeaves
    <2>2. \/ UNCHANGED <<sessions, revoked, reissued>>
          \/ \E c \in Clients : StoreSession(c)
      BY <1>2 DEF LoginStep, StartLogin, Verify, UpgradeHash, CreateSession, NewSessionToken, Stamp
    <2>3. CASE \E c \in Clients : StoreSession(c)
      BY <1>0, <2>1, <2>3 DEF StoreSession
    <2> QED
      BY <1>1, <2>1, <2>2, <2>3
  <1>3. CASE \E t \in sessions : Logout(t)
    BY <1>0, <1>3 DEF Logout
  <1>4. CASE \E t \in sessions : SweepCheck(t)
    BY <1>4 DEF SweepCheck, Fresh
  <1>5. CASE SweepDelete \/ ProcessEnds
    BY <1>5 DEF SweepDelete, ProcessEnds
  <1>6. CASE Tick \/ ConfigStep \/ UNCHANGED allVars
    BY <1>1, <1>6 DEF Tick, ConfigStep, sessionVars, allVars
  <1> QED
    BY <1>2, <1>3, <1>4, <1>5, <1>6 DEF SessionNext, SessionStep

\* The hourly sweep ends no session a client could still use, save one issued again
\* in the tick of its logout.
THEOREM SweepAlwaysSpares == SessionSpec => SweepSparesLiveSessions
  <1>1. SessionInit => SweeperHoldsStale
    BY DEF SessionInit, SweeperHoldsStale
  <1>2. ASSUME SweeperHoldsStale, SweepDelete, NEW t \in Token, Accepts(t), ~Accepts(t)'
        PROVE  t \in reissued
    <2>1. UNCHANGED <<now, previous, previousVersions>>
      BY <1>2 DEF SweepDelete, vars
    <2>2. t = sweeping
      BY <1>2, <2>1 DEF SweepDelete, Accepts, Honours, Fresh, UserExists, RoleExists
    <2>3. t \notin revoked /\ Fresh(t) /\ sweeping # NoToken
      BY <1>2 DEF Accepts, SweepDelete
    <2> QED
      BY <1>2, <2>2, <2>3 DEF SweeperHoldsStale
  <1>3. SweeperHoldsStale /\ [SessionNext]_allVars =>
            [\A t \in Token : SweepDelete /\ Accepts(t) /\ ~Accepts(t)' => t \in reissued]_allVars
    BY <1>2
  <1> QED
    BY <1>1, <1>3, SweeperStep, SessionTypes, PTL DEF SessionSpec, SweepSparesLiveSessions
=============================================================================
