---------------------- MODULE ClusterOperationsProofs ----------------------
(***************************************************************************)
(* Theorems about ClusterOperations and the permissions it decides by, for *)
(* any roles, objects, pods and documents.                                 *)
(***************************************************************************)
EXTENDS ClusterOperations, TLAPS

-----------------------------------------------------------------------------
(* Permissions.                                                            *)

\* Permissions as normalizeRolePermissionsJSON leaves them.
Normal(perm) ==
    /\ perm \in Permissions
    /\ \A r \in Resources : Closed(perm.resources[r]) = perm.resources[r]
    /\ (\A r \in Resources, a \in Actions : ~perm.resources[r][a]) => perm = NoPermissions

LEMMA FlagFacts ==
    ASSUME NEW f \in Flags
    PROVE  /\ Closed(f) \in Flags
           /\ Closed(Closed(f)) = Closed(f)
           /\ Closed(f) = f => LevelToFlags(FlagsToLevel(f)) = f
           /\ FlagsToLevel(f) \in Levels
<1>1. Closed(f) \in Flags
  BY DEF Closed, Flags
<1>2. Closed(Closed(f)) = Closed(f)
  BY DEF Closed, Flags, Actions, Rank
<1>3. ASSUME Closed(f) = f PROVE LevelToFlags(FlagsToLevel(f)) = f
  BY <1>3 DEF Closed, Flags, Actions, Rank, LevelToFlags, FlagsToLevel, LevelRank
<1>4. FlagsToLevel(f) \in Levels
  BY DEF FlagsToLevel, Levels
<1> QED
  BY <1>1, <1>2, <1>3, <1>4

LEMMA LevelFacts ==
    ASSUME NEW l \in Levels
    PROVE  LevelToFlags(l) \in Flags /\ Closed(LevelToFlags(l)) = LevelToFlags(l)
<1>1. LevelToFlags(l) \in Flags
  BY DEF LevelToFlags, Flags, Actions, Rank, LevelRank, Levels
<1>2. LevelRank[l] \in Nat /\ \A a \in Actions : Rank[a] \in Nat
  BY DEF LevelRank, Levels, Rank, Actions
<1>3. ASSUME NEW a \in Actions
      PROVE  (\E b \in Actions : Rank[b] <= LevelRank[l] /\ Rank[a] <= Rank[b])
             <=> Rank[a] <= LevelRank[l]
  BY <1>2
<1>4. Closed(LevelToFlags(l)) = LevelToFlags(l)
  <2>1. Closed(LevelToFlags(l)) \in Flags
    BY <1>1, FlagFacts
  <2>2. ASSUME NEW a \in Actions
        PROVE  Closed(LevelToFlags(l))[a] <=> LevelToFlags(l)[a]
    BY <1>3 DEF Closed, LevelToFlags
  <2> HIDE DEF LevelToFlags
  <2> QED
    BY <1>1, <2>1, <2>2 DEF Flags
<1> QED
  BY <1>1, <1>4

LEMMA ParseFacts ==
    ASSUME NEW raw \in Raw
    PROVE  /\ Parse(raw) \in Permissions
           /\ \A r \in Resources : Closed(Parse(raw).resources[r]) = Parse(raw).resources[r]
           /\ \A r \in Resources, a \in Actions : Parse(raw).resources[r][a] <=> Meant(raw, r, a)
           /\ Parse(raw).namespaces = raw.namespaces \ BlankNames
<1>1. /\ raw.namespaces \subseteq Namespaces \cup BlankNames
      /\ \A r \in Resources : raw.resources[r] \in RawValue
  BY DEF Raw
<1>2. ASSUME NEW v \in RawValue
      PROVE  /\ v.form = "level" => v.level \in Levels
             /\ v.form # "level" => v.flags \in Flags
  BY DEF RawValue
<1>3. ASSUME NEW v \in RawValue
      PROVE  ParseValue(v) \in Flags /\ Closed(ParseValue(v)) = ParseValue(v)
  BY <1>2, FlagFacts, LevelFacts DEF ParseValue
<1>4. /\ Parse(raw).namespaces = raw.namespaces \ BlankNames
      /\ \A r \in Resources : Parse(raw).resources[r] = ParseValue(raw.resources[r])
  BY DEF Parse
<1>5. Parse(raw) \in Permissions
  BY <1>1, <1>3 DEF Parse, Permissions
<1>6. ASSUME NEW r \in Resources, NEW a \in Actions
      PROVE  ParseValue(raw.resources[r])[a] <=> Meant(raw, r, a)
  BY DEF ParseValue, Meant, LevelToFlags, Closed
<1> QED
  BY <1>1, <1>3, <1>4, <1>5, <1>6

\* What a role's permissions are normalised to is normal and means what was written.
LEMMA NormalizeFacts ==
    ASSUME NEW raw \in Raw
    PROVE  /\ Normal(NormalizePermissions(raw))
           /\ MeansWhatWasWritten(NormalizePermissions(raw), raw)
<1> DEFINE perm == NormalizePermissions(raw)
<1>1. ASSUME NEW r \in Resources, NEW a \in Actions
      PROVE  ~NoPermissions.resources[r][a]
  BY DEF NoPermissions, NoFlags
<1>2. /\ NoPermissions \in Permissions
      /\ \A r \in Resources : Closed(NoPermissions.resources[r]) = NoPermissions.resources[r]
  BY DEF NoPermissions, NoFlags, Permissions, Flags, Closed, Actions
<1>3. CASE MeansSome(raw)
  <2>1. perm = Parse(raw)
    BY <1>3, ParseFacts DEF NormalizePermissions, Expanded, MeansSome
  <2>2. Normal(perm)
    BY <1>3, <2>1, ParseFacts DEF Normal, MeansSome
  <2>3. Effective(perm).namespaces = raw.namespaces \ BlankNames
    BY <2>1, ParseFacts DEF Effective
  <2>4. ASSUME NEW r \in Resources, NEW a \in Actions
        PROVE  Effective(perm).resources[r][a] <=> Meant(raw, r, a)
    BY <2>1, ParseFacts DEF Effective
  <2> HIDE DEF perm
  <2> QED
    BY <2>2, <2>3, <2>4 DEF MeansWhatWasWritten, perm
<1>4. CASE ~MeansSome(raw)
  <2>1. perm = NoPermissions
    BY <1>4, ParseFacts DEF NormalizePermissions, Expanded, MeansSome
  <2>2. Normal(perm)
    BY <1>2, <2>1 DEF Normal
  <2>3. ASSUME NEW r \in Resources, NEW a \in Actions
        PROVE  Effective(perm).resources[r][a] <=> Meant(raw, r, a)
    BY <1>1, <1>2, <1>4, <2>1 DEF Effective, MeansSome
  <2> HIDE DEF perm
  <2> QED
    BY <1>4, <2>2, <2>3 DEF MeansWhatWasWritten, perm
<1> QED
  BY <1>3, <1>4

\* The Secret's form loses nothing of normal permissions: a restart brings them back.
LEMMA ReloadFacts ==
    ASSUME NEW perm, Normal(perm)
    PROVE  Reloaded(perm) = perm
<1>1. perm \in Permissions /\ \A r \in Resources : perm.resources[r] \in Flags
  BY DEF Normal, Permissions
<1>2. perm = [namespaces |-> perm.namespaces, resources |-> [r \in Resources |-> perm.resources[r]]]
  BY <1>1 DEF Permissions
<1>3. ASSUME NEW r \in Resources
      PROVE  LevelToFlags(FlagsToLevel(perm.resources[r])) = perm.resources[r]
  BY <1>1, FlagFacts DEF Normal
<1>4. Expanded(perm) = perm
  BY DEF Expanded, Normal
<1>5. [namespaces |-> Compact(perm).namespaces,
       resources  |-> [r \in Resources |-> LevelToFlags(Compact(perm).levels[r])]] = perm
  BY <1>2, <1>3 DEF Compact
<1>6. Restore(Compact(perm)) = perm
  BY <1>4, <1>5 DEF Restore
<1>7. /\ AsRaw(perm).namespaces = perm.namespaces
      /\ \A r \in Resources : ParseValue(AsRaw(perm).resources[r]) = perm.resources[r]
  BY <1>1 DEF AsRaw, ParseValue, Normal
<1>8. perm.namespaces \ BlankNames = perm.namespaces
  BY <1>1, PermissionAssumption DEF Permissions
<1>9. Parse(AsRaw(perm)) = perm
  BY <1>2, <1>7, <1>8 DEF Parse
<1> QED
  BY <1>4, <1>6, <1>9 DEF Reloaded, NormalizePermissions

-----------------------------------------------------------------------------
(* The invariant.                                                          *)

\* The role in the store is the one written last.
RoleSaved == role = Stored(written)

Permits(w, o, action) ==
    /\ Intended(w, KindToResource(KindOf[o]), action)
    /\ NamespaceOf[o] = ClusterScope \/ IntendedNamespace(w, NamespaceOf[o])

\* As an object of a kind whose word its manifest bears.
Writes(w, o) ==
    /\ \E k \in KindsFor(o) : Intended(w, KindToResource(k), "edit")
    /\ NamespaceOf[o] = ClusterScope \/ IntendedNamespace(w, NamespaceOf[o])

\* What is under way was admitted by a role meant to allow it.
Allowed(r) ==
    /\ r.at = "update" => Writes(r.by, r.object)
    /\ r.at = "read" => Permits(r.by, r.object, "edit")
    /\ r.at = "delete" => Permits(r.by, r.object, "delete")
    /\ r.at = "apply" => /\ Intended(r.by, "apply", "edit")
                         /\ IntendedNamespace(r.by, r.namespace)
                         /\ DocumentsInNamespace(r.docs, r.namespace)
    /\ r.at = "pod" => /\ Intended(r.by, "pods", r.action)
                       /\ IntendedNamespace(r.by, PodNamespace[r.pod])
    /\ r.at \in {"drain", "uncordon"} => Intended(r.by, "nodes", "edit")

\* A copy whose version is still known is what cluster cl has, but for the edited field.
CopyGood(r, ch, cl) ==
    /\ r.at = "opened" /\ r.object \notin ch => cl[r.object] = r.copy
    /\ r.at = "update" /\ r.versioned /\ r.object \notin ch =>
          /\ cl[r.object] # Gone
          /\ \A f \in Fields \ {r.field} : cl[r.object][f] = r.value[f]

\* Pods a drain is to move are gone from the node, but for those in rest.
Emptied(force, rest, ps) == \A p \in Pods : Evictable(p, force) /\ ps[p] = "here" => p \in rest

\* From the list on the node is cordoned and no further pod comes to it.
DrainGood(r, ch, ps, cordon) ==
    Node \notin ch =>
        /\ r.at = "drain" /\ r.step \in {"list", "evict"} => cordon
        /\ r.at = "drain" /\ r.step = "evict" /\ ~r.failed =>
              Emptied(r.force, {PodList[i] : i \in r.left}, ps)
        /\ r.at = "answered" /\ r.status = "ok" /\ r.of.at = "drain" =>
              cordon /\ Emptied(r.of.force, {}, ps)

\* Of the documents before the n-th, i is the one that decides about its field of o.
DecidesBefore(r, i, n, o) ==
    /\ o \in Targets(r.docs[i], r.namespace)
    /\ \A j \in DOMAIN r.docs :
          i < j /\ j < n /\ r.docs[j].field = r.docs[i].field
             => o \notin Targets(r.docs[j], r.namespace)

\* The documents before the n-th are in force, but for objects others changed.
InForce(r, n, ch, cl) ==
    \A i \in DOMAIN r.docs : i < n =>
        /\ Targets(r.docs[i], r.namespace) # {}
        /\ \A o \in Objects \ ch : DecidesBefore(r, i, n, o) =>
              cl[o] # Gone /\ cl[o][r.docs[i].field] = r.docs[i].value

ApplyGood(r, ch, cl) ==
    /\ r.at = "apply" /\ ~r.dryRun => InForce(r, r.next, ch, cl)
    /\ r.at = "answered" /\ r.status = "ok" /\ r.of.at = "apply" /\ ~r.of.dryRun =>
          InForce(r.of, Len(r.of.docs) + 1, ch, cl)

Good(r, ch, cl, ps, cordon) ==
    Allowed(r) /\ CopyGood(r, ch, cl) /\ DrainGood(r, ch, ps, cordon) /\ ApplyGood(r, ch, cl)

AllGood == \A c \in Clients : Good(requests[c], changed[c], cluster, pods, cordoned)

IInv == TypeOK /\ RoleSaved /\ AllGood

-----------------------------------------------------------------------------
States == Requests \cup Answers

LEMMA StateFacts ==
    ASSUME NEW r \in States
    PROVE  /\ r.at = "opened" => r \in Opened
           /\ r.at = "update" => r \in Updates
           /\ r.at = "read" => r \in Readers
           /\ r.at = "delete" => r \in Deletes
           /\ r.at = "pod" => r \in PodCalls
           /\ r.at = "drain" => r \in Drains
           /\ r.at = "uncordon" => r \in Uncordons
           /\ r.at = "apply" => r \in Applies
           /\ r.at = "answered" => r \in Answers
           /\ r.at # "answered" => r \in Requests
<1>1. CASE r \in Answers
  BY <1>1 DEF Answers
<1>2. CASE r \in Requests
  BY <1>2 DEF Requests, Idle, Opened, Updates, Readers, Deletes, PodCalls, Drains, Uncordons, Applies
<1> QED
  BY <1>1, <1>2 DEF States

LEMMA ActionNames == {"view", "edit", "delete"} \subseteq Actions
BY DEF Actions

\* What the stored role decides is what its author meant.
LEMMA Decision ==
    ASSUME IInv, NEW area \in Resources, NEW action \in Actions,
           HasPermission(role, area, action)
    PROVE  /\ Intended(written, area, action)
           /\ \A ns : NamespaceAllowed(role, ns) => IntendedNamespace(written, ns)
<1> DEFINE raw == Content[written].raw
<1>1. /\ raw \in Raw /\ role.mode = Content[written].mode
      /\ role.permissions = NormalizePermissions(raw)
  BY OperationsAssumption DEF IInv, TypeOK, RoleSaved, Stored
<1>2. MeansWhatWasWritten(role.permissions, raw)
  BY <1>1, NormalizeFacts
<1>3. CASE Content[written].mode = "admin"
  BY <1>3 DEF Intended, IntendedNamespace
<1>4. CASE Content[written].mode # "admin"
  <2>1. Effective(role.permissions).resources[area][action]
    BY <1>1, <1>4 DEF HasPermission
  <2>2. Meant(raw, area, action)
    BY <1>2, <2>1 DEF MeansWhatWasWritten
  <2>3. Effective(role.permissions).namespaces = raw.namespaces \ BlankNames
    BY <1>2, <2>2 DEF MeansWhatWasWritten, MeansSome
  <2>4. ASSUME NEW ns, NamespaceAllowed(role, ns) PROVE IntendedNamespace(written, ns)
    BY <1>1, <1>4, <2>3, <2>4 DEF NamespaceAllowed, IntendedNamespace
  <2> QED
    BY <2>2, <2>4 DEF Intended
<1> QED
  BY <1>3, <1>4

\* A client d that does nothing, while others tell it of what they change and put no
\* pod a drain moves on a cordoned node.
Undisturbed(d) ==
    /\ requests'[d] = requests[d]
    /\ changed[d] \subseteq changed'[d]
    /\ \A o \in Objects : cluster'[o] # cluster[o] => o \in changed'[d]
    /\ cordoned /\ ~cordoned' => Node \in changed'[d]
    /\ \A p \in Pods : pods'[p] = "here" =>
          pods[p] = "here" \/ ~cordoned \/ ClassOf[p] \in {"daemon", "mirror"}

LEMMA EmptiedStays ==
    ASSUME NEW force, NEW rest, Emptied(force, rest, pods), cordoned,
           \A p \in Pods : pods'[p] = "here" =>
              pods[p] = "here" \/ ~cordoned \/ ClassOf[p] \in {"daemon", "mirror"}
    PROVE  Emptied(force, rest, pods')
BY DEF Emptied, Evictable

LEMMA UndisturbedGood ==
    ASSUME IInv, NEW d \in Clients, Undisturbed(d)
    PROVE  Good(requests'[d], changed'[d], cluster', pods', cordoned')
<1> DEFINE r   == requests[d]
           ch  == changed[d]
           chp == changed'[d]
<1>0. r \in States /\ Good(r, ch, cluster, pods, cordoned) /\ requests'[d] = r
  BY DEF IInv, TypeOK, AllGood, States, Undisturbed
<1>1. /\ ch \subseteq chp
      /\ \A o \in Objects : o \notin chp => cluster'[o] = cluster[o] /\ o \notin ch
  BY DEF Undisturbed
<1>2. Allowed(r)
  BY <1>0 DEF Good
<1>3. CopyGood(r, chp, cluster')
  <2>1. CopyGood(r, ch, cluster)
    BY <1>0 DEF Good
  <2>2. r.at \in {"opened", "update"} => r.object \in Objects
    BY <1>0, StateFacts DEF Opened, Updates
  <2> HIDE DEF r, ch, chp
  <2> QED
    BY <1>1, <2>1, <2>2 DEF CopyGood
<1>4. DrainGood(r, chp, pods', cordoned')
  <2> SUFFICES ASSUME Node \notin chp PROVE DrainGood(r, chp, pods', cordoned')
    BY DEF DrainGood
  <2>1. DrainGood(r, ch, pods, cordoned) /\ Node \notin ch /\ (cordoned => cordoned')
    BY <1>0, <1>1 DEF Good, Undisturbed, IInv, TypeOK
  <2>2. \A p \in Pods : pods'[p] = "here" =>
          pods[p] = "here" \/ ~cordoned \/ ClassOf[p] \in {"daemon", "mirror"}
    BY DEF Undisturbed
  <2> HIDE DEF r, ch, chp
  <2> QED
    BY <2>1, <2>2, EmptiedStays DEF DrainGood
<1>5. ApplyGood(r, chp, cluster')
  <2>1. ApplyGood(r, ch, cluster)
    BY <1>0 DEF Good
  <2> HIDE DEF r, ch, chp
  <2>2. ASSUME NEW q, NEW n, InForce(q, n, ch, cluster) PROVE InForce(q, n, chp, cluster')
    BY <1>1, <2>2 DEF InForce
  <2> QED
    BY <2>1, <2>2 DEF ApplyGood
<1> QED
  <2> HIDE DEF r
  <2> QED
    BY <1>0, <1>2, <1>3, <1>4, <1>5 DEF Good

\* A step of client c, whose request becomes r.
LEMMA ClientFrame ==
    ASSUME IInv, NEW c \in Clients, NEW r \in States, Proceed(c, r),
           UNCHANGED <<role, written>>, admitted' \in Nat, others' \in Nat,
           cluster' \in [Objects -> Versions \cup {Gone}],
           pods' \in [Pods -> {"here", "elsewhere", "gone"}], cordoned' \in BOOLEAN,
           changed' \in [Clients -> SUBSET (Objects \cup {Node})],
           \A d \in Clients : d # c => Undisturbed(d),
           Good(r, changed'[c], cluster', pods', cordoned')
    PROVE  IInv'
<1>1. requests' \in [Clients -> Requests \cup Answers] /\ requests'[c] = r
  BY DEF Proceed, IInv, TypeOK, States
<1>2. TypeOK'
  BY <1>1 DEF IInv, TypeOK
<1>3. RoleSaved'
  BY DEF IInv, RoleSaved, Stored
<1>4. ASSUME NEW d \in Clients
      PROVE  Good(requests'[d], changed'[d], cluster', pods', cordoned')
  BY <1>1, UndisturbedGood
<1>5. AllGood'
  BY <1>4 DEF AllGood
<1> QED
  BY <1>2, <1>3, <1>5 DEF IInv

\* A step of client c that changes nothing in the cluster.
LEMMA CalmFrame ==
    ASSUME IInv, NEW c \in Clients, NEW r \in States, Proceed(c, r),
           UNCHANGED <<role, written, cluster, pods, cordoned, others>>, admitted' \in Nat,
           changed' \in [Clients -> SUBSET (Objects \cup {Node})],
           \A d \in Clients : d # c => changed'[d] = changed[d],
           Good(r, changed'[c], cluster, pods, cordoned)
    PROVE  IInv'
<1>1. /\ cluster' \in [Objects -> Versions \cup {Gone}]
      /\ pods' \in [Pods -> {"here", "elsewhere", "gone"}] /\ cordoned' \in BOOLEAN
      /\ others' \in Nat
  BY DEF IInv, TypeOK
<1>2. ASSUME NEW d \in Clients, d # c PROVE Undisturbed(d)
  BY <1>2 DEF Undisturbed, Proceed, IInv, TypeOK
<1>3. Good(r, changed'[c], cluster', pods', cordoned')
  OBVIOUS
<1> QED
  BY <1>1, <1>2, <1>3, ClientFrame

LEMMA PlainGood ==
    ASSUME NEW r, r.at \in {"idle", "read", "delete", "pod", "uncordon"}, Allowed(r),
           NEW ch, NEW cl, NEW ps, NEW cordon
    PROVE  Good(r, ch, cl, ps, cordon)
BY DEF Good, CopyGood, DrainGood, ApplyGood

Answered(c, status) == [at |-> "answered", status |-> status, of |-> requests[c]]

LEMMA AnsweredGood ==
    ASSUME IInv, NEW c \in Clients, NEW status \in {"ok", "partial", "error"},
           requests[c].at # "answered",
           status = "ok" => requests[c].at \notin {"drain", "apply"}
    PROVE  /\ Answered(c, status) \in States
           /\ \A ch, cl, ps, cordon : Good(Answered(c, status), ch, cl, ps, cordon)
<1>1. requests[c] \in Requests
  BY StateFacts DEF IInv, TypeOK, States
<1>2. Answered(c, status) \in States
  BY <1>1 DEF Answered, States, Answers
<1> QED
  BY <1>2 DEF Answered, Good, Allowed, CopyGood, DrainGood, ApplyGood

\* The invariant, for one client.
LEMMA Knowing ==
    ASSUME IInv, NEW c \in Clients
    PROVE  /\ requests[c] \in States /\ Good(requests[c], changed[c], cluster, pods, cordoned)
           /\ Allowed(requests[c]) /\ CopyGood(requests[c], changed[c], cluster)
           /\ DrainGood(requests[c], changed[c], pods, cordoned)
           /\ ApplyGood(requests[c], changed[c], cluster)
           /\ admitted \in Nat /\ admitted + 1 \in Nat /\ written \in RoleWrites
           /\ requests \in [Clients -> Requests \cup Answers]
           /\ changed \in [Clients -> SUBSET (Objects \cup {Node})]
BY DEF IInv, TypeOK, AllGood, States, Good

\* Client c asks for r, which its role allows.
LEMMA AdmitInductive ==
    ASSUME IInv, NEW c \in Clients, NEW r \in States, Admit(c, r),
           changed' \in [Clients -> SUBSET (Objects \cup {Node})],
           \A d \in Clients : d # c => changed'[d] = changed[d],
           Good(r, changed'[c], cluster, pods, cordoned)
    PROVE  IInv'
BY CalmFrame, Knowing DEF Admit, Proceed

-----------------------------------------------------------------------------
(* One lemma for each step of a client.                                    *)

LEMMA AcknowledgeInductive ==
    ASSUME IInv, NEW c \in Clients, Acknowledge(c)
    PROVE  IInv'
<1>1. Idle \in States /\ Idle.at = "idle" /\ Allowed(Idle)
  BY DEF Idle, States, Requests, Allowed
<1>2. Good(Idle, changed'[c], cluster, pods, cordoned)
  BY <1>1, PlainGood
<1> QED
  BY <1>1, <1>2, CalmFrame, Knowing DEF Acknowledge

\* What the checks of a handler amount to for an object, taken as one of kind k.
LEMMA MayActAs ==
    ASSUME IInv, NEW o \in Objects, NEW k \in KindsFor(o), NEW action \in Actions,
           HasPermission(role, KindToResource(k), action),
           InScope(o) \/ ManifestInScope(k, o)
    PROVE  /\ Intended(written, KindToResource(k), action)
           /\ NamespaceOf[o] = ClusterScope \/ IntendedNamespace(written, NamespaceOf[o])
<1>1. KindToResource(k) \in Resources
  BY OperationsAssumption DEF KindsFor
<1> QED
  BY <1>1, Decision DEF InScope, ManifestInScope

LEMMA MayAct ==
    ASSUME IInv, NEW o \in Objects, NEW action \in Actions,
           HasPermission(role, KindToResource(KindOf[o]), action), InScope(o)
    PROVE  Permits(written, o, action)
<1>1. KindOf[o] \in KindsFor(o)
  BY DEF KindsFor
<1> QED
  BY <1>1, MayActAs DEF Permits

LEMMA WorkloadArea ==
    ASSUME NEW k \in {"deployment", "statefulset"}
    PROVE  KindToResource(k) = "workloads"
<1>1. \A a \in DOMAIN AreaKinds : k \in AreaKinds[a] <=> a = "workloads"
  BY DEF AreaKinds
<1>2. "workloads" \in DOMAIN AreaKinds
  BY DEF AreaKinds
<1> HIDE DEF AreaKinds
<1> QED
  BY <1>1, <1>2 DEF KindToResource

LEMMA OpenManifestInductive ==
    ASSUME IInv, NEW c \in Clients, NEW o \in Objects, OpenManifest(c, o)
    PROVE  IInv'
<1> DEFINE r == [at |-> "opened", object |-> o, copy |-> cluster[o]]
<1>1. cluster[o] \in Versions
  BY DEF OpenManifest, IInv, TypeOK
<1>2. r \in States
  BY <1>1 DEF States, Requests, Opened
<1>3. Admit(c, r) /\ Know(c, o)
  BY DEF OpenManifest
<1>4. /\ changed' \in [Clients -> SUBSET (Objects \cup {Node})]
      /\ \A d \in Clients : d # c => changed'[d] = changed[d]
  BY <1>3, Knowing DEF Know
<1>5. Good(r, changed'[c], cluster, pods, cordoned)
  BY DEF Good, Allowed, CopyGood, DrainGood, ApplyGood
<1> QED
  <2> HIDE DEF r
  <2> QED
    BY <1>2, <1>3, <1>4, <1>5, AdmitInductive

LEMMA SubmitManifestInductive ==
    ASSUME IInv, NEW c \in Clients, NEW e \in Edits, NEW k \in KindsFor(e.object),
           NEW versioned \in BOOLEAN, NEW dryRun \in BOOLEAN,
           SubmitManifest(c, k, e, versioned, dryRun)
    PROVE  IInv'
<1> DEFINE q == requests[c]
           r == [at |-> "update", object |-> e.object, field |-> e.field,
                 value |-> [q.copy EXCEPT ![e.field] = e.value],
                 versioned |-> versioned, dryRun |-> dryRun, by |-> written]
<1>1. q \in Opened /\ CopyGood(q, changed[c], cluster)
  BY Knowing, StateFacts DEF SubmitManifest
<1>2. /\ e.object \in Objects /\ e.field \in Fields /\ e.value \in Values
      /\ q.copy \in Versions /\ q.at = "opened"
  BY <1>1, OperationsAssumption DEF Opened
<1>3. r.value \in Versions /\ \A f \in Fields \ {e.field} : r.value[f] = q.copy[f]
  <2> HIDE DEF q
  <2> QED
    BY <1>2 DEF Versions
<1>4. r \in States
  <2> HIDE DEF q
  <2> QED
    BY <1>2, <1>3, Knowing DEF States, Requests, Updates
<1>5. Writes(written, e.object)
  BY <1>2, MayActAs, ActionNames DEF SubmitManifest, Writes
<1>6. /\ changed' \in [Clients -> SUBSET (Objects \cup {Node})]
      /\ \A d \in Clients : d # c => changed'[d] = changed[d]
      /\ changed'[c] = changed[c] \cup ({e.object} \ {q.object})
  BY <1>2, Knowing DEF SubmitManifest
<1>7. e.object \notin changed'[c] => cluster[e.object] = q.copy /\ cluster[e.object] # Gone
  <2>1. e.object \notin changed'[c] => q.object = e.object /\ q.object \notin changed[c]
    BY <1>6
  <2> QED
    BY <1>1, <1>2, <2>1, OperationsAssumption DEF CopyGood, Versions
<1>8. Good(r, changed'[c], cluster, pods, cordoned)
  <2>1. /\ r.at = "update" /\ r.object = e.object /\ r.by = written /\ r.field = e.field
    OBVIOUS
  <2> HIDE DEF r, q
  <2> QED
    BY <1>3, <1>5, <1>7, <2>1 DEF Good, Allowed, CopyGood, DrainGood, ApplyGood
<1>9. Proceed(c, r)
  BY DEF SubmitManifest
<1> QED
  <2> HIDE DEF r
  <2> QED
    BY <1>4, <1>6, <1>8, <1>9, CalmFrame, Knowing DEF SubmitManifest

LEMMA PutFacts ==
    ASSUME IInv, NEW cs \in SUBSET Clients, NEW o \in Objects, NEW v \in Versions \cup {Gone},
           Put(cs, o, v)
    PROVE  /\ cluster' \in [Objects -> Versions \cup {Gone}] /\ cluster'[o] = v
           /\ \A x \in Objects : x # o => cluster'[x] = cluster[x]
           /\ changed' \in [Clients -> SUBSET (Objects \cup {Node})]
           /\ \A d \in cs : changed'[d] = changed[d]
           /\ \A d \in Clients \ cs : /\ changed[d] \subseteq changed'[d]
                                      /\ \A x \in Objects : cluster'[x] # cluster[x] => x \in changed'[d]
BY DEF Put, IInv, TypeOK

\* A write call of client c.
LEMMA WriteFrame ==
    ASSUME IInv, NEW c \in Clients, NEW r \in States, Proceed(c, r),
           NEW outcome, NEW o \in Objects, NEW v \in Versions \cup {Gone}, PutUnless(outcome, c, o, v),
           UNCHANGED <<role, written, pods, cordoned, admitted, others>>,
           Good(r, changed[c], cluster', pods, cordoned)
    PROVE  IInv'
<1>1. /\ admitted' \in Nat /\ others' \in Nat
      /\ pods' \in [Pods -> {"here", "elsewhere", "gone"}] /\ cordoned' \in BOOLEAN
  BY DEF IInv, TypeOK
<1>2. /\ cluster' \in [Objects -> Versions \cup {Gone}]
      /\ changed' \in [Clients -> SUBSET (Objects \cup {Node})] /\ changed'[c] = changed[c]
      /\ \A d \in Clients : d # c =>
            /\ changed[d] \subseteq changed'[d]
            /\ \A x \in Objects : cluster'[x] # cluster[x] => x \in changed'[d]
  <2>1. CASE outcome = "refused"
    BY <2>1 DEF PutUnless, IInv, TypeOK
  <2>2. CASE outcome # "refused"
    <3>1. Put({c}, o, v)
      BY <2>2 DEF PutUnless
    <3>2. {c} \in SUBSET Clients /\ \A d \in Clients : d # c => d \in Clients \ {c}
      OBVIOUS
    <3> QED
      BY <3>1, <3>2, PutFacts
  <2> QED
    BY <2>1, <2>2
<1>3. ASSUME NEW d \in Clients, d # c PROVE Undisturbed(d)
  BY <1>2, <1>3 DEF Undisturbed, Proceed, IInv, TypeOK
<1> QED
  BY <1>1, <1>2, <1>3, ClientFrame

LEMMA UpdateCallInductive ==
    ASSUME IInv, NEW c \in Clients, UpdateCall(c)
    PROVE  IInv'
<1> DEFINE q == requests[c]
<1>1. q \in Updates /\ q.at = "update"
  BY Knowing, StateFacts DEF UpdateCall
<1>2. PICK outcome \in Outcomes :
        /\ PutUnless(IF q.dryRun THEN "refused" ELSE outcome, c, q.object, q.value)
        /\ Answer(c, Status(outcome))
  BY DEF UpdateCall, Outcomes
<1>3. q.object \in Objects /\ q.value \in Versions
  BY <1>1 DEF Updates
<1>4. /\ Answered(c, Status(outcome)) \in States
      /\ \A ch, cl, ps, cordon : Good(Answered(c, Status(outcome)), ch, cl, ps, cordon)
  BY <1>1, AnsweredGood DEF Status
<1>5. Proceed(c, Answered(c, Status(outcome)))
  BY <1>2 DEF Answer, Answered
<1> QED
  <2> HIDE DEF q
  <2> QED
    BY <1>2, <1>3, <1>4, <1>5, WriteFrame DEF UpdateCall

LEMMA WorkloadEditInductive ==
    ASSUME IInv, NEW c \in Clients, NEW e \in Edits, Scale(c, e) \/ RestartDeployment(c, e)
    PROVE  IInv'
<1> DEFINE r == [at |-> "read", object |-> e.object, field |-> e.field,
                 value |-> e.value, by |-> written]
<1>1. /\ AdmitWorkloadEdit(c, e) /\ KindOf[e.object] \in {"deployment", "statefulset"}
      /\ e.object \in Objects /\ e.field \in Fields /\ e.value \in Values
  BY OperationsAssumption DEF Scale, RestartDeployment
<1>2. KindToResource(KindOf[e.object]) = "workloads"
  BY <1>1, WorkloadArea
<1>3. Permits(written, e.object, "edit")
  BY <1>1, <1>2, MayAct, ActionNames DEF AdmitWorkloadEdit, InScope
<1>4. r \in States
  BY <1>1, Knowing DEF States, Requests, Readers
<1>5. Good(r, changed[c], cluster, pods, cordoned)
  BY <1>3, PlainGood DEF Allowed
<1>6. Admit(c, r) /\ changed' = changed
  BY <1>1 DEF AdmitWorkloadEdit
<1> QED
  <2> HIDE DEF r
  <2> QED
    BY <1>4, <1>5, <1>6, Knowing, AdmitInductive

LEMMA ReadWorkloadInductive ==
    ASSUME IInv, NEW c \in Clients, ReadWorkload(c)
    PROVE  IInv'
<1> DEFINE q == requests[c]
           r == [at |-> "update", object |-> q.object, field |-> q.field,
                 value |-> [cluster[q.object] EXCEPT ![q.field] = q.value],
                 versioned |-> TRUE, dryRun |-> FALSE, by |-> q.by]
<1>1. q \in Readers /\ q.at = "read" /\ Allowed(q)
  BY Knowing, StateFacts DEF ReadWorkload
<1>2. /\ q.object \in Objects /\ q.field \in Fields /\ q.value \in Values /\ q.by \in RoleWrites
      /\ Writes(q.by, q.object)
  BY <1>1 DEF Readers, Allowed, Permits, Writes, KindsFor
<1>3. CASE Answer(c, "error") /\ UNCHANGED changed
  <2>1. Proceed(c, Answered(c, "error"))
    BY <1>3 DEF Answer, Answered
  <2> QED
    BY <1>1, <1>3, <2>1, AnsweredGood, CalmFrame, Knowing DEF ReadWorkload
<1>4. CASE cluster[q.object] # Gone /\ Proceed(c, r) /\ Know(c, q.object)
  <2>1. cluster[q.object] \in Versions
    BY <1>2, <1>4 DEF IInv, TypeOK
  <2>2. /\ r.value \in Versions
        /\ \A f \in Fields \ {q.field} : r.value[f] = cluster[q.object][f]
    <3> HIDE DEF q
    <3> QED
      BY <1>2, <2>1 DEF Versions
  <2>3. r \in States
    <3> HIDE DEF q
    <3> QED
      BY <1>2, <2>2 DEF States, Requests, Updates
  <2>4. Good(r, changed'[c], cluster, pods, cordoned)
    <3>1. /\ r.at = "update" /\ r.object = q.object /\ r.by = q.by /\ r.field = q.field
      OBVIOUS
    <3> HIDE DEF r, q
    <3> QED
      BY <1>2, <1>4, <2>2, <3>1 DEF Good, Allowed, CopyGood, DrainGood, ApplyGood
  <2>5. /\ changed' \in [Clients -> SUBSET (Objects \cup {Node})]
        /\ \A d \in Clients : d # c => changed'[d] = changed[d]
    BY <1>4, Knowing DEF Know
  <2> QED
    <3> HIDE DEF r
    <3> QED
      BY <1>4, <2>3, <2>4, <2>5, CalmFrame, Knowing DEF ReadWorkload
<1> QED
  BY <1>3, <1>4 DEF ReadWorkload

LEMMA DeleteResourceInductive ==
    ASSUME IInv, NEW c \in Clients, NEW o \in Objects, DeleteResource(c, o)
    PROVE  IInv'
<1> DEFINE r == [at |-> "delete", object |-> o, by |-> written]
           target == PermissionDeleteTarget(KindOf[o])
<1>1. /\ target.known /\ HasPermission(role, target.resource, "delete")
      /\ target.namespaced => InScope(o)
      /\ Admit(c, r) /\ changed' = changed
  BY DEF DeleteResource
<1>2. /\ KindOf[o] \notin {"node", "replicaset", "replicationcontroller"}
      /\ target.resource = KindToResource(KindOf[o])
      /\ target.namespaced = (KindOf[o] \notin ClusterKinds)
  <2> HIDE DEF target
  <2> QED
    BY <1>1 DEF PermissionDeleteTarget, target
<1>3. Permits(written, o, "delete")
  <2>1. InScope(o)
    BY <1>1, <1>2, OperationsAssumption DEF InScope
  <2> HIDE DEF target
  <2> QED
    BY <1>1, <1>2, <2>1, MayAct, ActionNames
<1>4. r \in States
  BY Knowing DEF States, Requests, Deletes
<1>5. Good(r, changed[c], cluster, pods, cordoned)
  BY <1>3, PlainGood DEF Allowed
<1> QED
  <2> HIDE DEF r, target
  <2> QED
    BY <1>1, <1>4, <1>5, Knowing, AdmitInductive

LEMMA DeleteCallInductive ==
    ASSUME IInv, NEW c \in Clients, DeleteCall(c)
    PROVE  IInv'
<1> DEFINE q == requests[c]
<1>1. q \in Deletes /\ q.at = "delete"
  BY Knowing, StateFacts DEF DeleteCall
<1>2. PICK outcome \in Outcomes :
        PutUnless(outcome, c, q.object, Gone) /\ Answer(c, Status(outcome))
  BY DEF DeleteCall, Outcomes
<1>3. q.object \in Objects
  BY <1>1 DEF Deletes
<1>4. /\ Answered(c, Status(outcome)) \in States
      /\ \A ch, cl, ps, cordon : Good(Answered(c, Status(outcome)), ch, cl, ps, cordon)
  BY <1>1, AnsweredGood DEF Status
<1>5. Proceed(c, Answered(c, Status(outcome)))
  BY <1>2 DEF Answer, Answered
<1> QED
  <2> HIDE DEF q
  <2> QED
    BY <1>2, <1>3, <1>4, <1>5, WriteFrame DEF DeleteCall

LEMMA RemovePodInductive ==
    ASSUME IInv, NEW c \in Clients, NEW p \in Pods, DeletePod(c, p) \/ EvictPod(c, p)
    PROVE  IInv'
<1>1. PICK action \in {"delete", "edit"} : RemovePod(c, p, action)
  BY DEF DeletePod, EvictPod
<1> DEFINE r == [at |-> "pod", pod |-> p, action |-> action, by |-> written]
<1>2. Intended(written, "pods", action) /\ IntendedNamespace(written, PodNamespace[p])
  BY <1>1, Decision, ActionNames, OperationsAssumption DEF RemovePod
<1>3. r \in States
  BY <1>1, Knowing, ActionNames DEF States, Requests, PodCalls
<1>4. Good(r, changed[c], cluster, pods, cordoned)
  BY <1>2, PlainGood DEF Allowed
<1>5. Admit(c, r) /\ changed' = changed
  BY <1>1 DEF RemovePod
<1> QED
  <2> HIDE DEF r
  <2> QED
    BY <1>3, <1>4, <1>5, Knowing, AdmitInductive

\* A step of client c that may take pods away and cordon the node.
LEMMA PodFrame ==
    ASSUME IInv, NEW c \in Clients, NEW r \in States, Proceed(c, r),
           UNCHANGED <<role, written, cluster, admitted, others>>,
           pods' \in [Pods -> {"here", "elsewhere", "gone"}],
           \A p \in Pods : pods'[p] = "here" => pods[p] = "here",
           cordoned' \in {cordoned, TRUE},
           changed' \in [Clients -> SUBSET (Objects \cup {Node})],
           \A d \in Clients : d # c => changed'[d] = changed[d],
           Good(r, changed'[c], cluster, pods', cordoned')
    PROVE  IInv'
<1>1. /\ admitted' \in Nat /\ others' \in Nat /\ cordoned' \in BOOLEAN
      /\ cluster' \in [Objects -> Versions \cup {Gone}]
  BY DEF IInv, TypeOK
<1>2. ASSUME NEW d \in Clients, d # c PROVE Undisturbed(d)
  BY <1>2 DEF Undisturbed, Proceed, IInv, TypeOK
<1> QED
  BY <1>1, <1>2, ClientFrame

LEMMA PodCallInductive ==
    ASSUME IInv, NEW c \in Clients, PodCall(c)
    PROVE  IInv'
<1> DEFINE q == requests[c]
<1>1. q \in PodCalls /\ q.at = "pod"
  BY Knowing, StateFacts DEF PodCall
<1>2. PICK outcome \in Outcomes :
        /\ pods' = IF outcome = "refused" THEN pods ELSE [pods EXCEPT ![q.pod] = "gone"]
        /\ Answer(c, Status(outcome))
  BY DEF PodCall, Outcomes
<1>3. /\ pods' \in [Pods -> {"here", "elsewhere", "gone"}]
      /\ \A p \in Pods : pods'[p] = "here" => pods[p] = "here"
  BY <1>2 DEF IInv, TypeOK
<1>4. /\ Answered(c, Status(outcome)) \in States
      /\ \A ch, cl, ps, cordon : Good(Answered(c, Status(outcome)), ch, cl, ps, cordon)
  BY <1>1, AnsweredGood DEF Status
<1>5. Proceed(c, Answered(c, Status(outcome)))
  BY <1>2 DEF Answer, Answered
<1> QED
  BY <1>3, <1>4, <1>5, PodFrame, Knowing DEF PodCall

-----------------------------------------------------------------------------
(* Draining a node.                                                        *)

LEMMA DrainNodeInductive ==
    ASSUME IInv, NEW c \in Clients, NEW force \in BOOLEAN, DrainNode(c, force)
    PROVE  IInv'
<1> DEFINE r == [at |-> "drain", step |-> "get", force |-> force, left |-> {},
                 failed |-> FALSE, by |-> written]
<1>1. Intended(written, "nodes", "edit")
  BY Decision, ActionNames, OperationsAssumption DEF DrainNode
<1>2. r \in States
  BY Knowing DEF States, Requests, Drains
<1>3. Good(r, changed[c], cluster, pods, cordoned)
  BY <1>1 DEF Good, Allowed, CopyGood, DrainGood, ApplyGood
<1>4. Admit(c, r) /\ changed' = changed
  BY DEF DrainNode
<1> QED
  <2> HIDE DEF r
  <2> QED
    BY <1>2, <1>3, <1>4, Knowing, AdmitInductive

LEMMA UncordonNodeInductive ==
    ASSUME IInv, NEW c \in Clients, UncordonNode(c)
    PROVE  IInv'
<1> DEFINE r == [at |-> "uncordon", by |-> written]
<1>1. Intended(written, "nodes", "edit")
  BY Decision, ActionNames, OperationsAssumption DEF UncordonNode
<1>2. r \in States
  BY Knowing DEF States, Requests, Uncordons
<1>3. Good(r, changed[c], cluster, pods, cordoned)
  BY <1>1, PlainGood DEF Allowed
<1>4. Admit(c, r) /\ changed' = changed
  BY DEF UncordonNode
<1> QED
  <2> HIDE DEF r
  <2> QED
    BY <1>2, <1>3, <1>4, Knowing, AdmitInductive

LEMMA UncordonCallInductive ==
    ASSUME IInv, NEW c \in Clients, UncordonCall(c)
    PROVE  IInv'
<1>1. PICK outcome \in Outcomes :
        /\ cordoned' = (cordoned /\ outcome = "refused")
        /\ changed' = [d \in Clients |->
                          IF cordoned' # cordoned THEN changed[d] \cup {Node} ELSE changed[d]]
        /\ Answer(c, Status(outcome))
  BY DEF UncordonCall, Outcomes
<1>2. requests[c].at = "uncordon"
  BY DEF UncordonCall
<1>3. /\ Answered(c, Status(outcome)) \in States
      /\ \A ch, cl, ps, cordon : Good(Answered(c, Status(outcome)), ch, cl, ps, cordon)
  BY <1>2, AnsweredGood DEF Status
<1>4. Proceed(c, Answered(c, Status(outcome)))
  BY <1>1 DEF Answer, Answered
<1>5. /\ changed' \in [Clients -> SUBSET (Objects \cup {Node})] /\ cordoned' \in BOOLEAN
      /\ \A d \in Clients : changed[d] \subseteq changed'[d]
      /\ cordoned /\ ~cordoned' => \A d \in Clients : Node \in changed'[d]
  BY <1>1 DEF IInv, TypeOK
<1>6. /\ UNCHANGED <<role, written, cluster, pods, admitted, others>>
      /\ admitted' \in Nat /\ others' \in Nat
      /\ cluster' \in [Objects -> Versions \cup {Gone}]
      /\ pods' \in [Pods -> {"here", "elsewhere", "gone"}]
  BY DEF UncordonCall, IInv, TypeOK
<1>7. ASSUME NEW d \in Clients, d # c PROVE Undisturbed(d)
  BY <1>4, <1>5, <1>6, <1>7 DEF Undisturbed, Proceed, IInv, TypeOK
<1> QED
  BY <1>3, <1>4, <1>5, <1>6, <1>7, ClientFrame

LEMMA DrainGivesUpInductive ==
    ASSUME IInv, NEW c \in Clients, DrainGivesUp(c)
    PROVE  IInv'
<1>1. Proceed(c, Answered(c, "error")) /\ requests[c].at = "drain"
  BY DEF DrainGivesUp, Answer, Answered
<1> QED
  BY <1>1, AnsweredGood, CalmFrame, Knowing DEF DrainGivesUp

LEMMA DrainGetInductive ==
    ASSUME IInv, NEW c \in Clients, DrainGet(c)
    PROVE  IInv'
<1> DEFINE q == requests[c]
           r == [q EXCEPT !.step = IF cordoned THEN "list" ELSE "cordon"]
<1>1. q \in Drains /\ Allowed(q)
  BY Knowing, StateFacts DEF DrainGet, Draining
<1>2. /\ r \in Drains /\ r.at = "drain" /\ r.by = q.by /\ q.at = "drain"
      /\ r.step = IF cordoned THEN "list" ELSE "cordon"
  BY <1>1 DEF Drains
<1>3. r \in States
  BY <1>2 DEF States, Requests
<1>4. Proceed(c, r) /\ Know(c, Node)
  BY DEF DrainGet
<1>5. /\ changed' \in [Clients -> SUBSET (Objects \cup {Node})]
      /\ \A d \in Clients : d # c => changed'[d] = changed[d]
  BY <1>4, Knowing DEF Know
<1>6. Good(r, changed'[c], cluster, pods, cordoned)
  <2> HIDE DEF r, q
  <2> QED
    BY <1>1, <1>2 DEF Good, Allowed, CopyGood, DrainGood, ApplyGood
<1> QED
  <2> HIDE DEF r
  <2> QED
    BY <1>3, <1>4, <1>5, <1>6, CalmFrame, Knowing DEF DrainGet

LEMMA DrainCordonInductive ==
    ASSUME IInv, NEW c \in Clients, DrainCordon(c)
    PROVE  IInv'
<1> DEFINE q == requests[c]
           r == [q EXCEPT !.step = "list"]
<1>1. q \in Drains /\ Allowed(q) /\ q.at = "drain"
  BY Knowing, StateFacts DEF DrainCordon, Draining
<1>2. cordoned' = TRUE /\ pods' = pods /\ pods' \in [Pods -> {"here", "elsewhere", "gone"}]
  BY DEF DrainCordon, IInv, TypeOK
<1>3. CASE Answer(c, "error") /\ UNCHANGED changed
  <2>1. Proceed(c, Answered(c, "error"))
    BY <1>3 DEF Answer, Answered
  <2> QED
    BY <1>1, <1>2, <1>3, <2>1, AnsweredGood, PodFrame, Knowing DEF DrainCordon
<1>4. CASE Proceed(c, r) /\ Know(c, Node)
  <2>1. r \in Drains /\ r.at = "drain" /\ r.by = q.by /\ r.step = "list"
    BY <1>1 DEF Drains
  <2>2. r \in States
    BY <2>1 DEF States, Requests
  <2>3. /\ changed' \in [Clients -> SUBSET (Objects \cup {Node})]
        /\ \A d \in Clients : d # c => changed'[d] = changed[d]
    BY <1>4, Knowing DEF Know
  <2>4. Good(r, changed'[c], cluster, pods', cordoned')
    <3> HIDE DEF r, q
    <3> QED
      BY <1>1, <1>2, <2>1 DEF Good, Allowed, CopyGood, DrainGood, ApplyGood
  <2> QED
    <3> HIDE DEF r
    <3> QED
      BY <1>2, <1>4, <2>2, <2>3, <2>4, PodFrame DEF DrainCordon
<1> QED
  BY <1>3, <1>4 DEF DrainCordon

LEMMA DrainListInductive ==
    ASSUME IInv, NEW c \in Clients, DrainList(c)
    PROVE  IInv'
<1> DEFINE q      == requests[c]
           Listed == {i \in DOMAIN PodList : pods[PodList[i]] = "here" /\ Evictable(PodList[i], q.force)}
           r      == [q EXCEPT !.step = "evict", !.left = Listed]
<1>1. /\ q \in Drains /\ Allowed(q) /\ q.at = "drain" /\ q.step = "list"
      /\ DrainGood(q, changed[c], pods, cordoned)
  BY Knowing, StateFacts DEF DrainList, Draining
<1>2. /\ r \in Drains /\ r.at = "drain" /\ r.by = q.by /\ r.step = "evict"
      /\ r.left = Listed /\ r.force = q.force
  <2>1. Listed \subseteq DOMAIN PodList
    OBVIOUS
  <2> HIDE DEF Listed
  <2> QED
    BY <1>1, <2>1 DEF Drains
<1>3. r \in States
  BY <1>2 DEF States, Requests
<1>4. Emptied(r.force, {PodList[i] : i \in r.left}, pods)
  <2> SUFFICES ASSUME NEW p \in Pods, Evictable(p, q.force), pods[p] = "here"
               PROVE  p \in {PodList[i] : i \in Listed}
    BY <1>2 DEF Emptied
  <2>1. PICK i \in DOMAIN PodList : p = PodList[i]
    BY DEF Pods
  <2> QED
    BY <2>1
<1>5. Good(r, changed[c], cluster, pods, cordoned)
  <2> HIDE DEF r, q
  <2> QED
    BY <1>1, <1>2, <1>4 DEF Good, Allowed, CopyGood, DrainGood, ApplyGood
<1>6. Proceed(c, r)
  BY DEF DrainList
<1> QED
  <2> HIDE DEF r
  <2> QED
    BY <1>3, <1>5, <1>6, CalmFrame, Knowing DEF DrainList

LEMMA DrainEvictInductive ==
    ASSUME IInv, NEW c \in Clients, DrainEvict(c)
    PROVE  IInv'
<1> DEFINE q == requests[c]
<1>1. /\ q \in Drains /\ Allowed(q) /\ q.at = "drain" /\ q.step = "evict"
      /\ DrainGood(q, changed[c], pods, cordoned)
  BY Knowing, StateFacts DEF DrainEvict, Draining
<1>2. PICK i \in q.left :
        LET p    == PodList[i]
            rest == [q EXCEPT !.left = @ \ {i}]
        IN  IF pods[p] = "gone"
            THEN Proceed(c, rest) /\ UNCHANGED pods
            ELSE \E outcome \in Outcomes :
                    /\ pods' = IF outcome = "refused" THEN pods ELSE [pods EXCEPT ![p] = "gone"]
                    /\ Proceed(c, IF outcome = "done" THEN rest ELSE [rest EXCEPT !.failed = TRUE])
  BY DEF DrainEvict
<1> DEFINE p    == PodList[i]
           rest == [q EXCEPT !.left = @ \ {i}]
           fail == [rest EXCEPT !.failed = TRUE]
<1>3. p \in Pods
  BY <1>1 DEF Drains, Pods
<1>4. /\ rest \in Drains /\ rest.at = "drain" /\ rest.by = q.by /\ rest.step = "evict"
      /\ rest.left = q.left \ {i} /\ rest.force = q.force /\ rest.failed = q.failed
  BY <1>1 DEF Drains
<1>5. /\ fail \in Drains /\ fail.at = "drain" /\ fail.by = q.by /\ fail.step = "evict" /\ fail.failed
  <2> HIDE DEF rest
  <2> QED
    BY <1>4 DEF Drains
<1>6. ASSUME NEW r, r = rest \/ r = fail, Proceed(c, r),
             pods' \in [Pods -> {"here", "elsewhere", "gone"}],
             \A x \in Pods : pods'[x] = "here" => pods[x] = "here",
             ~r.failed => pods'[p] = "gone"
      PROVE  IInv'
  <2>1. /\ r \in Drains /\ r.at = "drain" /\ r.by = q.by /\ r.step = "evict"
    BY <1>4, <1>5, <1>6
  <2>2. r \in States
    BY <2>1 DEF States, Requests
  <2>3. Node \notin changed[c] => cordoned
    BY <1>1 DEF DrainGood
  <2>4. ASSUME Node \notin changed[c], ~r.failed
        PROVE  Emptied(r.force, {PodList[j] : j \in r.left}, pods')
    <3>1. r = rest
      BY <1>5, <1>6, <2>4
    <3>2. Emptied(q.force, {PodList[j] : j \in q.left}, pods)
      BY <1>1, <1>4, <2>4, <3>1 DEF DrainGood
    <3> SUFFICES ASSUME NEW x \in Pods, Evictable(x, q.force), pods'[x] = "here"
                 PROVE  x \in {PodList[j] : j \in q.left \ {i}}
      BY <1>4, <3>1 DEF Emptied
    <3>3. PICK j \in q.left : x = PodList[j]
      BY <1>6, <3>2 DEF Emptied
    <3>4. j # i
      BY <1>6, <2>4, <3>3
    <3> QED
      BY <3>3, <3>4
  <2>5. Good(r, changed[c], cluster, pods', cordoned)
    <3> HIDE DEF q, rest, fail
    <3> QED
      BY <1>1, <2>1, <2>3, <2>4 DEF Good, Allowed, CopyGood, DrainGood, ApplyGood
  <2> QED
    BY <1>6, <2>2, <2>5, PodFrame, Knowing DEF DrainEvict
<1>7. CASE pods[p] = "gone"
  <2>1. Proceed(c, rest) /\ pods' = pods
    BY <1>2, <1>7
  <2> HIDE DEF rest, p
  <2> QED
    BY <1>4, <1>6, <1>7, <2>1 DEF IInv, TypeOK
<1>8. CASE pods[p] # "gone"
  <2>1. PICK outcome \in Outcomes :
          /\ pods' = IF outcome = "refused" THEN pods ELSE [pods EXCEPT ![p] = "gone"]
          /\ Proceed(c, IF outcome = "done" THEN rest ELSE fail)
    BY <1>2, <1>8
  <2>2. /\ pods' \in [Pods -> {"here", "elsewhere", "gone"}]
        /\ \A x \in Pods : pods'[x] = "here" => pods[x] = "here"
    BY <1>3, <2>1 DEF IInv, TypeOK
  <2>3. CASE outcome = "done"
    <3>1. pods'[p] = "gone"
      BY <1>3, <2>1, <2>3 DEF IInv, TypeOK
    <3> HIDE DEF rest, fail, p
    <3> QED
      BY <1>6, <2>1, <2>2, <2>3, <3>1
  <2>4. CASE outcome # "done"
    <3> HIDE DEF rest, fail, p
    <3> QED
      BY <1>5, <1>6, <2>1, <2>2, <2>4
  <2> QED
    BY <2>3, <2>4
<1> QED
  BY <1>7, <1>8

LEMMA DrainEndInductive ==
    ASSUME IInv, NEW c \in Clients, DrainEnd(c)
    PROVE  IInv'
<1> DEFINE q == requests[c]
           status == IF q.failed THEN "partial" ELSE "ok"
           r == Answered(c, status)
<1>1. /\ q \in Drains /\ q.at = "drain" /\ q.step = "evict" /\ q.left = {}
      /\ q \in Requests /\ DrainGood(q, changed[c], pods, cordoned)
  BY Knowing, StateFacts DEF DrainEnd, Draining
<1>2. r \in States /\ r.at = "answered" /\ r.status = status /\ r.of = q
  BY <1>1 DEF Answered, States, Answers
<1>3. ASSUME Node \notin changed[c], ~q.failed
      PROVE  cordoned /\ Emptied(q.force, {}, pods)
  <2>1. cordoned /\ Emptied(q.force, {PodList[i] : i \in q.left}, pods)
    BY <1>1, <1>3 DEF DrainGood
  <2> QED
    BY <1>1, <2>1 DEF Emptied
<1>4. Good(r, changed[c], cluster, pods, cordoned)
  <2> HIDE DEF r, q
  <2> QED
    BY <1>1, <1>2, <1>3 DEF Good, Allowed, CopyGood, DrainGood, ApplyGood
<1>5. Proceed(c, r)
  BY DEF DrainEnd, Answer, Answered
<1> QED
  <2> HIDE DEF r
  <2> QED
    BY <1>2, <1>4, <1>5, CalmFrame, Knowing DEF DrainEnd

-----------------------------------------------------------------------------
(* Apply YAML.                                                             *)

LEMMA DocumentFacts ==
    ASSUME NEW docs \in Documents
    PROVE  /\ Len(docs) \in Nat /\ DOMAIN docs = 1..Len(docs)
           /\ \A i \in DOMAIN docs : docs[i].field \in Fields /\ docs[i].value \in Values
<1>1. docs \in Seq(Document)
  BY OperationsAssumption
<1>2. ASSUME NEW d \in Document PROVE d.field \in Fields /\ d.value \in Values
  BY DEF Document
<1> HIDE DEF Document
<1> QED
  BY <1>1, <1>2

LEMMA ApplyYAMLInductive ==
    ASSUME IInv, NEW c \in Clients, NEW docs \in Documents, NEW ns \in Namespaces,
           NEW dryRun \in BOOLEAN, ApplyYAML(c, docs, ns, dryRun)
    PROVE  IInv'
<1> DEFINE r == [at |-> "apply", docs |-> docs, namespace |-> ns, next |-> 1,
                 dryRun |-> dryRun, by |-> written]
<1>1. Intended(written, "apply", "edit") /\ IntendedNamespace(written, ns)
  BY Decision, ActionNames, OperationsAssumption DEF ApplyYAML
<1>2. r \in States
  BY Knowing DEF States, Requests, Applies
<1>3. Admit(c, r) /\ DocumentsInNamespace(docs, ns)
  BY DEF ApplyYAML
<1>4. /\ changed' \in [Clients -> SUBSET (Objects \cup {Node})]
      /\ \A d \in Clients : d # c => changed'[d] = changed[d]
  BY Knowing DEF ApplyYAML
<1>5. InForce(r, 1, changed'[c], cluster)
  <2>1. DOMAIN docs \subseteq Nat \ {0}
    BY DocumentFacts
  <2> QED
    BY <2>1 DEF InForce
<1>6. Good(r, changed'[c], cluster, pods, cordoned)
  <2>1. /\ r.at = "apply" /\ r.by = written /\ r.docs = docs /\ r.namespace = ns /\ r.next = 1
    OBVIOUS
  <2> HIDE DEF r
  <2> QED
    BY <1>1, <1>3, <1>5, <2>1 DEF Good, Allowed, CopyGood, DrainGood, ApplyGood
<1> QED
  <2> HIDE DEF r
  <2> QED
    BY <1>2, <1>3, <1>4, <1>6, AdmitInductive

\* The object a document means is one.
LEMMA TargetFacts ==
    ASSUME NEW d, NEW ns, NEW o \in Targets(d, ns), NEW p \in Targets(d, ns)
    PROVE  o = p /\ o \in Objects
<1>1. \A x, y \in Objects :
          NameOf[x] = NameOf[y] /\ NamespaceOf[x] \in {NamespaceOf[y], ClusterScope} => x = y
  BY OperationsAssumption
<1> QED
  BY <1>1 DEF Targets

\* Applying the n-th document puts it in force and leaves those before it so.
LEMMA AppliedNext ==
    ASSUME NEW q \in Applies, q.next \in DOMAIN q.docs,
           NEW o \in Targets(q.docs[q.next], q.namespace),
           NEW ch, NEW cl \in [Objects -> Versions \cup {Gone}], NEW cl2,
           cl2 = [cl EXCEPT ![o] = WithField(cl[o], q.docs[q.next].field, q.docs[q.next].value)],
           InForce(q, q.next, ch, cl)
    PROVE  InForce(q, q.next + 1, ch, cl2)
<1> DEFINE n == q.next
           D == q.docs
<1>1. /\ Len(D) \in Nat /\ n \in Nat \ {0} /\ n \in 1..Len(D) /\ DOMAIN D = 1..Len(D)
      /\ \A i \in DOMAIN D : D[i].field \in Fields /\ D[i].value \in Values
  <2>1. D \in Documents /\ n \in Nat \ {0}
    BY DEF Applies
  <2> QED
    BY <2>1, DocumentFacts
<1>2. o \in Objects
  BY DEF Targets
<1>3. /\ cl2[o] = WithField(cl[o], D[n].field, D[n].value)
      /\ \A x \in Objects : x # o => cl2[x] = cl[x]
  BY <1>2
<1>4. /\ cl2[o] # Gone /\ cl2[o][D[n].field] = D[n].value
      /\ cl[o] # Gone => \A f \in Fields : f # D[n].field => cl2[o][f] = cl[o][f]
  <2>1. D[n].field \in Fields /\ D[n].value \in Values
    BY <1>1
  <2>2. WithField(cl[o], D[n].field, D[n].value) \in Versions
    BY <1>2, <2>1 DEF WithField, Versions, Values
  <2>3. Gone \notin Versions
    BY OperationsAssumption DEF Versions
  <2>4. \A f \in Fields : WithField(cl[o], D[n].field, D[n].value)[f] =
          IF f = D[n].field THEN D[n].value ELSE IF cl[o] = Gone THEN 0 ELSE cl[o][f]
    BY DEF WithField
  <2> HIDE DEF D, n
  <2> QED
    BY <1>3, <2>1, <2>2, <2>3, <2>4
<1> SUFFICES ASSUME NEW i \in DOMAIN D, i < n + 1
             PROVE  /\ Targets(D[i], q.namespace) # {}
                    /\ \A x \in Objects \ ch : DecidesBefore(q, i, n + 1, x) =>
                          cl2[x] # Gone /\ cl2[x][D[i].field] = D[i].value
  BY DEF InForce
<1>5. CASE i = n
  <2>1. Targets(D[i], q.namespace) # {}
    BY <1>5
  <2>2. ASSUME NEW x \in Objects, DecidesBefore(q, i, n + 1, x) PROVE x = o
    BY <1>5, <2>2, TargetFacts DEF DecidesBefore
  <2> QED
    BY <1>4, <1>5, <2>1, <2>2
<1>6. CASE i # n
  <2>1. i < n
    BY <1>1, <1>6
  <2>2. Targets(D[i], q.namespace) # {}
    BY <2>1 DEF InForce
  <2>3. ASSUME NEW x \in Objects \ ch, DecidesBefore(q, i, n + 1, x)
        PROVE  cl2[x] # Gone /\ cl2[x][D[i].field] = D[i].value
    <3>1. DecidesBefore(q, i, n, x)
      BY <1>1, <2>3 DEF DecidesBefore
    <3>2. cl[x] # Gone /\ cl[x][D[i].field] = D[i].value
      BY <2>1, <3>1 DEF InForce
    <3>3. CASE x # o
      BY <1>3, <3>2, <3>3
    <3>4. CASE x = o
      <4>1. D[n].field # D[i].field
        BY <1>1, <2>1, <2>3, <3>4 DEF DecidesBefore
      <4>2. D[i].field \in Fields
        BY <1>1
      <4> HIDE DEF D, n
      <4> QED
        BY <1>4, <3>2, <3>4, <4>1, <4>2
    <3> QED
      BY <3>3, <3>4
  <2> QED
    BY <2>2, <2>3
<1> QED
  BY <1>5, <1>6

LEMMA ApplyDocumentInductive ==
    ASSUME IInv, NEW c \in Clients, ApplyDocument(c)
    PROVE  IInv'
<1> DEFINE q == requests[c]
           d == q.docs[q.next]
           r == [q EXCEPT !.next = @ + 1]
<1>1. /\ q \in Applies /\ q.at = "apply" /\ q.next \in DOMAIN q.docs
      /\ Allowed(q) /\ ApplyGood(q, changed[c], cluster)
  BY Knowing, StateFacts DEF ApplyDocument, Applying
<1>2. /\ Answered(c, "error") \in States
      /\ \A ch, cl, ps, cordon : Good(Answered(c, "error"), ch, cl, ps, cordon)
  BY <1>1, AnsweredGood
<1>3. CASE Answer(c, "error") /\ UNCHANGED <<cluster, changed>>
  <2>1. Proceed(c, Answered(c, "error"))
    BY <1>3 DEF Answer, Answered
  <2> QED
    BY <1>2, <1>3, <2>1, CalmFrame, Knowing DEF ApplyDocument
<1>4. ASSUME NEW o \in Targets(d, q.namespace), NEW outcome \in Outcomes,
             PutUnless(IF q.dryRun THEN "refused" ELSE outcome, c, o, WithField(cluster[o], d.field, d.value)),
             IF outcome = "done" THEN Proceed(c, r) ELSE Answer(c, "error")
      PROVE  IInv'
  <2> DEFINE v == WithField(cluster[o], d.field, d.value)
             write == IF q.dryRun THEN "refused" ELSE outcome
  <2>1. o \in Objects /\ d.field \in Fields /\ d.value \in Values /\ q.dryRun \in BOOLEAN
    <3>1. q.docs \in Documents /\ q.dryRun \in BOOLEAN
      BY <1>1 DEF Applies
    <3> QED
      BY <1>1, <3>1, DocumentFacts DEF Targets
  <2>2. v \in Versions
    BY <2>1 DEF WithField, Versions, Values, IInv, TypeOK
  <2>3. CASE outcome # "done"
    <3>1. Proceed(c, Answered(c, "error"))
      BY <1>4, <2>3 DEF Answer, Answered
    <3> HIDE DEF v, write
    <3>2. PutUnless(write, c, o, v)
      BY <1>4 DEF v, write
    <3> QED
      BY <1>2, <2>1, <2>2, <3>1, <3>2, WriteFrame DEF ApplyDocument
  <2>4. CASE outcome = "done"
    <3>1. Proceed(c, r)
      BY <1>4, <2>4
    <3>2. /\ r \in Applies /\ r.at = "apply" /\ r.by = q.by /\ r.docs = q.docs
          /\ r.namespace = q.namespace /\ r.dryRun = q.dryRun /\ r.next = q.next + 1
      BY <1>1 DEF Applies
    <3>3. r \in States
      BY <3>2 DEF States, Requests
    <3>4. ASSUME ~q.dryRun PROVE InForce(r, r.next, changed[c], cluster')
      <4>1. cluster' = [cluster EXCEPT ![o] = v]
        BY <1>4, <2>4, <3>4 DEF PutUnless, Put
      <4>2. InForce(q, q.next + 1, changed[c], cluster')
        <5>1. cluster \in [Objects -> Versions \cup {Gone}]
          BY DEF IInv, TypeOK
        <5>2. InForce(q, q.next, changed[c], cluster)
          BY <1>1, <3>4 DEF ApplyGood
        <5> HIDE DEF q
        <5> QED
          BY <1>1, <1>4, <4>1, <5>1, <5>2, AppliedNext
      <4> HIDE DEF r, q
      <4> QED
        BY <3>2, <4>2 DEF InForce, DecidesBefore
    <3>5. Good(r, changed[c], cluster', pods, cordoned)
      <4> HIDE DEF r, q
      <4> QED
        BY <1>1, <3>2, <3>4 DEF Good, Allowed, CopyGood, DrainGood, ApplyGood
    <3> HIDE DEF v, write, r
    <3>6. PutUnless(write, c, o, v)
      BY <1>4 DEF v, write
    <3> QED
      BY <2>1, <2>2, <3>1, <3>3, <3>5, <3>6, WriteFrame DEF ApplyDocument
  <2> QED
    BY <2>3, <2>4
<1> QED
  BY <1>3, <1>4 DEF ApplyDocument

LEMMA ApplyEndInductive ==
    ASSUME IInv, NEW c \in Clients, ApplyEnd(c)
    PROVE  IInv'
<1> DEFINE q == requests[c]
           r == Answered(c, "ok")
<1>1. /\ q \in Applies /\ q.at = "apply" /\ q.next \notin DOMAIN q.docs
      /\ q \in Requests /\ ApplyGood(q, changed[c], cluster)
  BY Knowing, StateFacts DEF ApplyEnd, Applying
<1>2. r \in States /\ r.at = "answered" /\ r.status = "ok" /\ r.of = q
  BY <1>1 DEF Answered, States, Answers
<1>3. ASSUME ~q.dryRun PROVE InForce(q, Len(q.docs) + 1, changed[c], cluster)
  <2>1. InForce(q, q.next, changed[c], cluster)
    BY <1>1, <1>3 DEF ApplyGood
  <2>2. /\ q.next \in Nat \ {0}
        /\ DOMAIN q.docs = 1..Len(q.docs) /\ Len(q.docs) \in Nat
    <3>1. q.docs \in Documents /\ q.next \in Nat \ {0}
      BY <1>1 DEF Applies
    <3> QED
      BY <3>1, DocumentFacts
  <2>3. \A i \in DOMAIN q.docs : i < q.next /\ i < Len(q.docs) + 1
    BY <1>1, <2>2
  <2> HIDE DEF q
  <2> QED
    BY <2>1, <2>3 DEF InForce, DecidesBefore
<1>4. Good(r, changed[c], cluster, pods, cordoned)
  <2> HIDE DEF r, q
  <2> QED
    BY <1>1, <1>2, <1>3 DEF Good, Allowed, CopyGood, DrainGood, ApplyGood
<1>5. Proceed(c, r)
  BY DEF ApplyEnd, Answer, Answered
<1> QED
  <2> HIDE DEF r
  <2> QED
    BY <1>2, <1>4, <1>5, CalmFrame, Knowing DEF ApplyEnd

-----------------------------------------------------------------------------
(* Roles, others, the whole.                                               *)

LEMMA StoredFacts ==
    ASSUME NEW w \in RoleWrites
    PROVE  /\ Stored(w) \in [mode : Modes, permissions : Permissions]
           /\ Normal(Stored(w).permissions)
           /\ MeansWhatWasWritten(Stored(w).permissions, Content[w].raw)
<1>1. Content[w].raw \in Raw /\ Content[w].mode \in Modes
  BY OperationsAssumption
<1>2. /\ Normal(NormalizePermissions(Content[w].raw))
      /\ MeansWhatWasWritten(NormalizePermissions(Content[w].raw), Content[w].raw)
  BY <1>1, NormalizeFacts
<1>3. NormalizePermissions(Content[w].raw) \in Permissions
  BY <1>2 DEF Normal
<1> QED
  BY <1>1, <1>2, <1>3 DEF Stored

LEMMA SaveRoleInductive ==
    ASSUME IInv, NEW w \in RoleWrites, SaveRole(w)
    PROVE  IInv'
<1>1. role' = Stored(w) /\ written' = w
  BY DEF SaveRole
<1>2. TypeOK'
  BY <1>1, StoredFacts DEF SaveRole, IInv, TypeOK
<1>3. RoleSaved'
  BY <1>1 DEF RoleSaved, Stored
<1>4. AllGood'
  BY DEF SaveRole, IInv, AllGood
<1> QED
  BY <1>2, <1>3, <1>4 DEF IInv

LEMMA RestartInductive ==
    ASSUME IInv, Restart
    PROVE  IInv'
<1>1. role' = role
  <2>1. Normal(role.permissions)
    BY StoredFacts DEF IInv, TypeOK, RoleSaved
  <2>2. Reloaded(role.permissions) = role.permissions
    BY <2>1, ReloadFacts
  <2> QED
    BY <2>2 DEF Restart, IInv, TypeOK
<1>2. /\ Idle \in Requests /\ Idle.at = "idle" /\ Allowed(Idle)
  BY DEF Idle, Requests, Allowed
<1>3. TypeOK'
  <2>1. requests' \in [Clients -> Requests \cup Answers]
    BY <1>2 DEF Restart, IInv, TypeOK
  <2> QED
    BY <1>1, <2>1 DEF Restart, IInv, TypeOK
<1>4. ASSUME NEW c \in Clients
      PROVE  Good(requests'[c], changed'[c], cluster', pods', cordoned')
  <2>1. CASE requests[c].at = "opened"
    <3>1. requests'[c] = requests[c] /\ UNCHANGED <<changed, cluster, pods, cordoned>>
      BY <2>1 DEF Restart
    <3> QED
      BY <3>1, Knowing
  <2>2. CASE requests[c].at # "opened"
    <3>1. requests'[c] = Idle
      BY <2>2 DEF Restart
    <3> QED
      BY <1>2, <3>1, PlainGood
  <2> QED
    BY <2>1, <2>2
<1>5. AllGood'
  BY <1>4 DEF AllGood
<1>6. RoleSaved'
  BY <1>1 DEF Restart, IInv, RoleSaved, Stored
<1> QED
  BY <1>3, <1>5, <1>6 DEF IInv

\* A step of somebody else, told to every client.
LEMMA OthersFrame ==
    ASSUME IInv, UNCHANGED <<role, written, requests, admitted, cordoned>>, OthersAct,
           cluster' \in [Objects -> Versions \cup {Gone}],
           pods' \in [Pods -> {"here", "elsewhere", "gone"}],
           changed' \in [Clients -> SUBSET (Objects \cup {Node})],
           \A d \in Clients : Undisturbed(d)
    PROVE  IInv'
<1>1. TypeOK'
  BY DEF IInv, TypeOK, OthersAct
<1>2. RoleSaved'
  BY DEF IInv, RoleSaved, Stored
<1>3. AllGood'
  BY UndisturbedGood DEF AllGood
<1> QED
  BY <1>1, <1>2, <1>3 DEF IInv

LEMMA OthersPut ==
    ASSUME IInv, UNCHANGED <<role, written, pods, cordoned, requests, admitted>>, OthersAct,
           NEW o \in Objects, NEW v \in Versions \cup {Gone}, Put({}, o, v)
    PROVE  IInv'
<1>1. {} \in SUBSET Clients /\ Clients \ {} = Clients
  OBVIOUS
<1>2. /\ cluster' \in [Objects -> Versions \cup {Gone}]
      /\ changed' \in [Clients -> SUBSET (Objects \cup {Node})]
      /\ \A d \in Clients : /\ changed[d] \subseteq changed'[d]
                            /\ \A x \in Objects : cluster'[x] # cluster[x] => x \in changed'[d]
  BY <1>1, PutFacts
<1>3. \A d \in Clients : Undisturbed(d)
  BY <1>2 DEF Undisturbed
<1>4. pods' \in [Pods -> {"here", "elsewhere", "gone"}]
  BY DEF IInv, TypeOK
<1> QED
  BY <1>2, <1>3, <1>4, OthersFrame

LEMMA OthersInductive ==
    ASSUME IInv, OthersStep
    PROVE  IInv'
<1>1. ASSUME NEW e \in Edits, OthersEdit(e) PROVE IInv'
  <2>1. e.object \in Objects /\ e.field \in Fields /\ e.value \in Values
    BY OperationsAssumption
  <2>2. WithField(cluster[e.object], e.field, e.value) \in Versions
    BY <2>1 DEF WithField, Versions, Values, IInv, TypeOK
  <2> QED
    BY <1>1, <2>1, <2>2, OthersPut DEF OthersEdit
<1>2. ASSUME NEW o \in Objects, OthersDelete(o) PROVE IInv'
  BY <1>2, OthersPut DEF OthersDelete
<1>3. ASSUME NEW p \in Pods, PodEnds(p) \/ PodPlaced(p) PROVE IInv'
  <2>1. /\ UNCHANGED <<role, written, cluster, cordoned, requests, changed, admitted>>
        /\ OthersAct
    BY <1>3 DEF PodEnds, PodPlaced
  <2>2. /\ pods' \in [Pods -> {"here", "elsewhere", "gone"}]
        /\ \A x \in Pods : pods'[x] = "here" =>
              pods[x] = "here" \/ ~cordoned \/ ClassOf[x] \in {"daemon", "mirror"}
    BY <1>3 DEF PodEnds, PodPlaced, IInv, TypeOK
  <2>3. \A d \in Clients : Undisturbed(d)
    BY <2>1, <2>2 DEF Undisturbed
  <2> QED
    BY <2>1, <2>2, <2>3, OthersFrame DEF IInv, TypeOK
<1> QED
  BY <1>1, <1>2, <1>3 DEF OthersStep

LEMMA ClientInductive ==
    ASSUME IInv, NEW c \in Clients,
           \/ ManifestStep(c) \/ WorkloadStep(c) \/ PodStep(c)
           \/ NodeStep(c) \/ ApplyStep(c) \/ Acknowledge(c)
    PROVE  IInv'
<1>1. CASE ManifestStep(c)
  BY <1>1, OpenManifestInductive, SubmitManifestInductive, UpdateCallInductive DEF ManifestStep
<1>2. CASE WorkloadStep(c)
  BY <1>2, WorkloadEditInductive, ReadWorkloadInductive, DeleteResourceInductive,
     DeleteCallInductive DEF WorkloadStep
<1>3. CASE PodStep(c)
  BY <1>3, RemovePodInductive, PodCallInductive DEF PodStep
<1>4. CASE NodeStep(c)
  BY <1>4, DrainNodeInductive, DrainGivesUpInductive, DrainGetInductive, DrainCordonInductive,
     DrainListInductive, DrainEvictInductive, DrainEndInductive, UncordonNodeInductive,
     UncordonCallInductive DEF NodeStep
<1>5. CASE ApplyStep(c)
  BY <1>5, ApplyYAMLInductive, ApplyDocumentInductive, ApplyEndInductive DEF ApplyStep
<1> QED
  BY <1>1, <1>2, <1>3, <1>4, <1>5, AcknowledgeInductive

LEMMA Initially == Init => IInv
<1> SUFFICES ASSUME Init PROVE IInv
  OBVIOUS
<1>1. Idle \in Requests /\ Idle.at = "idle" /\ Allowed(Idle)
  BY DEF Idle, Requests, Allowed
<1>2. TypeOK
  <2>1. written \in RoleWrites /\ role \in [mode : Modes, permissions : Permissions]
    BY StoredFacts DEF Init
  <2>2. cluster \in [Objects -> Versions \cup {Gone}]
    BY DEF Init, Versions, Values
  <2>3. /\ pods \in [Pods -> {"here", "elsewhere", "gone"}]
        /\ requests \in [Clients -> Requests \cup Answers]
        /\ changed \in [Clients -> SUBSET (Objects \cup {Node})]
    BY <1>1 DEF Init
  <2>4. cordoned \in BOOLEAN /\ admitted \in Nat /\ others \in Nat
    BY DEF Init
  <2> QED
    BY <2>1, <2>2, <2>3, <2>4 DEF TypeOK
<1>3. RoleSaved
  BY DEF Init, RoleSaved
<1>4. AllGood
  BY <1>1, PlainGood DEF Init, AllGood
<1> QED
  BY <1>2, <1>3, <1>4 DEF IInv

LEMMA Inductive == IInv /\ [Next]_opVars => IInv'
<1> SUFFICES ASSUME IInv, [Next]_opVars PROVE IInv'
  OBVIOUS
<1>1. CASE UNCHANGED opVars
  BY <1>1 DEF opVars, IInv, TypeOK, RoleSaved, Stored, AllGood
<1>2. CASE RoleStep
  BY <1>2, SaveRoleInductive, RestartInductive DEF RoleStep
<1> QED
  BY <1>1, <1>2, ClientInductive, OthersInductive DEF Next

LEMMA Invariant == Spec => []IInv
BY Initially, Inductive, PTL DEF Spec

-----------------------------------------------------------------------------
(* The theorems.                                                           *)

\* Roles, objects, pods and requests are of their types.
THEOREM TypeCorrect == Spec => []TypeOK
<1>1. IInv => TypeOK
  BY DEF IInv
<1> QED
  BY <1>1, Invariant, PTL

\* The stored role decides as its author wrote it, through normalisation, the
\* Secret's levels and any number of restarts.
THEOREM RolesKeepTheirMeaning == Spec => []RoleMeansWhatWasSaved
<1>1. IInv => RoleMeansWhatWasSaved
  BY StoredFacts DEF IInv, TypeOK, RoleSaved, RoleMeansWhatWasSaved
<1> QED
  BY <1>1, Invariant, PTL

\* An Apply YAML that answers "ok" left every document in force.
THEOREM ApplyMeansApplied == Spec => []AppliedHolds
<1>1. ASSUME IInv, NEW c \in Clients, requests[c].at = "answered",
             requests[c].status = "ok", requests[c].of.at = "apply", ~requests[c].of.dryRun
      PROVE  \A i \in DOMAIN requests[c].of.docs :
                /\ Targets(requests[c].of.docs[i], requests[c].of.namespace) # {}
                /\ \A o \in Objects \ changed[c] : Decides(requests[c].of, i, o) =>
                      /\ cluster[o] # Gone
                      /\ cluster[o][requests[c].of.docs[i].field] = requests[c].of.docs[i].value
  <2> DEFINE r == requests[c].of
             n == Len(r.docs) + 1
  <2>1. requests[c] \in Answers
    BY <1>1, Knowing, StateFacts
  <2>2. r \in Requests /\ Requests \subseteq States
    BY <2>1 DEF Answers, States
  <2>3. r \in Applies
    BY <1>1, <2>2, StateFacts
  <2>4. r.docs \in Documents
    BY <2>3 DEF Applies
  <2>5. Len(r.docs) \in Nat /\ DOMAIN r.docs = 1..Len(r.docs)
    BY <2>4, DocumentFacts
  <2>6. InForce(r, n, changed[c], cluster)
    BY <1>1, Knowing DEF ApplyGood
  <2>7. \A i \in DOMAIN r.docs, o \in Objects : Decides(r, i, o) => DecidesBefore(r, i, n, o)
    BY <2>5 DEF Decides, DecidesBefore
  <2>8. \A i \in DOMAIN r.docs : i < n
    BY <2>5
  <2> HIDE DEF r, n
  <2>9. \A i \in DOMAIN r.docs :
          /\ Targets(r.docs[i], r.namespace) # {}
          /\ \A o \in Objects \ changed[c] : Decides(r, i, o) =>
                cluster[o] # Gone /\ cluster[o][r.docs[i].field] = r.docs[i].value
    BY <2>6, <2>7, <2>8 DEF InForce
  <2> QED
    BY <2>9 DEF r
<1>2. IInv => AppliedHolds
  BY <1>1 DEF AppliedHolds
<1> QED
  BY <1>2, Invariant, PTL

\* A drain that answers "ok" left no pod it was to move.
THEOREM DrainMeansDrained == Spec => []DrainLeavesNothing
<1>1. ASSUME IInv, NEW c \in Clients, requests[c].at = "answered",
             requests[c].status = "ok", requests[c].of.at = "drain", Node \notin changed[c]
      PROVE  \A p \in Pods : Evictable(p, requests[c].of.force) => pods[p] # "here"
  <2>1. Emptied(requests[c].of.force, {}, pods)
    BY <1>1, Knowing DEF DrainGood
  <2> QED
    BY <2>1 DEF Emptied
<1>2. IInv => DrainLeavesNothing
  BY <1>1 DEF DrainLeavesNothing
<1> QED
  BY <1>2, Invariant, PTL

-----------------------------------------------------------------------------
(* Steps.                                                                  *)

ClientStep(c) ==
    \/ ManifestStep(c) \/ WorkloadStep(c) \/ PodStep(c)
    \/ NodeStep(c) \/ ApplyStep(c) \/ Acknowledge(c)

\* A client's steps that leave the cluster alone, but for opening a manifest.
Quiet(c) ==
    \/ \E e \in Edits, versioned, dryRun \in BOOLEAN : \E k \in KindsFor(e.object) :
           SubmitManifest(c, k, e, versioned, dryRun)
    \/ \E e \in Edits : Scale(c, e) \/ RestartDeployment(c, e)
    \/ ReadWorkload(c)
    \/ \E o \in Objects : DeleteResource(c, o)
    \/ \E p \in Pods : DeletePod(c, p) \/ EvictPod(c, p)
    \/ \E force \in BOOLEAN : DrainNode(c, force)
    \/ DrainGivesUp(c) \/ DrainGet(c) \/ DrainList(c) \/ DrainEnd(c)
    \/ UncordonNode(c)
    \/ \E docs \in Documents, ns \in Namespaces, dryRun \in BOOLEAN : ApplyYAML(c, docs, ns, dryRun)
    \/ ApplyEnd(c)
    \/ Acknowledge(c)

LEMMA QuietFacts ==
    ASSUME IInv, NEW c \in Clients, Quiet(c)
    PROVE  /\ UNCHANGED <<cluster, pods, cordoned>>
           /\ \E r : Proceed(c, r) /\ r.at # "opened"
           /\ requests[c].at # "update"
<1>1. CASE \E e \in Edits, versioned, dryRun \in BOOLEAN : \E k \in KindsFor(e.object) :
           SubmitManifest(c, k, e, versioned, dryRun)
  BY <1>1 DEF SubmitManifest
<1>2. CASE \/ \E e \in Edits : Scale(c, e) \/ RestartDeployment(c, e)
           \/ \E o \in Objects : DeleteResource(c, o)
           \/ \E p \in Pods : DeletePod(c, p) \/ EvictPod(c, p)
           \/ \E force \in BOOLEAN : DrainNode(c, force)
           \/ UncordonNode(c)
           \/ \E docs \in Documents, ns \in Namespaces, dryRun \in BOOLEAN : ApplyYAML(c, docs, ns, dryRun)
  <2>1. ASSUME NEW e \in Edits, Scale(c, e) \/ RestartDeployment(c, e)
        PROVE  CanAsk(c) /\ \E r : Admit(c, r) /\ r.at # "opened"
    BY <2>1 DEF Scale, RestartDeployment, AdmitWorkloadEdit
  <2>2. ASSUME NEW o \in Objects, DeleteResource(c, o)
        PROVE  CanAsk(c) /\ \E r : Admit(c, r) /\ r.at # "opened"
    BY <2>2 DEF DeleteResource
  <2>3. ASSUME NEW p \in Pods, DeletePod(c, p) \/ EvictPod(c, p)
        PROVE  CanAsk(c) /\ \E r : Admit(c, r) /\ r.at # "opened"
    BY <2>3 DEF DeletePod, EvictPod, RemovePod
  <2>4. ASSUME NEW force \in BOOLEAN, DrainNode(c, force) \/ UncordonNode(c)
        PROVE  CanAsk(c) /\ \E r : Admit(c, r) /\ r.at # "opened"
    BY <2>4 DEF DrainNode, UncordonNode
  <2>5. ASSUME NEW docs \in Documents, NEW ns \in Namespaces, NEW dryRun \in BOOLEAN,
               ApplyYAML(c, docs, ns, dryRun)
        PROVE  CanAsk(c) /\ \E r : Admit(c, r) /\ r.at # "opened"
    BY <2>5 DEF ApplyYAML
  <2>6. CanAsk(c) /\ \E r : Admit(c, r) /\ r.at # "opened"
    BY <1>2, <2>1, <2>2, <2>3, <2>4, <2>5
  <2>7. PICK r : Admit(c, r) /\ r.at # "opened"
    BY <2>6
  <2>8. requests[c].at = "idle"
    BY <2>6 DEF CanAsk, Idle
  <2> QED
    BY <2>7, <2>8 DEF Admit, Proceed
<1>3. CASE ReadWorkload(c)
  BY <1>3 DEF ReadWorkload, Answer
<1>4. CASE DrainGivesUp(c) \/ DrainEnd(c) \/ ApplyEnd(c)
  BY <1>4 DEF DrainGivesUp, DrainEnd, ApplyEnd, Answer, Draining
<1>5. CASE DrainGet(c) \/ DrainList(c)
  <2>1. requests[c] \in Drains /\ requests[c].at = "drain"
    BY <1>5, Knowing, StateFacts DEF DrainGet, DrainList, Draining
  <2>2. \A step, left : [requests[c] EXCEPT !.step = step].at = "drain"
                     /\ [requests[c] EXCEPT !.step = step, !.left = left].at = "drain"
    BY <2>1 DEF Drains
  <2> QED
    BY <1>5, <2>1, <2>2 DEF DrainGet, DrainList
<1>6. CASE Acknowledge(c)
  BY <1>6 DEF Acknowledge, Idle
<1> QED
  BY <1>1, <1>2, <1>3, <1>4, <1>5, <1>6 DEF Quiet

\* A client's step is its alone.
LEMMA StepCases ==
    ASSUME IInv, NEW c \in Clients, ClientStep(c)
    PROVE  \/ Quiet(c)
           \/ \E o \in Objects : OpenManifest(c, o)
           \/ UpdateCall(c) \/ DeleteCall(c) \/ PodCall(c) \/ DrainCordon(c) \/ DrainEvict(c)
           \/ UncordonCall(c) \/ ApplyDocument(c)
BY DEF ClientStep, ManifestStep, WorkloadStep, PodStep, NodeStep, ApplyStep, Quiet

LEMMA ProceedFrame ==
    ASSUME IInv, NEW c \in Clients, NEW r, Proceed(c, r)
    PROVE  requests'[c] = r /\ \A d \in Clients : d # c => requests'[d] = requests[d]
BY Knowing DEF Proceed

LEMMA StepProceeds ==
    ASSUME IInv, NEW c \in Clients, ClientStep(c)
    PROVE  \E r : Proceed(c, r)
<1>1. CASE Quiet(c)
  BY <1>1, QuietFacts
<1>2. CASE \E o \in Objects : OpenManifest(c, o)
  BY <1>2 DEF OpenManifest, Admit, Proceed
<1>3. CASE UpdateCall(c) \/ DeleteCall(c) \/ PodCall(c) \/ UncordonCall(c)
  BY <1>3 DEF UpdateCall, DeleteCall, PodCall, UncordonCall, Answer
<1>4. CASE DrainCordon(c)
  BY <1>4 DEF DrainCordon, Answer
<1>5. CASE DrainEvict(c)
  BY <1>5 DEF DrainEvict
<1>6. CASE ApplyDocument(c)
  BY <1>6 DEF ApplyDocument, Answer
<1> QED
  BY <1>1, <1>2, <1>3, <1>4, <1>5, <1>6, StepCases

\* A versioned update changes the field it is about and nothing else.
THEOREM EditsKeepWhatOthersDid == Spec => EditsKeepOthers
<1> DEFINE Kept(c) ==
      LET r == requests[c]
      IN  /\ Acts(c) /\ r.at = "update" /\ r.versioned
          /\ cluster'[r.object] # cluster[r.object]
          => /\ cluster[r.object] # Gone
             /\ \A f \in Fields \ {r.field} : cluster'[r.object][f] = cluster[r.object][f]
<1>1. ASSUME IInv, NEW c \in Clients, UpdateCall(c) PROVE Kept(c)
  <2> DEFINE q == requests[c]
  <2> SUFFICES ASSUME q.versioned, cluster'[q.object] # cluster[q.object]
               PROVE  /\ cluster[q.object] # Gone
                      /\ \A f \in Fields \ {q.field} : cluster'[q.object][f] = cluster[q.object][f]
    OBVIOUS
  <2>1. q \in Updates /\ CopyGood(q, changed[c], cluster) /\ q.at = "update"
    BY <1>1, Knowing, StateFacts DEF UpdateCall
  <2>2. q.object \in Objects /\ q.value \in Versions \cup {Gone}
    BY <2>1 DEF Updates
  <2>3. PICK outcome \in IF cluster[q.object] = Gone \/ (q.versioned /\ q.object \in changed[c])
                         THEN {"refused"} ELSE Outcomes :
          PutUnless(IF q.dryRun THEN "refused" ELSE outcome, c, q.object, q.value)
    BY <1>1 DEF UpdateCall
  <2>4. outcome # "refused" /\ Put({c}, q.object, q.value)
    BY <2>3 DEF PutUnless
  <2>5. q.object \notin changed[c]
    BY <2>3, <2>4
  <2>6. cluster'[q.object] = q.value
    <3>1. {c} \in SUBSET Clients
      OBVIOUS
    <3> QED
      BY <1>1, <2>2, <2>4, <3>1, PutFacts
  <2> QED
    BY <2>1, <2>5, <2>6 DEF CopyGood
<1>2. ASSUME IInv, NEW c \in Clients, NEW d \in Clients, ClientStep(d) PROVE Kept(c)
  <2> SUFFICES ASSUME Acts(c), requests[c].at = "update" PROVE Kept(c)
    OBVIOUS
  <2>1. c = d
    BY <1>2, StepProceeds, ProceedFrame DEF Acts
  <2>2. ~Quiet(c)
    BY <1>2, QuietFacts
  <2>3. \A o \in Objects : ~OpenManifest(c, o)
    BY DEF OpenManifest, CanAsk, Idle
  <2>4. /\ ~DeleteCall(c) /\ ~PodCall(c) /\ ~DrainCordon(c) /\ ~DrainEvict(c)
        /\ ~UncordonCall(c) /\ ~ApplyDocument(c)
    BY DEF DeleteCall, PodCall, DrainCordon, DrainEvict, Draining, UncordonCall, ApplyDocument,
           Applying
  <2>5. UpdateCall(c)
    BY <1>2, <2>1, <2>2, <2>3, <2>4, StepCases
  <2> QED
    BY <1>1, <1>2, <2>5
<1>3. ASSUME IInv, NEW c \in Clients, RoleStep \/ OthersStep \/ UNCHANGED opVars PROVE Kept(c)
  <2>1. CASE Restart
    BY <2>1 DEF Restart
  <2>2. CASE ~Restart
    BY <1>3, <2>2 DEF RoleStep, SaveRole, OthersStep, OthersEdit, OthersDelete, PodEnds, PodPlaced,
                opVars, Acts
  <2> QED
    BY <2>1, <2>2
<1>4. IInv /\ [Next]_opVars => \A c \in Clients : Kept(c)
  BY <1>2, <1>3 DEF Next, ClientStep
<1>5. IInv /\ [Next]_opVars => [\A c \in Clients : Kept(c)]_opVars
  BY <1>4
<1> QED
  BY <1>5, Invariant, PTL DEF Spec, EditsKeepOthers

-----------------------------------------------------------------------------
(* Every change is one the role of its request allows.                     *)

ObjectsWithin ==
    \A o \in Objects : cluster'[o] # cluster[o] =>
        \E c \in Clients : Acts(c) /\ MayChange(requests[c], o)

PodsWithin ==
    \A p \in Pods : pods'[p] # pods[p] =>
        \E c \in Clients : Acts(c) /\ MayRemovePod(requests[c], p)

CordonWithin ==
    cordoned' # cordoned =>
        \E c \in Clients : /\ Acts(c) /\ requests[c].at \in {"drain", "uncordon"}
                           /\ Intended(requests[c].by, "nodes", "edit")

OpeningWithin ==
    \A c \in Clients : Acts(c) /\ requests'[c].at = "opened" =>
        LET area == KindToResource(KindOf[requests'[c].object])
        IN  Intended(written, area, IF area = "secrets" THEN "edit" ELSE "view")

Within == ObjectsWithin /\ PodsWithin /\ CordonWithin /\ OpeningWithin

\* A step of client c that goes on to something else than an opened manifest.
LEMMA NothingOpened ==
    ASSUME IInv, NEW c \in Clients, NEW r, Proceed(c, r), r.at # "opened"
    PROVE  OpeningWithin
BY ProceedFrame DEF OpeningWithin, Acts

LEMMA QuietWithin ==
    ASSUME IInv, NEW c \in Clients, Quiet(c)
    PROVE  Within
BY QuietFacts, NothingOpened DEF Within, ObjectsWithin, PodsWithin, CordonWithin

LEMMA AnsweredActs ==
    ASSUME IInv, NEW c \in Clients, NEW status, Answer(c, status), requests[c].at # "answered"
    PROVE  Acts(c) /\ OpeningWithin
<1> DEFINE r == [at |-> "answered", status |-> status, of |-> requests[c]]
<1>1. r.at = "answered" /\ Proceed(c, r)
  BY DEF Answer
<1> HIDE DEF r
<1>2. requests'[c] = r
  BY <1>1, ProceedFrame
<1> QED
  BY <1>1, <1>2, NothingOpened DEF Acts

LEMMA OpenManifestWithin ==
    ASSUME IInv, NEW c \in Clients, NEW o \in Objects, OpenManifest(c, o)
    PROVE  Within
<1> DEFINE r    == [at |-> "opened", object |-> o, copy |-> cluster[o]]
           area == KindToResource(KindOf[o])
<1>1. /\ HasPermission(role, area, ManifestPermissionAction(area)) /\ Proceed(c, r)
      /\ UNCHANGED <<cluster, pods, cordoned>>
  BY DEF OpenManifest, Admit, Proceed
<1>2. /\ area \in Resources /\ ManifestPermissionAction(area) \in Actions
      /\ ManifestPermissionAction(area) = IF area = "secrets" THEN "edit" ELSE "view"
  BY ActionNames, OperationsAssumption DEF ManifestPermissionAction
<1>3. Intended(written, area, IF area = "secrets" THEN "edit" ELSE "view")
  BY <1>1, <1>2, Decision
<1>4. requests'[c].object = o /\ \A d \in Clients : d # c => ~Acts(d)
  BY <1>1, ProceedFrame DEF Acts
<1>5. OpeningWithin
  BY <1>3, <1>4 DEF OpeningWithin
<1> QED
  BY <1>1, <1>5 DEF Within, ObjectsWithin, PodsWithin, CordonWithin

\* A write of one object by a request that may change it.
LEMMA WriteWithin ==
    ASSUME IInv, NEW c \in Clients, NEW o \in Objects, NEW v \in Versions \cup {Gone}, NEW outcome,
           PutUnless(outcome, c, o, v), Acts(c), OpeningWithin, MayChange(requests[c], o),
           UNCHANGED <<pods, cordoned>>
    PROVE  Within
<1>1. CASE outcome = "refused"
  BY <1>1 DEF PutUnless, Within, ObjectsWithin, PodsWithin, CordonWithin
<1>2. CASE outcome # "refused"
  <2>1. Put({c}, o, v) /\ {c} \in SUBSET Clients
    BY <1>2 DEF PutUnless
  <2>2. \A x \in Objects : x # o => cluster'[x] = cluster[x]
    BY <2>1, PutFacts
  <2> QED
    BY <2>2 DEF Within, ObjectsWithin, PodsWithin, CordonWithin
<1> QED
  BY <1>1, <1>2

LEMMA UpdateCallWithin ==
    ASSUME IInv, NEW c \in Clients, UpdateCall(c)
    PROVE  Within
<1> DEFINE q == requests[c]
<1>1. q \in Updates /\ q.at = "update" /\ Writes(q.by, q.object)
  BY Knowing, StateFacts DEF UpdateCall, Allowed
<1>2. q.object \in Objects /\ q.value \in Versions
  BY <1>1 DEF Updates
<1>3. PICK outcome \in Outcomes :
        /\ PutUnless(IF q.dryRun THEN "refused" ELSE outcome, c, q.object, q.value)
        /\ Answer(c, Status(outcome)) /\ UNCHANGED <<pods, cordoned>>
  BY DEF UpdateCall, Outcomes
<1>4. MayChange(q, q.object)
  BY <1>1 DEF MayChange, Writes
<1>5. Acts(c) /\ OpeningWithin
  BY <1>1, <1>3, AnsweredActs
<1> QED
  BY <1>2, <1>3, <1>4, <1>5, WriteWithin

LEMMA DeleteCallWithin ==
    ASSUME IInv, NEW c \in Clients, DeleteCall(c)
    PROVE  Within
<1> DEFINE q == requests[c]
<1>1. q \in Deletes /\ q.at = "delete" /\ Permits(q.by, q.object, "delete")
  BY Knowing, StateFacts DEF DeleteCall, Allowed
<1>2. q.object \in Objects
  BY <1>1 DEF Deletes
<1>3. PICK outcome \in Outcomes :
        /\ PutUnless(outcome, c, q.object, Gone)
        /\ Answer(c, Status(outcome)) /\ UNCHANGED <<pods, cordoned>>
  BY DEF DeleteCall, Outcomes
<1>4. MayChange(q, q.object)
  BY <1>1 DEF MayChange, Permits
<1>5. Acts(c) /\ OpeningWithin
  BY <1>1, <1>3, AnsweredActs
<1> QED
  BY <1>2, <1>3, <1>4, <1>5, WriteWithin

LEMMA ApplyDocumentWithin ==
    ASSUME IInv, NEW c \in Clients, ApplyDocument(c)
    PROVE  Within
<1> DEFINE q == requests[c]
           d == q.docs[q.next]
<1>1. q \in Applies /\ q.at = "apply" /\ q.next \in DOMAIN q.docs /\ Allowed(q)
  BY Knowing, StateFacts DEF ApplyDocument, Applying
<1>2. /\ q.next \in Nat /\ q.docs \in Documents /\ d.namespace \in {"", q.namespace}
      /\ d.field \in Fields /\ d.value \in Values
  <2>1. q.next \in Nat /\ q.docs \in Documents
    BY <1>1 DEF Applies
  <2>2. d.namespace \in {"", q.namespace}
    BY <1>1 DEF Allowed, DocumentsInNamespace
  <2> QED
    BY <1>1, <2>1, <2>2, DocumentFacts
<1>3. CASE Answer(c, "error") /\ UNCHANGED <<cluster, pods, cordoned>>
  BY <1>1, <1>3, AnsweredActs DEF Within, ObjectsWithin, PodsWithin, CordonWithin
<1>4. ASSUME NEW o \in Targets(d, q.namespace), NEW outcome \in Outcomes,
             PutUnless(IF q.dryRun THEN "refused" ELSE outcome,
                       c, o, WithField(cluster[o], d.field, d.value)),
             IF outcome = "done" THEN Proceed(c, [q EXCEPT !.next = @ + 1]) ELSE Answer(c, "error"),
             UNCHANGED <<pods, cordoned>>
      PROVE  Within
  <2>1. o \in Objects /\ NamespaceOf[o] \in {ClusterScope, q.namespace}
    BY <1>2 DEF Targets
  <2>2. WithField(cluster[o], d.field, d.value) \in Versions
    <3>1. cluster[o] \in Versions \cup {Gone} /\ d.field \in Fields /\ d.value \in Values
      BY <1>2, <2>1 DEF IInv, TypeOK
    <3> HIDE DEF d
    <3> QED
      BY <3>1 DEF WithField, Versions, Values
  <2>3. MayChange(q, o)
    <3>1. /\ Intended(q.by, "apply", "edit") /\ IntendedNamespace(q.by, q.namespace)
          /\ NamespaceOf[o] = ClusterScope \/ IntendedNamespace(q.by, NamespaceOf[o])
      BY <1>1, <2>1 DEF Allowed
    <3>2. q.at = "apply"
      BY <1>1
    <3> HIDE DEF q
    <3> QED
      BY <2>1, <3>1, <3>2 DEF MayChange
  <2>4. Acts(c) /\ OpeningWithin
    <3>1. CASE outcome = "done"
      <4> DEFINE r == [q EXCEPT !.next = @ + 1]
      <4>1. r.at = "apply" /\ r.next = q.next + 1 /\ q.next + 1 # q.next
        <5>1. DOMAIN q = {"at", "docs", "namespace", "next", "dryRun", "by"}
          BY <1>1 DEF Applies
        <5>2. q.at = "apply" /\ q.next \in Nat
          BY <1>1, <1>2
        <5> HIDE DEF q
        <5> QED
          BY <5>1, <5>2
      <4>2. Proceed(c, r)
        BY <1>4, <3>1
      <4> HIDE DEF r
      <4> QED
        BY <4>1, <4>2, ProceedFrame, NothingOpened DEF Acts
    <3>2. CASE outcome # "done"
      BY <1>1, <1>4, <3>2, AnsweredActs
    <3> QED
      BY <3>1, <3>2
  <2> HIDE DEF q, d
  <2> QED
    BY <1>4, <2>1, <2>2, <2>3, <2>4, WriteWithin DEF q
<1> QED
  BY <1>3, <1>4 DEF ApplyDocument

LEMMA PodCallWithin ==
    ASSUME IInv, NEW c \in Clients, PodCall(c)
    PROVE  Within
<1> DEFINE q == requests[c]
<1>1. q \in PodCalls /\ q.at = "pod" /\ Allowed(q)
  BY Knowing, StateFacts DEF PodCall
<1>2. MayRemovePod(q, q.pod)
  BY <1>1 DEF MayRemovePod, Allowed
<1>3. PICK outcome \in Outcomes :
        /\ pods' = IF outcome = "refused" THEN pods ELSE [pods EXCEPT ![q.pod] = "gone"]
        /\ Answer(c, Status(outcome)) /\ UNCHANGED <<cluster, cordoned>>
  BY DEF PodCall, Outcomes
<1>4. Acts(c) /\ OpeningWithin
  BY <1>1, <1>3, AnsweredActs
<1>5. \A p \in Pods : pods'[p] # pods[p] => p = q.pod
  BY <1>3 DEF IInv, TypeOK
<1> QED
  BY <1>2, <1>3, <1>4, <1>5 DEF Within, ObjectsWithin, PodsWithin, CordonWithin

LEMMA UncordonCallWithin ==
    ASSUME IInv, NEW c \in Clients, UncordonCall(c)
    PROVE  Within
<1>1. /\ requests[c].at = "uncordon" /\ UNCHANGED <<cluster, pods>>
      /\ \E status : Answer(c, status)
  BY DEF UncordonCall
<1>2. Intended(requests[c].by, "nodes", "edit")
  BY <1>1, Knowing DEF Allowed
<1>3. Acts(c) /\ OpeningWithin
  BY <1>1, AnsweredActs
<1> QED
  BY <1>1, <1>2, <1>3 DEF Within, ObjectsWithin, PodsWithin, CordonWithin

\* A drain under way, whatever its step and what it has left.
LEMMA DrainFacts ==
    ASSUME NEW q \in Drains, NEW step, NEW left, NEW failed
    PROVE  /\ [q EXCEPT !.step = step].at = "drain"
           /\ [q EXCEPT !.step = step].step = step
           /\ [q EXCEPT !.left = left].at = "drain"
           /\ [q EXCEPT !.left = left].left = left
           /\ [[q EXCEPT !.left = left] EXCEPT !.failed = failed].at = "drain"
           /\ [[q EXCEPT !.left = left] EXCEPT !.failed = failed].left = left
<1>1. DOMAIN q = {"at", "step", "force", "left", "failed", "by"} /\ q.at = "drain"
  BY DEF Drains
<1> QED
  BY <1>1

LEMMA DrainCordonWithin ==
    ASSUME IInv, NEW c \in Clients, DrainCordon(c)
    PROVE  Within
<1> DEFINE q == requests[c]
<1>1. q \in Drains /\ q.at = "drain" /\ q.step = "cordon" /\ Allowed(q)
  BY Knowing, StateFacts DEF DrainCordon, Draining
<1>2. Intended(q.by, "nodes", "edit") /\ UNCHANGED <<cluster, pods>>
  BY <1>1 DEF Allowed, DrainCordon
<1>3. Acts(c) /\ OpeningWithin
  <2>1. CASE Answer(c, "error")
    BY <1>1, <2>1, AnsweredActs
  <2>2. CASE Proceed(c, [q EXCEPT !.step = "list"])
    <3> DEFINE r == [q EXCEPT !.step = "list"]
    <3>1. r.at = "drain" /\ r.step = "list"
      BY <1>1, DrainFacts
    <3> HIDE DEF r
    <3> QED
      BY <1>1, <2>2, <3>1, ProceedFrame, NothingOpened DEF Acts, r
  <2> QED
    BY <2>1, <2>2 DEF DrainCordon
<1> QED
  BY <1>1, <1>2, <1>3 DEF Within, ObjectsWithin, PodsWithin, CordonWithin

LEMMA DrainEvictWithin ==
    ASSUME IInv, NEW c \in Clients, DrainEvict(c)
    PROVE  Within
<1> DEFINE q == requests[c]
<1>1. q \in Drains /\ q.at = "drain" /\ Allowed(q)
  BY Knowing, StateFacts DEF DrainEvict, Draining
<1>2. (\A p \in Pods : MayRemovePod(q, p)) /\ UNCHANGED <<cluster, cordoned>>
  BY <1>1 DEF MayRemovePod, Allowed, DrainEvict
<1>3. PICK i \in q.left : \E r :
        /\ Proceed(c, r)
        /\ \/ r = [q EXCEPT !.left = @ \ {i}]
           \/ r = [[q EXCEPT !.left = @ \ {i}] EXCEPT !.failed = TRUE]
  BY DEF DrainEvict
<1>4. PICK r : /\ Proceed(c, r)
               /\ \/ r = [q EXCEPT !.left = q.left \ {i}]
                  \/ r = [[q EXCEPT !.left = q.left \ {i}] EXCEPT !.failed = TRUE]
  BY <1>3
<1>5. r.at = "drain" /\ r.left = q.left \ {i}
  <2>1. ASSUME NEW left
        PROVE  /\ [q EXCEPT !.left = left].at = "drain"
               /\ [q EXCEPT !.left = left].left = left
               /\ [[q EXCEPT !.left = left] EXCEPT !.failed = TRUE].at = "drain"
               /\ [[q EXCEPT !.left = left] EXCEPT !.failed = TRUE].left = left
    BY <1>1, DrainFacts
  <2> HIDE DEF q
  <2>2. CASE r = [q EXCEPT !.left = q.left \ {i}]
    BY <2>1, <2>2
  <2>3. CASE r = [[q EXCEPT !.left = q.left \ {i}] EXCEPT !.failed = TRUE]
    BY <2>1, <2>3
  <2> QED
    BY <1>4, <2>2, <2>3
<1>6. q.left # q.left \ {i}
  OBVIOUS
<1>7. Acts(c) /\ OpeningWithin
  BY <1>4, <1>5, <1>6, ProceedFrame, NothingOpened DEF Acts
<1> QED
  BY <1>2, <1>7 DEF Within, ObjectsWithin, PodsWithin, CordonWithin

\* Every change to the cluster and every manifest opened is one the role allows
\* as its author wrote it.
THEOREM ChangesStayWithinRoles == Spec => ActsWithinRole
<1>1. ASSUME IInv, NEW c \in Clients, ClientStep(c) PROVE Within
  BY <1>1, StepCases, QuietWithin, OpenManifestWithin, UpdateCallWithin, DeleteCallWithin,
     PodCallWithin, DrainCordonWithin, DrainEvictWithin, UncordonCallWithin, ApplyDocumentWithin
<1>2. ASSUME IInv, Restart \/ OthersStep PROVE others' # others
  <2>1. others \in Nat /\ others' = others + 1
    BY <1>2 DEF Restart, OthersStep, OthersEdit, OthersDelete, PodEnds, PodPlaced, OthersAct,
                IInv, TypeOK
  <2> QED
    BY <2>1
<1>3. ASSUME UNCHANGED opVars \/ \E w \in RoleWrites : SaveRole(w) PROVE Within
  BY <1>3 DEF opVars, SaveRole, Within, ObjectsWithin, PodsWithin, CordonWithin, OpeningWithin, Acts
<1>4. IInv /\ [Next]_opVars => (others' = others => Within)
  BY <1>1, <1>2, <1>3 DEF Next, ClientStep, RoleStep
<1>5. IInv /\ [Next]_opVars => [others' = others => Within]_opVars
  BY <1>4
<1> QED
  BY <1>5, Invariant, PTL DEF Spec, ActsWithinRole, Within, ObjectsWithin, PodsWithin, CordonWithin,
     OpeningWithin

=============================================================================
