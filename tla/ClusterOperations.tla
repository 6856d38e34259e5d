------------------------- MODULE ClusterOperations -------------------------
(***************************************************************************)
(* The operations that change the cluster: manifest edits, scaling,        *)
(* restarts, deletion, eviction, node drains and Apply YAML, each admitted *)
(* by the signed-in user's role and carried out in several calls to the    *)
(* API server, between which other users and the cluster's controllers go  *)
(* on.                                                                     *)
(*                                                                         *)
(* A call is done, refused, or done with its answer lost.                  *)
(***************************************************************************)
EXTENDS RolePermissions, Sequences

CONSTANTS
    Clients,      \* users' requests under way together, all under one role
    Objects,      \* Kubernetes objects
    KindOf,       \* [Objects -> kinds of the tables below]
    WordOf,       \* the kind whose word a manifest bears as its Kind, in whatever group
    NameOf,       \* what a manifest calls an object inside its namespace
    NamespaceOf,  \* [Objects -> Namespaces, or ClusterScope]
    ClusterScope,
    Gone,         \* the value of an object that does not exist
    PodList,      \* a node's candidate pods, in the order the server sorts them
    ClassOf,      \* [pods -> Classes]
    PodNamespace, \* [pods -> Namespaces]
    Node,         \* the node, as a thing others may change
    RoleWrites,   \* what administrators save, by name
    Content,      \* [RoleWrites -> [mode, raw]]
    Edits,        \* edits of one field: [object, field, value]
    Documents,    \* what users apply: sequences of documents
    MaxRequests,  \* bound on requests admitted and roles saved
    MaxOthers     \* bound on what others do to the cluster

Pods    == {PodList[i] : i \in DOMAIN PodList}
Fields  == {"replicas", "template"}
Values  == 0..1
Classes == {"managed", "local", "bare", "daemon", "mirror", "done"}

-----------------------------------------------------------------------------
(* The tables of kinds, in lower case and without their plural and short   *)
(* forms.  "custom" stands for any custom resource.                        *)

AreaKinds == [
    pods            |-> {"pod"},
    workloads       |-> {"deployment", "daemonset", "statefulset", "job", "cronjob",
                         "replicaset", "replicationcontroller"},
    nodes           |-> {"node"},
    services        |-> {"service"},
    serviceaccounts |-> {"serviceaccount"},
    ingresses       |-> {"ingress"},
    rbacroles       |-> {"role", "rolebinding"},
    clusterroles    |-> {"clusterrole", "clusterrolebinding"},
    configmaps      |-> {"configmap"},
    crds            |-> {"customresourcedefinition", "custom"},
    secrets         |-> {"secret"},
    pvcs            |-> {"persistentvolumeclaim"},
    pvs             |-> {"persistentvolume"},
    storageclasses  |-> {"storageclass"}]

Kinds == UNION {AreaKinds[a] : a \in DOMAIN AreaKinds}

\* kindToResource: the area whose permission decides about a kind.
KindToResource(k) == CHOOSE a \in DOMAIN AreaKinds : k \in AreaKinds[a]

\* Kinds that can be deleted and are in no namespace.
ClusterKinds == {"clusterrole", "clusterrolebinding", "persistentvolume",
                 "storageclass", "customresourcedefinition"}

\* permissionDeleteTarget and deleteTargetForKind: the kinds that can be
\* deleted, with their area and scope.
PermissionDeleteTarget(k) ==
    IF k \in {"node", "replicaset", "replicationcontroller"}
    THEN [known |-> FALSE]
    ELSE [known |-> TRUE, resource |-> KindToResource(k),
          namespaced |-> k \notin ClusterKinds]

\* Kinds whose manifest can be opened.
Openable == Kinds \ {"replicaset", "replicationcontroller"}

\* What opening a manifest takes: a Secret shows its values.
ManifestPermissionAction(area) == IF area = "secrets" THEN "edit" ELSE "view"

-----------------------------------------------------------------------------

\* A document sets one field of the object of that name.  It may name a
\* namespace, and its kind may be unknown to the cluster.
Document == [name : {NameOf[o] : o \in Objects}, namespace : Namespaces \cup {""},
             field : Fields, value : Values, mapped : BOOLEAN]

ASSUME OperationsAssumption ==
    /\ KindOf \in [Objects -> Kinds]
    /\ WordOf \in [Objects -> Kinds]
    /\ \A o \in Objects : KindOf[o] # "custom" => WordOf[o] = KindOf[o]
    /\ NamespaceOf \in [Objects -> Namespaces \cup {ClusterScope}]
    /\ \A o \in Objects : KindOf[o] \in ClusterKinds => NamespaceOf[o] = ClusterScope
    /\ ClusterScope \notin Namespaces /\ "" \notin Namespaces
    /\ \A o, p \in Objects :
          NameOf[o] = NameOf[p] /\ NamespaceOf[o] \in {NamespaceOf[p], ClusterScope} => o = p
    /\ \A o \in Objects : {KindToResource(KindOf[o]), KindToResource(WordOf[o])} \subseteq Resources
    /\ {"apply", "nodes", "pods", "workloads"} \subseteq Resources
    /\ ClassOf \in [Pods -> Classes]
    /\ PodNamespace \in [Pods -> Namespaces]
    /\ Node \notin Objects
    /\ Content \in [RoleWrites -> [mode : Modes, raw : Raw]]
    /\ Edits \subseteq [object : Objects, field : Fields, value : Values]
    /\ Documents \subseteq Seq(Document)
    /\ MaxRequests \in Nat /\ MaxOthers \in Nat
    /\ Gone \notin [Fields -> Values]

VARIABLES
    role,      \* the role as the store keeps it: [mode, permissions]
    written,   \* ... and as its author wrote it (history)
    cluster,   \* the objects
    pods,      \* where each pod is: "here" (the drained node), "elsewhere", "gone"
    cordoned,  \* the node accepts no new pod
    requests,  \* what each client has under way
    changed,   \* what others changed since the client's last read: the objects
               \* whose resource version it no longer knows
    admitted,  \* requests admitted and roles saved so far (bound)
    others     \* what others have done so far (bound)

opVars == <<role, written, cluster, pods, cordoned, requests, changed, admitted, others>>

Idle == [at |-> "idle"]

\* What the author of role w meant by it.
Intended(w, area, action) == Content[w].mode = "admin" \/ Meant(Content[w].raw, area, action)

\* The namespaces a role was written for: none listed means all.
IntendedNamespace(w, ns) ==
    LET listed == Content[w].raw.namespaces \ BlankNames
    IN  Content[w].mode = "admin" \/ listed = {} \/ ns \in listed

Stored(w) == [mode |-> Content[w].mode, permissions |-> NormalizePermissions(Content[w].raw)]

Init ==
    /\ written \in RoleWrites
    /\ role = Stored(written)
    /\ cluster = [o \in Objects |-> [f \in Fields |-> 0]]
    /\ pods = [p \in Pods |-> "here"]
    /\ cordoned = FALSE
    /\ requests = [c \in Clients |-> Idle]
    /\ changed = [c \in Clients |-> {}]
    /\ admitted = 0
    /\ others = 0

-----------------------------------------------------------------------------
(* Roles.                                                                  *)

\* An administrator saves the role: CreateRole or UpdateRole.
SaveRole(w) ==
    /\ admitted < MaxRequests
    /\ admitted' = admitted + 1
    /\ written' = w
    /\ role' = Stored(w)
    /\ UNCHANGED <<cluster, pods, cordoned, requests, changed, others>>

\* A restart ends every request; an opened manifest stays with the user.  The
\* role comes back from the Secret.
Restart ==
    /\ others < MaxOthers
    /\ others' = others + 1
    /\ role' = [role EXCEPT !.permissions = Reloaded(role.permissions)]
    /\ requests' = [c \in Clients |->
                       IF requests[c].at = "opened" THEN requests[c] ELSE Idle]
    /\ UNCHANGED <<written, cluster, pods, cordoned, changed, admitted>>

CanAsk(c) == requests[c] = Idle /\ admitted < MaxRequests

\* A handler lets client c's request r in.
Admit(c, r) ==
    /\ admitted' = admitted + 1
    /\ requests' = [requests EXCEPT ![c] = r]
    /\ UNCHANGED <<role, written, cluster, pods, cordoned, others>>

Proceed(c, r) == requests' = [requests EXCEPT ![c] = r]

\* What a finished request leaves to look at, until its client goes on.
Answer(c, status) ==
    Proceed(c, [at |-> "answered", status |-> status, of |-> requests[c]])

Acknowledge(c) ==
    /\ requests[c].at \in {"answered", "opened"}
    /\ Proceed(c, Idle)
    /\ UNCHANGED <<role, written, cluster, pods, cordoned, changed, admitted, others>>

\* The namespace check of a handler, for objects that have one.
InScope(o) == NamespaceOf[o] = ClusterScope \/ NamespaceAllowed(role, NamespaceOf[o])

\* The clients cs, or nobody among them, make object o be v.
Put(cs, o, v) ==
    /\ cluster' = [cluster EXCEPT ![o] = v]
    /\ changed' = [d \in Clients |->
                      IF d \in cs \/ v = cluster[o] THEN changed[d] ELSE changed[d] \cup {o}]

\* Client c reads object o.
Know(c, o) == changed' = [changed EXCEPT ![c] = @ \ {o}]

\* One write call to the API server.
Outcomes == {"done", "refused", "lost"}
Status(outcome) == IF outcome = "done" THEN "ok" ELSE "error"

PutUnless(outcome, c, o, v) ==
    IF outcome = "refused" THEN UNCHANGED <<cluster, changed>> ELSE Put({c}, o, v)

-----------------------------------------------------------------------------
(* Manifests: opening, editing, saving.                                    *)

\* The kinds a request may give for a manifest: its definition's, or the one whose
\* word it bears, for the group is not compared.
KindsFor(o) == {KindOf[o], WordOf[o]}

\* Kinds other than custom resources ask for an allowed namespace even where the
\* object has none.
ManifestInScope(k, o) ==
    IF NamespaceOf[o] = ClusterScope
    THEN k = "custom" \/ \E ns \in Namespaces : NamespaceAllowed(role, ns)
    ELSE NamespaceAllowed(role, NamespaceOf[o])

\* The text carries the object's resource version.
OpenManifest(c, o) ==
    /\ CanAsk(c)
    /\ KindOf[o] \in Openable
    /\ LET area == KindToResource(KindOf[o])
       IN  HasPermission(role, area, ManifestPermissionAction(area))
    /\ ManifestInScope(KindOf[o], o)
    /\ cluster[o] # Gone
    /\ Admit(c, [at |-> "opened", object |-> o, copy |-> cluster[o]])
    /\ Know(c, o)

\* The user saves an edit of the text as one of kind k, with the resource version or
\* without.  It may have become the text of another object with that word, whose
\* version the user does not know.
SubmitManifest(c, k, e, versioned, dryRun) ==
    /\ requests[c].at = "opened"
    /\ WordOf[requests[c].object] = WordOf[e.object]
    /\ HasPermission(role, KindToResource(k), "edit")
    /\ ManifestInScope(k, e.object)
    /\ Proceed(c, [at |-> "update", object |-> e.object, field |-> e.field,
                   value |-> [requests[c].copy EXCEPT ![e.field] = e.value],
                   versioned |-> versioned, dryRun |-> dryRun, by |-> written])
    /\ changed' = [changed EXCEPT ![c] = @ \cup ({e.object} \ {requests[c].object})]
    /\ UNCHANGED <<role, written, cluster, pods, cordoned, admitted, others>>

\* A mistaken UpdateCall: an outdated version is no obstacle.
UpdateUnversioned(c) ==
    /\ requests[c].at = "update"
    /\ LET r == requests[c]
       IN  \E outcome \in IF cluster[r.object] = Gone THEN {"refused"} ELSE Outcomes :
              /\ PutUnless(IF r.dryRun THEN "refused" ELSE outcome, c, r.object, r.value)
              /\ Answer(c, Status(outcome))
    /\ UNCHANGED <<role, written, pods, cordoned, admitted, others>>

\* Update: a text with an outdated version is refused, one without replaces
\* whatever is there.
UpdateCall(c) ==
    /\ requests[c].at = "update"
    /\ LET r == requests[c]
           conflict == r.versioned /\ r.object \in changed[c]
       IN  \E outcome \in IF cluster[r.object] = Gone \/ conflict THEN {"refused"} ELSE Outcomes :
              /\ PutUnless(IF r.dryRun THEN "refused" ELSE outcome, c, r.object, r.value)
              /\ Answer(c, Status(outcome))
    /\ UNCHANGED <<role, written, pods, cordoned, admitted, others>>

-----------------------------------------------------------------------------
(* Scaling, restarting, deleting.                                          *)

\* One field of a workload, set in a read and a versioned update.
AdmitWorkloadEdit(c, e) ==
    /\ CanAsk(c)
    /\ HasPermission(role, "workloads", "edit")
    /\ NamespaceAllowed(role, NamespaceOf[e.object])
    /\ Admit(c, [at |-> "read", object |-> e.object, field |-> e.field,
                 value |-> e.value, by |-> written])
    /\ UNCHANGED changed

Scale(c, e) ==
    /\ KindOf[e.object] \in {"deployment", "statefulset"} /\ e.field = "replicas"
    /\ AdmitWorkloadEdit(c, e)

RestartDeployment(c, e) ==
    /\ KindOf[e.object] = "deployment" /\ e.field = "template"
    /\ AdmitWorkloadEdit(c, e)

ReadWorkload(c) ==
    /\ requests[c].at = "read"
    /\ LET r == requests[c]
       IN  \/ /\ Answer(c, "error")
              /\ UNCHANGED changed
           \/ /\ cluster[r.object] # Gone
              /\ Proceed(c, [at |-> "update", object |-> r.object, field |-> r.field,
                             value |-> [cluster[r.object] EXCEPT ![r.field] = r.value],
                             versioned |-> TRUE, dryRun |-> FALSE, by |-> r.by])
              /\ Know(c, r.object)
    /\ UNCHANGED <<role, written, cluster, pods, cordoned, admitted, others>>

DeleteResource(c, o) ==
    /\ CanAsk(c)
    /\ LET target == PermissionDeleteTarget(KindOf[o])
       IN  /\ target.known
           /\ HasPermission(role, target.resource, "delete")
           /\ target.namespaced => InScope(o)
    /\ Admit(c, [at |-> "delete", object |-> o, by |-> written])
    /\ UNCHANGED changed

DeleteCall(c) ==
    /\ requests[c].at = "delete"
    /\ LET o == requests[c].object
       IN  \E outcome \in IF cluster[o] = Gone THEN {"refused"} ELSE Outcomes :
              /\ PutUnless(outcome, c, o, Gone)
              /\ Answer(c, Status(outcome))
    /\ UNCHANGED <<role, written, pods, cordoned, admitted, others>>

\* DeletePod and EvictPod; a disruption budget may refuse an eviction.
RemovePod(c, p, action) ==
    /\ CanAsk(c)
    /\ HasPermission(role, "pods", action)
    /\ NamespaceAllowed(role, PodNamespace[p])
    /\ Admit(c, [at |-> "pod", pod |-> p, action |-> action, by |-> written])
    /\ UNCHANGED changed

DeletePod(c, p) == RemovePod(c, p, "delete")
EvictPod(c, p)  == RemovePod(c, p, "edit")

PodCall(c) ==
    /\ requests[c].at = "pod"
    /\ LET p == requests[c].pod
       IN  \E outcome \in IF pods[p] = "gone" THEN {"refused"} ELSE Outcomes :
              /\ pods' = IF outcome = "refused" THEN pods ELSE [pods EXCEPT ![p] = "gone"]
              /\ Answer(c, Status(outcome))
    /\ UNCHANGED <<role, written, cluster, cordoned, changed, admitted, others>>

-----------------------------------------------------------------------------
(* Draining a node.                                                        *)

\* Pods a drain leaves alone: those that ended, static and DaemonSet pods, and
\* without force those with local storage or no owner.
Evictable(p, force) == ClassOf[p] \in {"managed"} \cup IF force THEN {"local", "bare"} ELSE {}

DrainNode(c, force) ==
    /\ CanAsk(c)
    /\ HasPermission(role, "nodes", "edit")
    /\ Admit(c, [at |-> "drain", step |-> "get", force |-> force, left |-> {},
                 failed |-> FALSE, by |-> written])
    /\ UNCHANGED changed

Draining(c, step) == requests[c].at = "drain" /\ requests[c].step = step

\* Without this node's cordon, or the list, there is nothing to report but an error.
DrainGivesUp(c) ==
    /\ requests[c].at = "drain" /\ requests[c].step # "evict"
    /\ Answer(c, "error")
    /\ UNCHANGED <<role, written, cluster, pods, cordoned, changed, admitted, others>>

DrainGet(c) ==
    /\ Draining(c, "get")
    /\ Proceed(c, [requests[c] EXCEPT !.step = IF cordoned THEN "list" ELSE "cordon"])
    /\ Know(c, Node)
    /\ UNCHANGED <<role, written, cluster, pods, cordoned, admitted, others>>

\* A mistaken DrainCordon: its error is ignored.
DrainCordonAnyway(c) ==
    /\ Draining(c, "cordon")
    /\ cordoned' \in {cordoned, TRUE}
    /\ Proceed(c, [requests[c] EXCEPT !.step = "list"])
    /\ Know(c, Node)
    /\ UNCHANGED <<role, written, cluster, pods, admitted, others>>

DrainCordon(c) ==
    /\ Draining(c, "cordon")
    /\ cordoned' = TRUE
    /\ \/ /\ Proceed(c, [requests[c] EXCEPT !.step = "list"])
          /\ Know(c, Node)
       \/ /\ Answer(c, "error")
          /\ UNCHANGED changed
    /\ UNCHANGED <<role, written, cluster, pods, admitted, others>>

\* The pods on the node in all namespaces, less those a drain leaves alone.
DrainList(c) ==
    /\ Draining(c, "list")
    /\ LET Listed == {i \in DOMAIN PodList : /\ pods[PodList[i]] = "here"
                                             /\ Evictable(PodList[i], requests[c].force)}
       IN  Proceed(c, [requests[c] EXCEPT !.step = "evict", !.left = Listed])
    /\ UNCHANGED <<role, written, cluster, pods, cordoned, changed, admitted, others>>

\* One eviction, by name: wherever the pod is by then.
DrainEvict(c) ==
    /\ Draining(c, "evict")
    /\ \E i \in requests[c].left :
          /\ \A j \in requests[c].left : i <= j
          /\ LET p    == PodList[i]
                 rest == [requests[c] EXCEPT !.left = @ \ {i}]
             IN  IF pods[p] = "gone"
                 THEN Proceed(c, rest) /\ UNCHANGED pods
                 ELSE \E outcome \in Outcomes :
                         /\ pods' = IF outcome = "refused" THEN pods ELSE [pods EXCEPT ![p] = "gone"]
                         /\ Proceed(c, IF outcome = "done" THEN rest ELSE [rest EXCEPT !.failed = TRUE])
    /\ UNCHANGED <<role, written, cluster, cordoned, changed, admitted, others>>

DrainEnd(c) ==
    /\ Draining(c, "evict") /\ requests[c].left = {}
    /\ Answer(c, IF requests[c].failed THEN "partial" ELSE "ok")
    /\ UNCHANGED <<role, written, cluster, pods, cordoned, changed, admitted, others>>

UncordonNode(c) ==
    /\ CanAsk(c)
    /\ HasPermission(role, "nodes", "edit")
    /\ Admit(c, [at |-> "uncordon", by |-> written])
    /\ UNCHANGED changed

UncordonCall(c) ==
    /\ requests[c].at = "uncordon"
    /\ \E outcome \in Outcomes :
          /\ cordoned' = (cordoned /\ outcome = "refused")
          /\ changed' = [d \in Clients |->
                            IF cordoned' # cordoned THEN changed[d] \cup {Node} ELSE changed[d]]
          /\ Answer(c, Status(outcome))
    /\ UNCHANGED <<role, written, cluster, pods, admitted, others>>

-----------------------------------------------------------------------------
(* Apply YAML.                                                             *)

\* A mistaken DocumentsInNamespace: only the first document is looked at.
FirstInNamespace(docs, ns) == docs = <<>> \/ docs[1].namespace \in {"", ns}

\* validateApplyNamespaces reads every document before any is applied.
DocumentsInNamespace(docs, ns) == \A i \in DOMAIN docs : docs[i].namespace \in {"", ns}

ApplyYAML(c, docs, ns, dryRun) ==
    /\ CanAsk(c)
    /\ HasPermission(role, "apply", "edit")
    /\ NamespaceAllowed(role, ns)
    /\ DocumentsInNamespace(docs, ns)
    /\ Admit(c, [at |-> "apply", docs |-> docs, namespace |-> ns, next |-> 1,
                 dryRun |-> dryRun, by |-> written])
    /\ changed' = [changed EXCEPT ![c] = {}]

\* The object a document means.
Targets(d, ns) ==
    {o \in Objects : /\ d.mapped /\ NameOf[o] = d.name
                     /\ NamespaceOf[o] \in {ClusterScope, IF d.namespace = "" THEN ns ELSE d.namespace}}

\* Server-side apply creates the object or sets the fields the document has.
WithField(v, f, x) == [g \in Fields |-> IF g = f THEN x ELSE IF v = Gone THEN 0 ELSE v[g]]

Applying(c) == requests[c].at = "apply" /\ requests[c].next \in DOMAIN requests[c].docs

\* A mistaken ApplyDocument: a document that fails is passed over.
ApplyLeniently(c) ==
    /\ Applying(c)
    /\ LET r == requests[c]
           d == r.docs[r.next]
       IN  \/ /\ UNCHANGED <<cluster, changed>>
              /\ Proceed(c, [r EXCEPT !.next = @ + 1])
           \/ \E o \in Targets(d, r.namespace) :
                 /\ PutUnless(IF r.dryRun THEN "refused" ELSE "done",
                              c, o, WithField(cluster[o], d.field, d.value))
                 /\ Proceed(c, [r EXCEPT !.next = @ + 1])
    /\ UNCHANGED <<role, written, pods, cordoned, admitted, others>>

\* The next document.  The first that fails ends the request; the answer does not
\* tell what was applied before.
ApplyDocument(c) ==
    /\ Applying(c)
    /\ LET r == requests[c]
           d == r.docs[r.next]
       IN  \/ /\ Targets(d, r.namespace) = {}
              /\ Answer(c, "error")
              /\ UNCHANGED <<cluster, changed>>
           \/ \E o \in Targets(d, r.namespace), outcome \in Outcomes :
                 /\ PutUnless(IF r.dryRun THEN "refused" ELSE outcome,
                              c, o, WithField(cluster[o], d.field, d.value))
                 /\ IF outcome = "done"
                    THEN Proceed(c, [r EXCEPT !.next = @ + 1])
                    ELSE Answer(c, "error")
    /\ UNCHANGED <<role, written, pods, cordoned, admitted, others>>

ApplyEnd(c) ==
    /\ requests[c].at = "apply" /\ ~Applying(c)
    /\ Answer(c, "ok")
    /\ UNCHANGED <<role, written, cluster, pods, cordoned, changed, admitted, others>>

-----------------------------------------------------------------------------
(* Everybody else: kubectl, controllers, the scheduler.                    *)

OthersAct == others < MaxOthers /\ others' = others + 1

OthersEdit(e) ==
    /\ OthersAct
    /\ Put({}, e.object, WithField(cluster[e.object], e.field, e.value))
    /\ UNCHANGED <<role, written, pods, cordoned, requests, admitted>>

OthersDelete(o) ==
    /\ OthersAct
    /\ Put({}, o, Gone)
    /\ UNCHANGED <<role, written, pods, cordoned, requests, admitted>>

PodEnds(p) ==
    /\ OthersAct
    /\ pods[p] # "gone"
    /\ pods' = [pods EXCEPT ![p] = "gone"]
    /\ UNCHANGED <<role, written, cluster, cordoned, requests, changed, admitted>>

\* A pod comes back under its name.  The scheduler keeps off a cordoned node;
\* DaemonSet and static pods do not ask it.
PodPlaced(p) ==
    /\ OthersAct
    /\ pods[p] = "gone"
    /\ \E where \in {"here", "elsewhere"} :
          /\ where = "here" => ~cordoned \/ ClassOf[p] \in {"daemon", "mirror"}
          /\ pods' = [pods EXCEPT ![p] = where]
    /\ UNCHANGED <<role, written, cluster, cordoned, requests, changed, admitted>>

-----------------------------------------------------------------------------

ManifestStep(c) ==
    \/ \E o \in Objects : OpenManifest(c, o)
    \/ \E e \in Edits, versioned, dryRun \in BOOLEAN :
          \E k \in KindsFor(e.object) : SubmitManifest(c, k, e, versioned, dryRun)
    \/ UpdateCall(c)

WorkloadStep(c) ==
    \/ \E e \in Edits : Scale(c, e) \/ RestartDeployment(c, e)
    \/ ReadWorkload(c)
    \/ \E o \in Objects : DeleteResource(c, o)
    \/ DeleteCall(c)

PodStep(c) ==
    \/ \E p \in Pods : DeletePod(c, p) \/ EvictPod(c, p)
    \/ PodCall(c)

NodeStep(c) ==
    \/ \E force \in BOOLEAN : DrainNode(c, force)
    \/ DrainGivesUp(c) \/ DrainGet(c) \/ DrainCordon(c) \/ DrainList(c)
    \/ DrainEvict(c) \/ DrainEnd(c)
    \/ UncordonNode(c) \/ UncordonCall(c)

ApplyStep(c) ==
    \/ \E docs \in Documents, ns \in Namespaces, dryRun \in BOOLEAN : ApplyYAML(c, docs, ns, dryRun)
    \/ ApplyDocument(c) \/ ApplyEnd(c)

RoleStep ==
    \/ \E w \in RoleWrites : SaveRole(w)
    \/ Restart

OthersStep ==
    \/ \E e \in Edits : OthersEdit(e)
    \/ \E o \in Objects : OthersDelete(o)
    \/ \E p \in Pods : PodEnds(p) \/ PodPlaced(p)

Next ==
    \/ \E c \in Clients : \/ ManifestStep(c) \/ WorkloadStep(c) \/ PodStep(c)
                          \/ NodeStep(c) \/ ApplyStep(c) \/ Acknowledge(c)
    \/ RoleStep
    \/ OthersStep

Spec == Init /\ [][Next]_opVars

-----------------------------------------------------------------------------
(* Properties.                                                             *)

\* A version of an object, and the requests by what is under way.
Versions == [Fields -> Values]

Opened   == [at : {"opened"}, object : Objects, copy : Versions]
Updates  == [at : {"update"}, object : Objects, field : Fields, value : Versions,
             versioned : BOOLEAN, dryRun : BOOLEAN, by : RoleWrites]
Readers  == [at : {"read"}, object : Objects, field : Fields, value : Values, by : RoleWrites]
Deletes  == [at : {"delete"}, object : Objects, by : RoleWrites]
PodCalls == [at : {"pod"}, pod : Pods, action : Actions, by : RoleWrites]
Drains   == [at : {"drain"}, step : {"get", "cordon", "list", "evict"}, force : BOOLEAN,
             left : SUBSET DOMAIN PodList, failed : BOOLEAN, by : RoleWrites]
Uncordons == [at : {"uncordon"}, by : RoleWrites]
Applies  == [at : {"apply"}, docs : Documents, namespace : Namespaces, next : Nat \ {0},
             dryRun : BOOLEAN, by : RoleWrites]

Requests ==
    {Idle} \cup Opened \cup Updates \cup Readers \cup Deletes \cup PodCalls \cup Drains
    \cup Uncordons \cup Applies

Answers == [at : {"answered"}, status : {"ok", "partial", "error"}, of : Requests]

TypeOK ==
    /\ role \in [mode : Modes, permissions : Permissions]
    /\ written \in RoleWrites
    /\ cluster \in [Objects -> Versions \cup {Gone}]
    /\ pods \in [Pods -> {"here", "elsewhere", "gone"}]
    /\ cordoned \in BOOLEAN
    /\ requests \in [Clients -> Requests \cup Answers]
    /\ changed \in [Clients -> SUBSET (Objects \cup {Node})]
    /\ admitted \in Nat /\ others \in Nat

Acts(c) == requests'[c] # requests[c]

\* Request r, as its role was written when it was admitted, may change object o.
MayChange(r, o) ==
    LET w     == r.by
        there == NamespaceOf[o] = ClusterScope \/ IntendedNamespace(w, NamespaceOf[o])
    IN  CASE r.at = "update" -> there /\ \E k \in KindsFor(o) : Intended(w, KindToResource(k), "edit")
          [] r.at = "delete" -> there /\ Intended(w, KindToResource(KindOf[o]), "delete")
          [] r.at = "apply"  -> there /\ Intended(w, "apply", "edit")
                                /\ NamespaceOf[o] \in {ClusterScope, r.namespace}
          [] OTHER -> FALSE

MayRemovePod(r, p) ==
    LET w == r.by
    IN  \/ r.at = "drain" /\ Intended(w, "nodes", "edit")
        \/ /\ r.at = "pod" /\ Intended(w, "pods", r.action)
           /\ IntendedNamespace(w, PodNamespace[p])

\* Every change to the cluster, and every manifest opened, is one the role of the
\* request allows as its author wrote it: through the forms the role is stored in
\* (permission closure, the Secret's levels, a restart), the tables of kinds and
\* scopes, and the steps between admission and the write (hasPermission,
\* namespaceAllowedForRequest, permissionDeleteTarget, validateApplyNamespaces).  Of a
\* custom resource whose Kind is also the word of another kind, the right to edit that
\* kind is enough to write it.
ActsWithinRole ==
    [][others' = others =>
         /\ \A o \in Objects : cluster'[o] # cluster[o] =>
               \E c \in Clients : Acts(c) /\ MayChange(requests[c], o)
         /\ \A p \in Pods : pods'[p] # pods[p] =>
               \E c \in Clients : Acts(c) /\ MayRemovePod(requests[c], p)
         /\ cordoned' # cordoned =>
               \E c \in Clients : /\ Acts(c) /\ requests[c].at \in {"drain", "uncordon"}
                                  /\ Intended(requests[c].by, "nodes", "edit")
         /\ \A c \in Clients : Acts(c) /\ requests'[c].at = "opened" =>
               LET area == KindToResource(KindOf[requests'[c].object])
               IN  Intended(written, area, IF area = "secrets" THEN "edit" ELSE "view")]_opVars

\* An edit saved with its resource version, a scaling and a restart change the
\* field they are about and nothing else: what others did to the object between
\* the read and the write survives (Get then Update in ScaleDeployment,
\* RestartDeployment and the manifest editor).
EditsKeepOthers ==
    [][\A c \in Clients :
         LET r == requests[c]
         IN  /\ Acts(c) /\ r.at = "update" /\ r.versioned
             /\ cluster'[r.object] # cluster[r.object]
             => /\ cluster[r.object] # Gone
                /\ \A f \in Fields \ {r.field} : cluster'[r.object][f] = cluster[r.object][f]]_opVars

\* The document that decides about its field of object o.
Decides(r, i, o) ==
    /\ o \in Targets(r.docs[i], r.namespace)
    /\ \A j \in DOMAIN r.docs :
          j > i /\ r.docs[j].field = r.docs[i].field => o \notin Targets(r.docs[j], r.namespace)

\* When Apply YAML answers that it succeeded, every document is in force, but for
\* objects somebody else changed since the request began (ApplyYAML stops at the
\* first document that fails).
AppliedHolds ==
    \A c \in Clients :
        LET r == requests[c].of
        IN  /\ requests[c].at = "answered" /\ requests[c].status = "ok"
            /\ r.at = "apply" /\ ~r.dryRun
            => \A i \in DOMAIN r.docs :
                  /\ Targets(r.docs[i], r.namespace) # {}
                  /\ \A o \in Objects \ changed[c] : Decides(r, i, o) =>
                        /\ cluster[o] # Gone
                        /\ cluster[o][r.docs[i].field] = r.docs[i].value

\* When a drain answers "ok" and nobody uncordoned the node since, no pod it is
\* meant to move is left there, whoever was placed or came back meanwhile
\* (DrainNode cordons before it lists).
DrainLeavesNothing ==
    \A c \in Clients :
        LET r == requests[c].of
        IN  /\ requests[c].at = "answered" /\ requests[c].status = "ok"
            /\ r.at = "drain" /\ Node \notin changed[c]
            => \A p \in Pods : Evictable(p, r.force) => pods[p] # "here"

\* The stored role decides as it was written, also after restarts
\* (normalizeRolePermissionsJSON, compactPermissionsYAML, expandedPermissionsJSON).
RoleMeansWhatWasSaved == MeansWhatWasWritten(role.permissions, Content[written].raw)

=============================================================================
