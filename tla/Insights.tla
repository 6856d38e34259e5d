------------------------------ MODULE Insights ------------------------------
(***************************************************************************)
(* The insights page (internal/kube/insights.go, api insights): one        *)
(* request traverses the cluster by a fixed order of List calls, each an   *)
(* action here, while the cluster changes; what a section reports is       *)
(* computed from the lists read up to its place.                           *)
(*                                                                         *)
(* An object is <<kind, namespace, name>>.  Ages are in minutes (of        *)
(* volumes: days), cpu in milli, memory in MiB.  A pod's signs are facts   *)
(* of its spec or status that a check only tests.  Usage is measured by    *)
(* the metrics server or by the kubelets, each asked through its Node.     *)
(***************************************************************************)
EXTENDS Integers, FiniteSets, SequencesExt

CONSTANTS
    Objects,       \* the objects there may be
    Absent,        \* value of one that does not exist
    ClusterScope,  \* namespace of the objects that have none
    NoNode,        \* node name of a pod not scheduled yet
    Starts,        \* clusters to start from: [Objects -> value or Absent]
    Edits,         \* changes others make: pairs <<object, value>>
    Requests,      \* [category : parts of the query, namespaces : set of names in order]
    MaxEdits       \* changes in a behaviour

VARIABLES
    cluster,  \* [Objects -> value or Absent]
    scan,     \* the request in progress, Idle between requests
    edits     \* changes so far
vars == <<cluster, scan, edits>>

Resources == {"cpu", "memory"}
Views     == {"nodes", "workloads", "gpu", "networking", "storage", "security", "configuration"}

\* Thresholds of insights.go.
PendingAfter == 10
GPUPendingAfter == 5
GPUUnreadyAfter == 10
UnderRequestAfter == 15
HighRestarts == 3
GPUWarning == 80
GPUCritical == 95
UnderRequestPercent == 20
NodeUnderRequestPercent == 50
MinUnderRequest == [cpu |-> 100, memory |-> 128]
VolumeFull == 85
ReleasedTooLong == 7

Synonyms ==
    [nodes         |-> {"node", "nodes"},
     workloads     |-> {"workload", "workloads", "pod", "pods"},
     gpu           |-> {"gpu", "gpus", "accelerator", "accelerators"},
     networking    |-> {"network", "networking", "service", "services", "ingress", "ingresses"},
     storage       |-> {"storage", "pvc", "pv", "volume", "volumes"},
     security      |-> {"security", "secure"},
     configuration |-> {"configuration", "config", "references", "reference"}]

\* normalizeInsightCategories: an unknown part selects nothing, an empty one everything.
NormalizeCategories(category) ==
    IF category \cap {"", "all"} # {} THEN Views
    ELSE {v \in Views : Synonyms[v] \cap category # {}}

Kind(o)      == o[1]
Namespace(o) == o[2]
Name(o)      == o[3]
Object(kind, ns, name) == <<kind, ns, name>>

\* Which metrics the server has; a kubelet of node n that answers is an object
\* <<"Summary", ClusterScope, n>>, what its volumes use, and <<"Resource", ...>>, its pods.
MetricsServer == Object("Metrics", ClusterScope, "server")

\* Values that are always there, whatever they say.
Sources == {MetricsServer, Object("Suppression", ClusterScope, "list")}

\* The namespaces of a request are distinct by the time they are listed
\* (uniqueStrings), and a Secret has a name.
ASSUME InsightsAssumption ==
    /\ \A o \in Objects : /\ o = Object(Kind(o), Namespace(o), Name(o))
                          /\ Kind(o) = "Secret" => Name(o) # ""
    /\ Sources \subseteq Objects
    /\ \A c \in Starts : DOMAIN c = Objects /\ \A o \in Sources : c[o] # Absent
    /\ \A e \in Edits : e[1] \in Sources => e[2] # Absent
    /\ \A r \in Requests : /\ r.namespaces \in Seq(ToSet(r.namespaces))
                           /\ IsInjective(r.namespaces)
                           /\ ClusterScope \notin ToSet(r.namespaces)

\* What an item can be about besides an object of the cluster.
Whole(ns)    == Object("Namespace", ns, ns)
WholeCluster == Object("Cluster", ClusterScope, "cluster")
Route(r)     == Object("Route", ClusterScope, r)

\* What the lists read so far hold: seen is a function on the objects listed.
Of(seen, kind, ns)    == {o \in DOMAIN seen : Kind(o) = kind /\ Namespace(o) = ns}
Named(seen, kind, ns) == {Name(o) : o \in Of(seen, kind, ns)}
AllOf(seen, kind)     == {o \in DOMAIN seen : Kind(o) = kind}

Item(check, on, status)  == [check |-> check, on |-> on, status |-> status]
When(condition, item)    == IF condition THEN {item} ELSE {}
Warn(check, on, bad)     == Item(check, on, IF bad THEN "warning" ELSE "ok")
Critical(check, on, bad) == Item(check, on, IF bad THEN "critical" ELSE "ok")

Most(S)     == IF S = {} THEN 0 ELSE Max(S)

(***************************************************************************)
(* Pods.                                                                   *)
(***************************************************************************)
Active(p) == p.phase \notin {"Succeeded", "Failed"}

\* Containers add up; an init container runs alone.
PodTotal(p, amount) ==
    LET Run(init) == {i \in DOMAIN p.containers : p.containers[i].init = init}
    IN  Max({SumFunctionOnSet(amount, Run(FALSE)), Most({amount[i] : i \in Run(TRUE)})})

Requested(p, r) == PodTotal(p, [i \in DOMAIN p.containers |-> p.containers[i].request[r]])
Limited(p, r)   == PodTotal(p, [i \in DOMAIN p.containers |-> p.containers[i].limit[r]])
GPURequest(p)   == PodTotal(p, [i \in DOMAIN p.containers |-> p.containers[i].gpus])

MissingRequests(p) ==
    \E i \in DOMAIN p.containers, r \in Resources : p.containers[i].request[r] = 0

WorkloadTrouble(check, p) ==
    CASE check = "pod-pending"       -> p.phase = "Pending" /\ p.age >= PendingAfter
      [] check = "container-waiting" -> "waiting" \in p.signs
      [] check = "oomkilled"         -> "oomkilled" \in p.signs
      [] check = "pod-restarts"      -> p.restarts >= HighRestarts
      [] check = "missing-requests"  -> Active(p) /\ MissingRequests(p)

UsageItems(o, p, use) ==
    LET over  == \E r \in Resources : Requested(p, r) > 0 /\ use[r] > Requested(p, r)
        under == \E r \in Resources :
                    /\ Requested(p, r) >= MinUnderRequest[r]
                    /\ use[r] * 100 < Requested(p, r) * UnderRequestPercent
    IN  When(\E r \in Resources : Requested(p, r) > 0, Warn("pod-request-usage", o, over))
        \cup When(p.age >= UnderRequestAfter /\ under, Item("pod-under-request", o, "warning"))

WorkloadItems(seen, ns) ==
    UNION {{Item(check, o, "warning") : o \in {q \in Of(seen, "Pod", ns) : WorkloadTrouble(check, seen[q])}} :
             check \in {"pod-pending", "container-waiting", "oomkilled", "pod-restarts", "missing-requests"}}

DaemonSetItems(seen, ns) ==
    {Warn("daemonset-readiness", o, seen[o].desired > seen[o].ready) : o \in Of(seen, "DaemonSet", ns)}

SecurityItems(seen, ns) ==
    UNION {When(Active(seen[o]) /\ "privileged" \in seen[o].signs, Item("pod-privileged", o, "warning"))
           \cup When(Active(seen[o]) /\ "sensitive-env" \in seen[o].signs,
                     Item("sensitive-env-literal", o, "warning"))
           \cup {Warn("root-user", o, "root" \in seen[o].signs)} : o \in Of(seen, "Pod", ns)}

\* A mistaken ActivePods: the count is not reset for the next namespace.
ActiveSoFar(seen, ns) == {o \in AllOf(seen, "Pod") : Active(seen[o])}

ActivePods(seen, ns) == {o \in Of(seen, "Pod", ns) : Active(seen[o])}

NetworkPolicyItems(seen, ns) ==
    When(ActivePods(seen, ns) # {},
         Warn("network-policy-coverage", Whole(ns), Of(seen, "NetworkPolicy", ns) = {}))

ConfigurationItems(seen, ns) ==
    {Item("missing-references", o, "critical") :
        o \in {q \in ActivePods(seen, ns) :
                 ~ /\ seen[q].secrets \subseteq Named(seen, "Secret", ns)
                   /\ seen[q].configMaps \subseteq Named(seen, "ConfigMap", ns)}}

(***************************************************************************)
(* GPUs.                                                                   *)
(***************************************************************************)
GPUPods(seen, ns) == {o \in ActivePods(seen, ns) : GPURequest(seen[o]) > 0}

GPUPending(p) == p.phase = "Pending" /\ p.age >= GPUPendingAfter
GPUUnready(p) == p.node # NoNode /\ ~p.ready /\ p.unready >= GPUUnreadyAfter

GPUPodItems(seen, ns) ==
    UNION {When(GPUPending(seen[o]), Item("gpu-pod-pending", o, "warning"))
           \cup When(GPUUnready(seen[o]), Item("gpu-pod-unready", o, "warning"))
           \cup When(MissingRequests(seen[o]), Item("gpu-pod-requests", o, "warning"))
             : o \in GPUPods(seen, ns)}

GPUNamespaceItems(seen, ns) ==
    IF GPUPods(seen, ns) = {} THEN {}
    ELSE {Item("gpu-namespace-usage", Whole(ns), "ok")}
         \cup When(\A q \in Of(seen, "ResourceQuota", ns) : ~seen[q].gpu,
                   Item("gpu-quota", Whole(ns), "warning"))

Pressure(on, allocatable, requested) ==
    Item("gpu-allocation-pressure", on,
         IF requested * 100 >= allocatable * GPUCritical THEN "critical"
         ELSE IF requested * 100 >= allocatable * GPUWarning THEN "warning" ELSE "ok")

\* The part after the namespaces: every selected namespace's pods against all nodes.
GPUClusterItems(seen) ==
    LET Pods      == {o \in AllOf(seen, "Pod") : Active(seen[o])}
        Asking    == {o \in Pods : GPURequest(seen[o]) > 0}
        Nodes     == {n \in AllOf(seen, "Node") : seen[n].gpus > 0}
        Gpus      == [n \in Nodes |-> seen[n].gpus]
        Taken     == [n \in Nodes |->
                        SumFunction([o \in {q \in Asking : seen[q].node = Name(n)} |-> GPURequest(seen[o])])]
        Free      == [n \in Nodes |-> Max({Gpus[n] - Taken[n], 0})]
        Open      == {n \in Nodes : ~seen[n].cordoned}
        Others(n) == {o \in Pods \ Asking : seen[o].node = Name(n) /\ ~seen[o].daemon}
        Fragmented == {o \in Asking : /\ GPUPending(seen[o])
                                      /\ SumFunctionOnSet(Free, Open) >= GPURequest(seen[o])
                                      /\ \A n \in Open : Free[n] < GPURequest(seen[o])}
    IN  IF Nodes = {}
        THEN {Critical("gpu-capacity-discovery", WholeCluster, Asking # {})}
        ELSE (UNION {{Pressure(n, Gpus[n], Taken[n])}
                     \cup When(n \notin Open, Item("gpu-node-cordoned", n, "warning"))
                     \cup When(Taken[n] = 0, Item("gpu-node-idle-allocation", n, "warning"))
                     \cup When(Others(n) # {}, Item("non-gpu-pods-on-gpu-node", n, "warning"))
                       : n \in Nodes})
             \cup {Pressure(WholeCluster, SumFunction(Gpus), SumFunction(Taken))}
             \cup {Item("gpu-fragmentation", o, "warning") : o \in Fragmented}

(***************************************************************************)
(* Nodes and storage.                                                      *)
(***************************************************************************)
NodeItems(seen) == {Critical("node-condition", n, ~seen[n].healthy) : n \in AllOf(seen, "Node")}

\* A pod may run on a node that was not there yet when the nodes were listed.
NodeCapacityItems(seen) ==
    LET Pods       == {o \in AllOf(seen, "Pod") : Active(seen[o]) /\ seen[o].node # NoNode}
        Listed     == Named(seen, "Node", ClusterScope)
        Node(n)    == seen[Object("Node", ClusterScope, n)]
        Capacity(n, r) == IF n \in Listed THEN Node(n).capacity[r] ELSE 0
        On(n)      == {o \in Pods : seen[o].node = n}
        Asked(n, r)    == SumFunction([o \in On(n) |-> Requested(seen[o], r)])
        Limits(n, r)   == SumFunction([o \in On(n) |-> Limited(seen[o], r)])
        Over(n)    == \E r \in Resources : Asked(n, r) > Capacity(n, r) \/ Limits(n, r) > Capacity(n, r)
        Sized(n)   == (\A r \in Resources : Capacity(n, r) > 0) /\ ~Node(n).cordoned
        Under(n)   == \A r \in Resources :
                        Asked(n, r) * 100 < Capacity(n, r) * NodeUnderRequestPercent
    IN  UNION {{Critical("node-capacity", Object("Node", ClusterScope, n), Over(n))}
               \cup When(Sized(n), Warn("node-underutilized", Object("Node", ClusterScope, n), Under(n)))
                 : n \in Listed \cup {seen[o].node : o \in Pods}}

PVCItems(seen, ns) ==
    {Critical("pvc-binding", o, ~seen[o].bound) : o \in Of(seen, "PersistentVolumeClaim", ns)}

\* Released volumes whose claim was in a selected namespace, or that name none.
VolumeItems(seen, scope) ==
    {Warn("pv-released", v, seen[v].age > ReleasedTooLong) :
        v \in {w \in AllOf(seen, "PersistentVolume") :
                 seen[w].released /\ (seen[w].claim = ClusterScope \/ seen[w].claim \in scope)}}

(***************************************************************************)
(* Networking.                                                             *)
(***************************************************************************)
ReadyEndpoints(seen, ns, service) ==
    \E e \in Of(seen, "EndpointSlice", ns) : seen[e].service = service /\ seen[e].ready > 0

ServiceItems(seen, ns) ==
    UNION {When(seen[o].type = "LoadBalancer", Warn("loadbalancer-pending", o, ~seen[o].address))
           \cup {Warn("service-endpoints", o,
                      /\ seen[o].type # "ExternalName" /\ seen[o].selector # {}
                      /\ ~ReadyEndpoints(seen, ns, Name(o)))} : o \in Of(seen, "Service", ns)}

NamesSecret(seen, ns) == \E o \in Of(seen, "Ingress", ns) : \E t \in seen[o].tls : t # ""

ValidTLS(seen, ns, secret) ==
    /\ secret \in Named(seen, "Secret", ns)
    /\ seen[Object("Secret", ns, secret)].tls

IngressItems(seen, ns) ==
    UNION {When(seen[o].tls # {},
                Critical("ingress-tls", o, \E t \in seen[o].tls : ~ValidTLS(seen, ns, t)))
           \cup {Critical("ingress-backend", o,
                          ~ seen[o].backends \subseteq Named(seen, "Service", ns))}
             : o \in Of(seen, "Ingress", ns)}

HasService(seen, ns, labels) ==
    /\ labels # {}
    /\ \E s \in Of(seen, "Service", ns) : seen[s].selector # {} /\ seen[s].selector \subseteq labels

CoverageItems(seen, kind, ns) ==
    {Warn("service-coverage", o, ~HasService(seen, ns, seen[o].labels)) : o \in Of(seen, kind, ns)}

\* Routes defined by more than one of the selected namespaces' Ingresses.
RouteItems(seen) ==
    LET Ingresses == AllOf(seen, "Ingress")
    IN  {Item("ingress-route-collision", Route(r), "warning") :
            r \in {t \in UNION {seen[o].routes : o \in Ingresses} :
                         Cardinality({o \in Ingresses : t \in seen[o].routes}) > 1}}

(***************************************************************************)
(* The traversal: its List calls in order, and what is reported after each. *)
(***************************************************************************)
Call(kind, ns, of) == [kind |-> kind, ns |-> ns, of |-> of]

\* A call is made when one of the views it serves is asked for.
MetricsCalls ==
    <<Call("VolumeStats", ClusterScope, {"storage"}),
      Call("NodeMetrics", ClusterScope, {"nodes"}),
      Call("PodMetrics", ClusterScope, {"workloads"})>>

\* A mistaken ClusterCalls: the nodes are loaded for their own view only.
NodesForNodes == <<Call("Node", ClusterScope, {"nodes"})>> \o MetricsCalls

ClusterCalls == <<Call("Node", ClusterScope, {"nodes", "gpu"})>> \o MetricsCalls

NamespaceCalls(ns) ==
    <<Call("PersistentVolumeClaim", ns, {"storage"}),
      Call("Event", ns, {"workloads", "gpu"}),
      Call("Secret", ns, {"configuration"}),
      Call("ConfigMap", ns, {"configuration"}),
      Call("ResourceQuota", ns, {"gpu"}),
      Call("DaemonSet", ns, {"workloads"}),
      Call("Pod", ns, {"workloads", "nodes", "gpu", "security", "configuration"}),
      Call("NetworkPolicy", ns, {"security"}),
      Call("Service", ns, {"networking"}),
      Call("EndpointSlice", ns, {"networking"}),
      Call("Ingress", ns, {"networking"}),
      Call("TLSSecret", ns, {"networking"}),
      Call("Deployment", ns, {"networking"}),
      Call("StatefulSet", ns, {"networking"})>>

VolumeCalls == <<Call("PersistentVolume", ClusterScope, {"storage"})>>

\* Read by the handler once BuildInsights has returned.
SuppressionCall == Call("Suppression", ClusterScope, Views)

Calls(namespaces) ==
    IF namespaces = << >> THEN <<SuppressionCall>>
    ELSE ClusterCalls \o FlattenSeq([i \in DOMAIN namespaces |-> NamespaceCalls(namespaces[i])])
           \o VolumeCalls \o <<SuppressionCall>>

Wanted(call, views) == call.kind = "Suppression" \/ call.of \cap views # {}

\* The calls still to make, from the first one the views ask for.
Upcoming(calls, views) ==
    SubSeq(calls, Min({i \in DOMAIN calls : Wanted(calls[i], views)}), Len(calls))

\* What a section of query q reports as soon as its last list is read.
Sections(q, call, seen) ==
    LET ns    == call.ns
        scope == ToSet(q.namespaces)
        For(view, items) == IF view \in q.views THEN items ELSE {}
    IN  CASE call.kind = "NodeMetrics" -> NodeItems(seen)
          [] call.kind = "PersistentVolumeClaim" -> PVCItems(seen, ns)
          [] call.kind = "DaemonSet" -> DaemonSetItems(seen, ns)
          [] call.kind = "Pod" -> For("workloads", WorkloadItems(seen, ns))
                                  \cup For("security", SecurityItems(seen, ns))
                                  \cup For("configuration", ConfigurationItems(seen, ns))
                                  \cup For("gpu", GPUPodItems(seen, ns) \cup GPUNamespaceItems(seen, ns))
          [] call.kind = "NetworkPolicy" -> NetworkPolicyItems(seen, ns)
          [] call.kind = "EndpointSlice" -> ServiceItems(seen, ns)
          [] call.kind = "TLSSecret" -> IngressItems(seen, ns)
          [] call.kind \in {"Deployment", "StatefulSet"} -> CoverageItems(seen, call.kind, ns)
          [] call.kind = "Suppression" /\ scope # {} ->
                For("networking", RouteItems(seen)) \cup For("gpu", GPUClusterItems(seen))
                \cup For("storage", VolumeItems(seen, scope)) \cup For("nodes", NodeCapacityItems(seen))
          [] OTHER -> {}

ListedKind(call) == IF call.kind = "TLSSecret" THEN "Secret" ELSE call.kind

\* A mistaken Needless: the secrets are read again for the Ingresses.
SecretsAgain(known, call) ==
    \/ call.kind = "NetworkPolicy" /\ ActivePods(known.seen, call.ns) = {}
    \/ call.kind = "TLSSecret" /\ ~NamesSecret(known.seen, call.ns)

\* Lists only made when what was read before asks for them, secrets once per namespace.
Needless(known, call) ==
    \/ call.kind = "NetworkPolicy" /\ ActivePods(known.seen, call.ns) = {}
    \/ call.kind = "TLSSecret" /\ \/ ~NamesSecret(known.seen, call.ns)
                                  \/ <<"Secret", call.ns>> \in known.read

Listing(c, kind, ns) == {o \in Objects : Kind(o) = kind /\ Namespace(o) = ns /\ c[o] # Absent}

\* The lists read once this call has answered from cluster c.
Reads(known, call, c) ==
    LET kind == ListedKind(call)
        now  == Listing(c, kind, call.ns)
        kept == {o \in DOMAIN known.seen : Kind(o) # kind \/ Namespace(o) # call.ns}
    IN  IF Needless(known, call) THEN known.seen
        ELSE [o \in now \cup kept |-> IF o \in now THEN c[o] ELSE known.seen[o]]

(***************************************************************************)
(* What is measured.  The kubelets asked are those of the nodes listed      *)
(* before, and one answers through its Node only while there is one.        *)
(***************************************************************************)
NodesOf(c) == {Name(o) : o \in Listing(c, "Node", ClusterScope)}

Answers(c, endpoint, nodes) ==
    {c[o] : o \in {k \in Listing(c, endpoint, ClusterScope) : Name(k) \in nodes \cap NodesOf(c)}}

\* What the answers hold together, of the greatest where they overlap.
Reported(answers) == UNION {DOMAIN a : a \in answers}

VolumeUse(c, nodes) ==
    LET answers == Answers(c, "Summary", nodes)
    IN  [claim \in Reported(answers) |-> Max({a[claim] : a \in {b \in answers : claim \in DOMAIN b}})]

Pipeline(c, nodes) ==
    IF c[MetricsServer].nodes THEN "server"
    ELSE IF Answers(c, "Resource", nodes) # {} THEN "kubelet" ELSE "none"

\* The metrics server must answer for every namespace, or the kubelets are scraped, those
\* of all nodes when none are loaded; one reading of a pod stays.
PodUse(c, nodes, scope) ==
    LET answers == Answers(c, "Resource", IF nodes = {} THEN NodesOf(c) ELSE nodes)
    IN  IF scope \subseteq c[MetricsServer].served THEN c[MetricsServer].use
        ELSE [pod \in Reported(answers) |-> (CHOOSE a \in answers : pod \in DOMAIN a)[pod]]

Unmeasured == [volumes |-> << >>, pipeline |-> "unread", pods |-> << >>]

\* What is measured after the call; volume statistics list the nodes unless they are loaded.
Measure(q, known, measured, call, c) ==
    LET nodes == IF <<"Node", ClusterScope>> \in known.read THEN Named(known.seen, "Node", ClusterScope)
                 ELSE NodesOf(c)
    IN  CASE call.kind = "VolumeStats" -> [measured EXCEPT !.volumes = VolumeUse(c, nodes)]
          [] call.kind = "NodeMetrics" -> [measured EXCEPT !.pipeline = Pipeline(c, nodes)]
          [] call.kind = "PodMetrics" -> [measured EXCEPT !.pods = PodUse(c, nodes, ToSet(q.namespaces))]
          [] OTHER -> measured

\* What is reported of it, of the claims and pods listed.
MeasuredItems(q, seen, measured) ==
    LET Key(o) == <<Namespace(o), Name(o)>>
        Claims == {o \in AllOf(seen, "PersistentVolumeClaim") : Key(o) \in DOMAIN measured.volumes}
        Pods   == {o \in AllOf(seen, "Pod") : seen[o].phase = "Running" /\ Key(o) \in DOMAIN measured.pods}
    IN  When("nodes" \in q.views /\ measured.pipeline \in {"kubelet", "none"},
             Item("metrics-pipeline", WholeCluster, IF measured.pipeline = "kubelet" THEN "warning" ELSE "critical"))
        \cup {Warn("pvc-usage", o, measured.volumes[Key(o)] >= VolumeFull) :
                 o \in {p \in Claims : "storage" \in q.views}}
        \cup UNION {UsageItems(o, seen[o], measured.pods[Key(o)]) : o \in {p \in Pods : "workloads" \in q.views}}

\* The handler: items whose key is on the suppression list are marked.
Marked(items, seen) ==
    LET list == seen[Object("Suppression", ClusterScope, "list")]
    IN  {[check |-> i.check, on |-> i.on, status |-> i.status,
          suppressed |-> <<i.check, i.on>> \in list] : i \in items}

Query(views, namespaces) == [views |-> views, namespaces |-> namespaces]

\* What a traversal knows: the lists it dealt with, the objects it saw, its items.
Nothing == [read |-> {}, seen |-> << >>, items |-> {}]

Begin(q, c) ==
    [at |-> "traversing", query |-> q, todo |-> Upcoming(Calls(q.namespaces), q.views),
     known |-> Nothing, measured |-> Unmeasured, moments |-> {c}]

Answered(s, known) ==
    [at |-> "answered", query |-> s.query,
     items |-> Marked(known.items \cup MeasuredItems(s.query, known.seen, s.measured), known.seen),
     moments |-> s.moments]

\* One List call and the sections computed before the next.
Advance(q, known, call, c) ==
    [read  |-> known.read \cup {<<ListedKind(call), call.ns>>},
     seen  |-> Reads(known, call, c),
     items |-> known.items \cup Sections(q, call, Reads(known, call, c))]

(***************************************************************************)
(* Actions.                                                                *)
(***************************************************************************)
Idle   == [at |-> "idle"]
Failed == [at |-> "failed"]

Init ==
    /\ cluster \in Starts
    /\ scan = Idle
    /\ edits = 0

Request(r) ==
    /\ scan.at # "traversing"
    /\ scan' = Begin(Query(NormalizeCategories(r.category), r.namespaces), cluster)
    /\ UNCHANGED <<cluster, edits>>

List ==
    /\ scan.at = "traversing"
    /\ LET call  == Head(scan.todo)
           known == Advance(scan.query, scan.known, call, cluster)
       IN  scan' = IF call.kind = "Suppression" THEN Answered(scan, known)
                   ELSE [scan EXCEPT !.known = known,
                                     !.measured = Measure(scan.query, scan.known, @, call, cluster),
                                     !.todo = Upcoming(Tail(@), scan.query.views)]
    /\ UNCHANGED <<cluster, edits>>

\* Metrics that cannot be read are left out, and volume statistics of nodes listed
\* before; any other list that fails, a made one, fails the request.
ListFails ==
    /\ scan.at = "traversing"
    /\ Head(scan.todo).kind \notin {"NodeMetrics", "PodMetrics"}
    /\ Head(scan.todo).kind = "VolumeStats" => <<"Node", ClusterScope>> \notin scan.known.read
    /\ ~Needless(scan.known, Head(scan.todo))
    /\ scan' = Failed
    /\ UNCHANGED <<cluster, edits>>

\* Controllers, kubelets and operators change the cluster meanwhile.
Edit(o, v) ==
    /\ edits < MaxEdits
    /\ cluster[o] # v
    /\ cluster' = [cluster EXCEPT ![o] = v]
    /\ edits' = edits + 1
    /\ scan' = IF scan.at = "traversing" THEN [scan EXCEPT !.moments = @ \cup {cluster'}] ELSE scan

Next ==
    \/ \E r \in Requests : Request(r)
    \/ List
    \/ ListFails
    \/ \E e \in Edits : Edit(e[1], e[2])

Spec == Init /\ [][Next]_vars

(***************************************************************************)
(* Properties.                                                             *)
(***************************************************************************)
\* What the first calls of a query tell if the cluster stands still as c.
Known(c, q) ==
    LET calls == Calls(q.namespaces)
        known[k \in 0..Len(calls)] ==
            IF k = 0 THEN Nothing
            ELSE IF Wanted(calls[k], q.views) THEN Advance(q, known[k - 1], calls[k], c)
            ELSE known[k - 1]
    IN  known

\* What is measured then by the calls made.
MeasuredThen(c, q, made) ==
    LET Made(kind) == <<kind, ClusterScope>> \in made
    IN  [volumes  |-> IF Made("VolumeStats") THEN VolumeUse(c, NodesOf(c)) ELSE << >>,
         pipeline |-> IF Made("NodeMetrics") THEN Pipeline(c, NodesOf(c)) ELSE "unread",
         pods     |-> IF Made("PodMetrics") THEN PodUse(c, NodesOf(c), ToSet(q.namespaces)) ELSE << >>]

\* The answer to the query then.
Instant(c, q) ==
    LET all == Known(c, q)[Len(Calls(q.namespaces))]
    IN  Marked(all.items \cup MeasuredItems(q, all.seen, MeasuredThen(c, q, all.read)), all.seen)

MeasuredChecks == {"metrics-pipeline", "pvc-usage", "pod-request-usage", "pod-under-request"}

\* No node came or went, and nothing changed that two calls measure by.
Steady(moments) ==
    \A c, d \in moments :
        /\ NodesOf(c) = NodesOf(d)
        /\ \A o \in Objects : Kind(o) \in {"Metrics", "Resource"} => c[o] = d[o]

\* A traversal during which at most one object changed answers what the cluster was at one
\* moment of it, before the change or after, however many sections use the object: no item
\* mixes the two.  What is measured may be missing or of the other moment when a node came
\* or went, or the metrics server or a kubelet's resource metrics changed; the rest is not.
OneMoment ==
    scan.at = "answered" /\ Cardinality(scan.moments) <= 2
        => LET Listed(items) == {i \in items : i.check \notin MeasuredChecks}
           IN  \E m \in scan.moments :
                  /\ Listed(scan.items) = Listed(Instant(m, scan.query))
                  /\ Steady(scan.moments) => scan.items = Instant(m, scan.query)

ViewOf(check) ==
    CASE check \in {"metrics-pipeline", "node-condition", "node-capacity", "node-underutilized"} -> "nodes"
      [] check \in {"pod-pending", "container-waiting", "oomkilled", "pod-restarts", "missing-requests",
                    "pod-request-usage", "pod-under-request", "daemonset-readiness"} -> "workloads"
      [] check \in {"gpu-pod-pending", "gpu-pod-unready", "gpu-pod-requests", "gpu-namespace-usage",
                    "gpu-quota", "gpu-allocation-pressure", "gpu-node-cordoned", "gpu-node-idle-allocation",
                    "non-gpu-pods-on-gpu-node", "gpu-fragmentation", "gpu-capacity-discovery"} -> "gpu"
      [] check \in {"loadbalancer-pending", "service-endpoints", "ingress-tls", "ingress-backend",
                    "service-coverage", "ingress-route-collision"} -> "networking"
      [] check \in {"pvc-binding", "pvc-usage", "pv-released"} -> "storage"
      [] check \in {"pod-privileged", "sensitive-env-literal", "root-user",
                    "network-policy-coverage"} -> "security"
      [] check = "missing-references" -> "configuration"

\* A request for some categories, of a cluster that stood still, answers what the full
\* page says under them: a view that loads less does not say something else.
ViewsAgree ==
    scan.at = "answered" /\ Cardinality(scan.moments) = 1
        => \A m \in scan.moments :
             scan.items = {i \in Instant(m, Query(Views, scan.query.namespaces)) :
                             ViewOf(i.check) \in scan.query.views}

\* Checks of a namespace's pods that weigh them against the whole selection.
SelectionWide == {"gpu-fragmentation", "pod-request-usage", "pod-under-request"}

\* What is said about a namespace does not depend on the namespaces selected with it.
NamespacesApart ==
    scan.at = "answered" /\ Cardinality(scan.moments) = 1
        => \A m \in scan.moments, ns \in ToSet(scan.query.namespaces) :
             LET About(items) == {i \in items : Namespace(i.on) = ns /\ i.check \notin SelectionWide}
             IN  About(scan.items) = About(Instant(m, Query(scan.query.views, <<ns>>)))
=============================================================================
