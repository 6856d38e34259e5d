----------------------------- MODULE MCInsights -----------------------------
(* Two GPU nodes and two namespaces with one object of nearly every kind;   *)
(* a behaviour starts from this cluster with one thing different.          *)
EXTENDS Insights

O(kind, ns, name) == <<kind, ns, name>>
R(c, m)           == [cpu |-> c, memory |-> m]
Box(init, c, m, g) == [init |-> init, request |-> R(c, m), limit |-> R(c, m), gpus |-> g]
Pod(phase, node, boxes) ==
    [phase |-> phase, age |-> 15, node |-> node, daemon |-> FALSE, containers |-> boxes, signs |-> {},
     restarts |-> 0, secrets |-> {}, configMaps |-> {}, ready |-> TRUE, unready |-> 0]
Node(g) == [healthy |-> TRUE, gpus |-> g, cordoned |-> FALSE, capacity |-> R(400, 400)]

One   == O("Node", ClusterScope, "g1")
Two   == O("Node", ClusterScope, "g2")
Train == O("Pod", "n1", "train")
Wait  == O("Pod", "n1", "wait")
Web   == O("Pod", "n1", "web")
Serve == O("Pod", "n2", "serve")
Cert  == O("Secret", "n1", "cert")
Entry == O("Service", "n1", "front")
In1   == O("Ingress", "n1", "in")
In2   == O("Ingress", "n2", "in")
Server == O("Metrics", ClusterScope, "server")
Stats == O("Summary", ClusterScope, "g1")
Stats2 == O("Summary", ClusterScope, "g2")
Uses1 == O("Resource", ClusterScope, "g1")
Uses2 == O("Resource", ClusterScope, "g2")
Marks == O("Suppression", ClusterScope, "list")
Claim == O("PersistentVolumeClaim", "n1", "data")
Disk  == O("PersistentVolume", ClusterScope, "disk")
Slice == O("EndpointSlice", "n1", "front")
Deploy == O("Deployment", "n1", "web")
Stateful == O("StatefulSet", "n2", "serve")
Policy == O("NetworkPolicy", "n1", "deny")
Quota == O("ResourceQuota", "n1", "gpus")
Daemon == O("DaemonSet", "n2", "agent")
Conf  == O("ConfigMap", "n1", "conf")

Base ==
    One :> Node(2) @@ Two :> Node(2)
    @@ Train :> Pod("Running", "g1", <<Box(TRUE, 50, 50, 0), Box(FALSE, 200, 200, 1)>>)
    @@ Wait :> [Pod("Pending", NoNode, <<Box(FALSE, 0, 50, 2)>>) EXCEPT !.ready = FALSE]
    @@ Web :> [Pod("Running", "g2", <<Box(FALSE, 100, 128, 0)>>)
                 EXCEPT !.secrets = {"cert"}, !.configMaps = {"conf"}]
    @@ Serve :> Pod("Running", "g2", <<Box(FALSE, 100, 100, 1)>>)
    @@ Cert :> [tls |-> TRUE] @@ Conf :> [data |-> TRUE]
    @@ Entry :> [type |-> "ClusterIP", selector |-> {"app"}, address |-> FALSE]
    @@ In1 :> [backends |-> {"front"}, routes |-> {"/"}, tls |-> {"cert"}]
    @@ In2 :> [backends |-> {}, routes |-> {"/v2"}, tls |-> {}]
    @@ Slice :> [service |-> "front", ready |-> 1]
    @@ Deploy :> [labels |-> {"app", "v1"}] @@ Stateful :> [labels |-> {"app"}]
    @@ Policy :> [all |-> TRUE] @@ Quota :> [gpu |-> TRUE]
    @@ Daemon :> [desired |-> 2, ready |-> 2]
    @@ Claim :> [bound |-> TRUE] @@ Disk :> [released |-> TRUE, claim |-> "n2", age |-> 8]
    @@ Stats :> (<<"n1", "data">> :> 85) @@ Stats2 :> << >>
    @@ Server :> [nodes |-> TRUE, served |-> {"n1", "n2"},
                  use |-> <<"n1", "train">> :> R(210, 150) @@ <<"n1", "web">> :> R(19, 128)]
    @@ Uses1 :> (<<"n1", "train">> :> R(190, 150))
    @@ Uses2 :> (<<"n1", "web">> :> R(19, 128) @@ <<"n2", "serve">> :> R(110, 90))
    @@ Marks :> {<<"ingress-tls", In1>>}

MCObjects == DOMAIN Base

MCEdits ==
    {<<One, [Node(2) EXCEPT !.cordoned = TRUE]>>, <<One, Absent>>, <<One, [Node(0) EXCEPT !.healthy = FALSE]>>,
     <<Train, [Base[Train] EXCEPT !.phase = "Succeeded"]>>,
     <<Wait, [Base[Wait] EXCEPT !.node = "g2", !.unready = 10]>>, <<Wait, Absent>>,
     <<Web, [Base[Web] EXCEPT !.node = "g1", !.signs = {"waiting", "oomkilled", "privileged", "sensitive-env", "root"}, !.restarts = 3]>>,
     <<Serve, Absent>>,
     <<Cert, Absent>>, <<Cert, [tls |-> FALSE]>>, <<Entry, Absent>>,
     <<Entry, [type |-> "LoadBalancer", selector |-> {}, address |-> FALSE]>>,
     <<In1, [Base[In1] EXCEPT !.tls = {}]>>, <<In2, [Base[In2] EXCEPT !.routes = {"/"}, !.tls = {""}]>>,
     <<Entry, [type |-> "LoadBalancer", selector |-> {"app"}, address |-> TRUE]>>,
     <<Daemon, [desired |-> 2, ready |-> 1]>>, <<Disk, [Base[Disk] EXCEPT !.claim = "n1", !.age = 7]>>,
     <<Claim, [bound |-> FALSE]>>, <<Slice, Absent>>, <<Policy, Absent>>, <<Quota, Absent>>,
     <<Stats, Absent>>, <<Stats, <<"n1", "data">> :> 84>>, <<Uses1, Absent>>,
     <<Server, [Base[Server] EXCEPT !.nodes = FALSE, !.served = {"n1"}]>>, <<Marks, {}>>}

\* Nodes without GPUs under pods that ask for them.
NoGPUs == [Base EXCEPT ![One] = Node(0), ![Two] = Node(0)]

\* No metrics server; then no kubelet answers either; one that reports another's claim.
NoServer == [Base EXCEPT ![Server] = [@ EXCEPT !.nodes = FALSE, !.served = {}]]
Silent   == [NoServer EXCEPT ![Uses1] = Absent, ![Uses2] = Absent]
Shared   == [Base EXCEPT ![Stats2] = <<"n1", "data">> :> 84]

MCStarts == {Base, NoGPUs, NoServer, Silent, Shared} \cup {[Base EXCEPT ![e[1]] = e[2]] : e \in MCEdits}

Ask(category, namespaces) == [category |-> category, namespaces |-> namespaces]

MCRequests ==
    {Ask({""}, <<"n1", "n2">>), Ask({"gpu"}, <<"n1", "n2">>), Ask({"ingress", "config"}, <<"n1", "n2">>),
     Ask({"secure"}, <<"n1", "n2">>), Ask({"pods", "nodes"}, <<"n2">>), Ask({"pvc"}, <<"n1", "n2">>), Ask({"all"}, <<"n1">>),
     Ask({"nonsense"}, <<"n1">>), Ask({"all", "gpu"}, << >>)}
=============================================================================
