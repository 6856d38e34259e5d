------------------------ MODULE MCClusterOperations ------------------------
(* Two clients under one role; a deployment of each of two namespaces, a    *)
(* custom resource with that Kind, a Secret and a cluster role; two pods   *)
(* of a node.                                                              *)
EXTENDS ClusterOperations, TLC

CONSTANTS c1, c2, operator, reader, admin

MCResources == {"workloads", "crds", "secrets", "clusterroles", "nodes", "pods", "apply"}

MCKindOf      == [depA |-> "deployment", depB |-> "deployment", dcr |-> "custom",
                  sec |-> "secret", crole |-> "clusterrole"]
MCWordOf      == [MCKindOf EXCEPT !.dcr = "deployment"]
MCNameOf      == [depA |-> "dep", depB |-> "dep", dcr |-> "dcr", sec |-> "sec", crole |-> "crole"]
MCNamespaceOf == [depA |-> "a", depB |-> "b", dcr |-> "a", sec |-> "a", crole |-> ClusterScope]
MCPodList      == <<"p1", "p2">>
MCClassOf      == [p1 |-> "managed", p2 |-> "local"]
MCPodNamespace == [p1 |-> "a", p2 |-> "b"]

NoRights == [r \in MCResources |-> [form |-> "level", level |-> "none"]]
Level(l)   == [form |-> "level", level |-> l]
OpenEdit   == [form |-> "flags", flags |-> [view |-> FALSE, edit |-> TRUE, delete |-> FALSE]]
OpenDelete == [form |-> "flags", flags |-> [view |-> FALSE, edit |-> FALSE, delete |-> TRUE]]

\* An operator of namespace a whose permissions skip what they imply; a reader; a
\* role for nodes and Apply YAML everywhere; an administrator.
MCContent ==
    operator :> [mode |-> "viewer", raw |-> [namespaces |-> {"a", " "},
        resources |-> [NoRights EXCEPT !["workloads"] = OpenEdit, !["secrets"] = OpenDelete,
                                       !["pods"] = OpenDelete, !["apply"] = OpenEdit]]] @@
    reader :> [mode |-> "viewer", raw |-> [namespaces |-> {},
        resources |-> [NoRights EXCEPT !["workloads"] = Level("view"), !["secrets"] = Level("view"),
                                       !["clusterroles"] = Level("full"), !["nodes"] = Level("edit")]]] @@
    admin :> [mode |-> "admin", raw |-> [namespaces |-> {}, resources |-> NoRights]]

ClientSymmetry == Permutations({c1, c2})

MCEdits == {[object |-> "depA", field |-> "replicas", value |-> 1],
            [object |-> "depA", field |-> "template", value |-> 1],
            [object |-> "dcr", field |-> "template", value |-> 1],
            [object |-> "sec", field |-> "template", value |-> 1]}

Doc(n, ns, f) == [name |-> n, namespace |-> ns, field |-> f, value |-> 1, mapped |-> TRUE]

MCDocuments == {<<Doc("dep", "", "replicas"), Doc("crole", "", "template")>>,
                <<Doc("dep", "a", "template"), Doc("dep", "b", "template")>>}
=============================================================================
