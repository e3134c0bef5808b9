--------------------------- MODULE MCClusterReads ---------------------------
(***************************************************************************)
(* Clusters and event logs for ClusterReads.                               *)
(***************************************************************************)
EXTENDS ClusterReads

Node(name) == [name |-> name, ready |-> TRUE, pressure |-> FALSE, unschedulable |-> FALSE]
Ref(kind, name) == [kind |-> kind, name |-> name]
Pod(ns, name, owners, node, labels) ==
    [ns |-> ns, name |-> name, owners |-> owners, node |-> node, phase |-> "running",
     restarted |-> FALSE, labels |-> labels]
Workload(ns, name, desired, ready) ==
    [ns |-> ns, name |-> name, desired |-> desired, ready |-> ready, active |-> 0,
     failed |-> FALSE]
ReplicaSet(ns, name, owners) == [ns |-> ns, name |-> name, owners |-> owners]
Service(ns, name, selector) == [ns |-> ns, name |-> name, selector |-> selector, type |-> ""]

App == <<"app", "web">>
Db == <<"db", "">>      \* a label with the empty value

\* Namespace a rolls its Deployment out: a new ReplicaSet, a new pod on another
\* node, a node cordoned.  Namespace b, with the same labels and names, is quiet.
Quiescent ==
    [nodes |-> {Node("n1"), Node("n2")},
     pods |-> {Pod("a", "web-1", <<Ref("ReplicaSet", "web-r1")>>, "n1", {App}),
               Pod("b", "web-0", <<Ref("Other", "web"), Ref("StatefulSet", "web")>>, "n1",
                   {App, Db}),
               Pod("b", "log", <<Ref("DaemonSet", "log")>>, "n2", {<<"db", "0">>}),
               Pod("b", "lone", <<Ref("ReplicaSet", "web-r1")>>, "n2", {App, <<"db", "0">>})},
     services |-> {Service("a", "web", {App}), Service("b", "web", {App, Db}),
                   Service("b", "none", {<<"app", "db">>}), Service("b", "external", {})},
     deployments |-> {Workload("a", "web", 1, 1), Workload("b", "web", 0, 0)},
     daemonSets |-> {Workload("b", "log", 2, 1)},
     statefulSets |-> {Workload("b", "web", 1, 1)},
     jobs |-> {},
     replicaSets |-> {ReplicaSet("a", "web-r1", <<Ref("Deployment", "web")>>)}]

RolledOut ==
    [Quiescent EXCEPT
        !.nodes = {Node("n1"), [Node("n2") EXCEPT !.unschedulable = TRUE]},
        !.pods = (@ \ {p \in @ : p.ns = "a"}) \cup
                 {Pod("a", "web-2", <<Ref("ReplicaSet", "web-r2")>>, "n2", {App})},
        !.replicaSets = @ \cup {ReplicaSet("a", "web-r2", <<Ref("Deployment", "web")>>)}]

\* A Job between two attempts, then failed for good; a crash-looping Deployment,
\* a pending pod without a node, nodes under pressure and gone.
JobPod(name, phase) ==
    [Pod("a", name, <<Ref("Job", "load")>>, "n1", {}) EXCEPT !.phase = phase]

Retrying ==
    [nodes |-> {Node("n1"), [Node("n2") EXCEPT !.pressure = TRUE]},
     pods |-> {JobPod("load-1", "failed"), JobPod("load-2", "running"),
               [Pod("b", "web-1", <<Ref("ReplicaSet", "web-r1")>>, "n2", {App})
                  EXCEPT !.restarted = TRUE],
               [Pod("b", "db-0", <<Ref("StatefulSet", "db")>>, "", {Db}) EXCEPT !.phase = "pending"]},
     services |-> {[Service("b", "web", {App}) EXCEPT !.type = "NodePort"]},
     deployments |-> {Workload("b", "web", 1, 1)},
     daemonSets |-> {}, statefulSets |-> {Workload("b", "db", 1, 1)},
     jobs |-> {[Workload("a", "load", 0, 0) EXCEPT !.active = 1]},
     replicaSets |-> {ReplicaSet("b", "web-r1", <<Ref("Deployment", "web")>>)}]

GivenUp ==
    [Retrying EXCEPT
        !.nodes = {Node("n1"), [Node("n2") EXCEPT !.ready = FALSE]},
        !.pods = {[p EXCEPT !.phase = IF p.ns = "a" THEN "failed" ELSE @] : p \in @},
        !.jobs = {[Workload("a", "load", 0, 0) EXCEPT !.failed = TRUE]}]

\* Events of two objects that share a name, with every mix of timestamps.
Stamp == {<<0, 0, 1>>, <<0, 2, 1>>, <<1, 2, 1>>, <<2, 0, 1>>, <<3, 0, 0>>}
Event(i, t, kind) ==
    [uid |-> i, name |-> "web", namespace |-> "a", kind |-> kind,
     last |-> t[1], eventTime |-> t[2], created |-> t[3]]
MCEventLists == {<<>>} \cup
    {[i \in 1..3 |-> Event(i, ts[i], IF i = k THEN "Service" ELSE "Deployment")] :
        ts \in [1..3 -> Stamp], k \in {0, 2}}

MCHistories == <<<<Quiescent, RolledOut>>, <<Retrying, GivenUp>>>>

ASSUME MCSinglyOwned ==
    \A c \in {Quiescent, RolledOut, Retrying, GivenUp} : SinglyOwned(c)

Query(cluster, kind, n) ==
    [cluster |-> cluster, valid |-> TRUE, kind |-> kind, name |-> "web", namespace |-> "a",
     limit |-> n]
MCQueries ==
    {Query("own", "workload", 0), Query("own", "Deployment", 1), Query("own", "workload", 2),
     Query("other", "Deployment", 1), [Query("own", "Deployment", 1) EXCEPT !.valid = FALSE],
     [Query("own", "workload", 3) EXCEPT !.namespace = ""]}
=============================================================================
