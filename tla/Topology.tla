------------------------------ MODULE Topology ------------------------------
(***************************************************************************)
(* transform.go: from eight Kubernetes lists to the snapshot a client      *)
(* draws.  A list is a set of objects, of which only the fields that       *)
(* decide links, health and alerts are kept; the API server gives every    *)
(* object a name and every namespaced one a namespace.  Ids are tuples     *)
(* <<kind, namespace, name>>, or <<name>> for a node; "at most one" is a   *)
(* set.                                                                    *)
(***************************************************************************)
EXTENDS Integers, FiniteSets, SequencesExt

resourceID(kind, ns, name) == <<kind, ns, name>>

\* Owner reference kind -> the workload kind of ids.
WorkloadKindOf == [Deployment |-> "deployment", DaemonSet |-> "daemonSet",
                   StatefulSet |-> "statefulSet", Job |-> "job"]

\* The first owner reference of one of kinds, as a set.
FirstOwner(o, kinds) ==
    LET i == SelectInSeq(o.owners, LAMBDA ref : ref.kind \in kinds)
    IN  IF i = 0 THEN {} ELSE {o.owners[i]}

\* <<namespace, ReplicaSet name, Deployment id>> of every ReplicaSet that has one.
replicaSetOwnerMap(replicaSets) ==
    UNION {{<<rs.ns, rs.name, resourceID("deployment", rs.ns, d.name)>> :
               d \in FirstOwner(rs, {"Deployment"})} : rs \in replicaSets}

workloadIDForPod(pod, owners) ==
    UNION {IF ref.kind = "ReplicaSet"
           THEN {e[3] : e \in {x \in owners : x[1] = pod.ns /\ x[2] = ref.name}}
           ELSE {resourceID(WorkloadKindOf[ref.kind], pod.ns, ref.name)} :
             ref \in FirstOwner(pod, {"ReplicaSet", "DaemonSet", "StatefulSet", "Job"})}

\* The pods counted for a workload (podWorkloadIDs, turned round).
PodsOf(wid, raw) ==
    {p \in raw.pods : wid \in workloadIDForPod(p, replicaSetOwnerMap(raw.replicaSets))}

-----------------------------------------------------------------------------
(* Health. *)

maxHealth(signals) ==
    CASE "critical" \in signals -> "critical"
      [] "warning" \in signals  -> "warning"
      [] OTHER                  -> "healthy"

PodSignal(p) ==
    CASE p.phase \in {"running", "succeeded"} -> IF p.restarted THEN "warning" ELSE "healthy"
      [] p.phase = "pending"                  -> "warning"
      [] OTHER                                -> "critical"

\* A Job's finished pods are earlier attempts and say nothing.
workloadHealthSignals(wid, raw) ==
    {PodSignal(p) : p \in {q \in PodsOf(wid, raw) :
        ~(wid[1] = "job" /\ q.phase \in {"failed", "succeeded"})}}

nodeFromItem(n, pods) ==
    [id |-> <<n.name>>, schedulable |-> ~n.unschedulable,
     podCount |-> Cardinality({p \in pods : p.node = n.name}),
     health |-> CASE ~n.ready                     -> "critical"
                  [] n.pressure \/ n.unschedulable -> "warning"
                  [] OTHER                         -> "healthy"]

\* desired and ready are spec.replicas and readyReplicas, the DaemonSet's
\* scheduled counts, or a Job's completions and successes.
DesiredReplicas(kind, w) ==
    IF kind = "job" /\ w.desired = 0 THEN (IF w.active > 0 THEN 1 ELSE w.ready) ELSE w.desired

workloadsFromItems(items, kind, raw) ==
    {LET wid == resourceID(kind, w.ns, w.name)
         desired == DesiredReplicas(kind, w)
     IN  [id |-> wid, ns |-> w.ns, kind |-> kind, desired |-> desired, ready |-> w.ready,
          nodes |-> {<<p.node>> : p \in {q \in PodsOf(wid, raw) : q.node # ""}},
          health |-> IF IF kind = "job" THEN w.failed ELSE w.ready < desired
                     THEN "warning" ELSE maxHealth(workloadHealthSignals(wid, raw))] : w \in items}

-----------------------------------------------------------------------------
(* Services. *)

\* Labels and selectors are sets of pairs <<key, value>>, with each key once.
HasKey(key, labels) == \E l \in labels : l[1] = key

\* labels[k] != v: a label that is not there reads as "".
Match(selector, labels) ==
    \A kv \in selector : kv \in labels \/ (kv[2] = "" /\ ~HasKey(kv[1], labels))

matchesSelector_AnyNamespace(s, w, raw) ==
    \E p \in PodsOf(w.id, raw) : Match(s.selector, p.labels)
\* Selectors only match pods of workloads in the service's own namespace.
matchesSelector(s, w, raw) ==
    w.ns = s.ns /\ \E p \in PodsOf(w.id, raw) : Match(s.selector, p.labels)

serviceExposure(s) ==
    CASE s.type = "NodePort"     -> "nodePort"
      [] s.type = "LoadBalancer" -> "loadBalancer"
      [] s.type = "ExternalName" -> "ingress"
      [] OTHER                   -> "clusterIp"

serviceFromItem(s, workloads, raw) ==
    LET targets == IF s.selector = {} THEN {}
                   ELSE {w.id : w \in {x \in workloads : matchesSelector(s, x, raw)}}
    IN  [id |-> resourceID("service", s.ns, s.name), targets |-> targets,
         exposure |-> serviceExposure(s),
         health |-> IF s.selector # {} /\ targets = {} THEN "warning" ELSE "healthy"]

-----------------------------------------------------------------------------
(* Alerts, links and the snapshot. *)

Alert(about, title) == [about |-> about, title |-> title]

nodeAlerts(nodes) ==
    {Alert(n.id, CASE n.health = "critical" -> "Node not ready"
                   [] ~n.schedulable        -> "Node unschedulable"
                   [] OTHER                 -> "Node pressure detected") :
        n \in {m \in nodes : m.health # "healthy"}}

failedJobIDs(jobs) == {resourceID("job", j.ns, j.name) : j \in {x \in jobs : x.failed}}

workloadAlerts(workloads, failedJobs) ==
       {Alert(w.id, "Job failed") : w \in {x \in workloads : x.kind = "job" /\ x.id \in failedJobs}}
  \cup {Alert(w.id, "Replica skew detected") :
          w \in {x \in workloads : x.kind # "job" /\ x.ready < x.desired}}

serviceAlerts(services) ==
    {Alert(s.id, "Service has no backing workloads") :
        s \in {x \in services : x.health = "warning"}}

workloadLinks(w) == {[source |-> n, target |-> w.id, kind |-> "workload"] : n \in w.nodes}

serviceLinks(s) == {[source |-> s.id, target |-> t, kind |-> s.exposure] : t \in s.targets}

links(workloads, services) ==
    (UNION {workloadLinks(w) : w \in workloads}) \cup (UNION {serviceLinks(s) : s \in services})

transformSnapshot(raw) ==
    LET nodes == {nodeFromItem(n, raw.pods) : n \in raw.nodes}
        workloads == workloadsFromItems(raw.deployments, "deployment", raw)
                \cup workloadsFromItems(raw.daemonSets, "daemonSet", raw)
                \cup workloadsFromItems(raw.statefulSets, "statefulSet", raw)
                \cup workloadsFromItems(raw.jobs, "job", raw)
        services == {serviceFromItem(s, workloads, raw) : s \in raw.services}
    IN  [nodes |-> nodes, workloads |-> workloads, services |-> services,
         alerts |-> nodeAlerts(nodes) \cup workloadAlerts(workloads, failedJobIDs(raw.jobs))
                    \cup serviceAlerts(services),
         links |-> links(workloads, services)]
=============================================================================
