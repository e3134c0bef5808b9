---------------------------- MODULE ClusterReads ----------------------------
(***************************************************************************)
(* GET .../snapshot and GET .../events of one cluster: the handler's       *)
(* routing, LoadSnapshot with its eight list goroutines, the error channel *)
(* and the WaitGroup, and LoadEvents.                                      *)
(*                                                                         *)
(* The cluster goes through the states of a history while the lists are    *)
(* being read.  resourceVersion=0 lets the API server answer each list     *)
(* from its watch cache, that is with any state so far.                    *)
(***************************************************************************)
EXTENDS Topology

CONSTANTS
    Histories,      \* sequence of clusters, each the sequence of its states
    EventLists,     \* what the API server may list, in its order
    Own,            \* KubeBackend.profile.ID
    Queries,        \* event queries, decoded
    DefaultLimit,   \* the handler's limit when none (or a bad one) is given
    MaxFailures,    \* bound: list calls that fail within one load
    Pending, Erring, Failed

ASSUME ReadsAssumption ==
    /\ DefaultLimit \in Nat \ {0} /\ MaxFailures \in Nat
    /\ \A s \in DOMAIN Histories : Len(Histories[s]) \in Nat \ {0}
    /\ \A q \in Queries : q.limit \in Int

\* An event's uid is its place in the API server's list.
ASSUME EventsAssumption ==
    \A log \in EventLists :
        /\ log \in Seq([uid : Nat, name : STRING, namespace : STRING, kind : STRING,
                        last : Nat, eventTime : Nat, created : Nat])
        /\ \A i \in DOMAIN log : log[i].uid = i

Lists == {"nodes", "pods", "services", "deployments", "daemonSets", "statefulSets",
          "jobs", "replicaSets"}

VARIABLES
    scenario, now,  \* the cluster, and the state of its history it is in
    pc,             \* what the handler is doing
    fetch,          \* LoadSnapshot's goroutines: Pending, Erring, Failed or the list
    errCh,          \* errors in the channel
    query,          \* LoadEvents' arguments
    answer

vars == <<scenario, now, pc, fetch, errCh, query, answer>>

history == Histories[scenario]

NoAnswer == [status |-> 0]
NoQuery == [cluster |-> Own]

TypeOK ==
    /\ scenario \in DOMAIN Histories /\ now \in 1..Len(history)
    /\ pc \in {"idle", "lists", "events", "done"}
    /\ DOMAIN fetch = Lists
    /\ errCh \in 0..Cardinality(Lists)
    /\ query \in Queries \cup {NoQuery}
    /\ answer.status \in {0, 200, 400, 404, 502}

Init ==
    /\ scenario \in DOMAIN Histories /\ now = 1
    /\ pc = "idle" /\ fetch = [l \in Lists |-> Pending] /\ errCh = 0
    /\ query = NoQuery /\ answer = NoAnswer

Reply(a) == pc' = "done" /\ answer' = a

-----------------------------------------------------------------------------
(* GET .../snapshot. *)

AskSnapshot(cluster) ==
    /\ pc = "idle"
    /\ IF cluster = Own
       THEN pc' = "lists" /\ UNCHANGED answer
       ELSE Reply([status |-> 404])
    /\ UNCHANGED <<scenario, now, fetch, errCh, query>>

\* A goroutine's GetJSON returns: the list as of some state so far.
Fetched(l) ==
    /\ pc = "lists" /\ fetch[l] = Pending
    /\ \E v \in 1..now : fetch' = [fetch EXCEPT ![l] = history[v][l]]
    /\ UNCHANGED <<scenario, now, pc, errCh, query, answer>>

\* ... or a transport error, a non-2xx status, a body that does not decode, or
\* RestClient's timeout.
FetchFailed(l) ==
    /\ pc = "lists" /\ fetch[l] = Pending
    /\ Cardinality({m \in Lists : fetch[m] \in {Erring, Failed}}) < MaxFailures
    /\ fetch' = [fetch EXCEPT ![l] = Erring]
    /\ UNCHANGED <<scenario, now, pc, errCh, query, answer>>

ErrCapacity_One == 1
\* make(chan error, len(fetches)): nobody receives before wg.Wait returns.
ErrCapacity == Cardinality(Lists)

SendErr(l) ==
    /\ fetch[l] = Erring /\ errCh < ErrCapacity
    /\ fetch' = [fetch EXCEPT ![l] = Failed]
    /\ errCh' = errCh + 1
    /\ UNCHANGED <<scenario, now, pc, query, answer>>

\* wg.Wait, the first error or the transformed lists.
LoadSnapshot ==
    /\ pc = "lists" /\ \A l \in Lists : fetch[l] \notin {Pending, Erring}
    /\ Reply(IF errCh > 0 THEN [status |-> 502]
             ELSE [status |-> 200, snapshot |-> transformSnapshot(fetch)])
    /\ UNCHANGED <<scenario, now, fetch, errCh, query>>

-----------------------------------------------------------------------------
(* GET .../events. *)

AskEvents(q) ==
    /\ pc = "idle"
    /\ CASE ~q.valid        -> Reply([status |-> 400]) /\ UNCHANGED query
         [] q.valid /\ q.cluster # Own -> Reply([status |-> 404]) /\ UNCHANGED query
         [] OTHER           -> pc' = "events" /\ query' = q /\ UNCHANGED answer
    /\ UNCHANGED <<scenario, now, fetch, errCh>>

limit(q) == IF q.limit > 0 THEN q.limit ELSE DefaultLimit

\* The fieldSelector, evaluated by the API server; kind "workload" selects none.
Selected(e, q) ==
    /\ e.name = q.name
    /\ q.namespace \in {"", e.namespace}
    /\ q.kind \in {"workload", e.kind}

\* ... in list order.
Selection(log, q) ==
    LET selected[n \in 0..Len(log)] ==
            IF n = 0 THEN <<>>
            ELSE selected[n - 1] \o (IF Selected(log[n], q) THEN <<log[n]>> ELSE <<>>)
    IN  selected[Len(log)]

\* 0 is the zero time: absent, or not RFC 3339.
eventFromItem(e) ==
    [uid |-> e.uid, at |-> CASE e.last # 0      -> e.last
                             [] e.eventTime # 0 -> e.eventTime
                             [] OTHER           -> e.created]

\* The inner loop: e moves left past the older events before it.
Insert(sorted, e) ==
    LET i == SelectInSeq(sorted, LAMBDA x : x.at < e.at)
    IN  IF i = 0 THEN Append(sorted, e) ELSE InsertAt(sorted, i, e)

sortEventsDesc(events) ==
    LET sorted[n \in 0..Len(events)] ==
            IF n = 0 THEN <<>> ELSE Insert(sorted[n - 1], events[n])
    IN  sorted[Len(events)]

Truncate(s, n) == SubSeq(s, 1, IF Len(s) > n THEN n ELSE Len(s))

Feed_OldestFirst(events, n) == sortEventsDesc(Truncate(events, n))
\* Sort, then truncate.
Feed(events, n) == Truncate(sortEventsDesc(events), n)

LoadEvents ==
    /\ pc = "events"
    /\ \E log \in EventLists :
          LET items == Selection(log, query) IN
          Reply([status |-> 200, log |-> log,
                 events |-> Feed([i \in DOMAIN items |-> eventFromItem(items[i])], limit(query))])
    /\ UNCHANGED <<scenario, now, fetch, errCh, query>>

LoadEventsFailed ==
    /\ pc = "events"
    /\ Reply([status |-> 502])
    /\ UNCHANGED <<scenario, now, fetch, errCh, query>>

-----------------------------------------------------------------------------
\* The client has read the answer, or the gateway restarts; nothing of the call
\* is kept.
NextCall ==
    /\ pc # "idle"
    /\ pc' = "idle" /\ fetch' = [l \in Lists |-> Pending] /\ errCh' = 0
    /\ query' = NoQuery /\ answer' = NoAnswer
    /\ UNCHANGED <<scenario, now>>

Advance ==
    /\ now < Len(history)
    /\ now' = now + 1
    /\ UNCHANGED <<scenario, pc, fetch, errCh, query, answer>>

Goroutine(l) == Fetched(l) \/ FetchFailed(l) \/ SendErr(l)

Handler == LoadSnapshot \/ LoadEvents \/ LoadEventsFailed

Next ==
    \/ \E cluster \in {Own, "other"} : AskSnapshot(cluster)
    \/ \E q \in Queries : AskEvents(q)
    \/ \E l \in Lists : Goroutine(l)
    \/ Handler
    \/ NextCall
    \/ Advance

Spec == Init /\ [][Next]_vars

\* API calls return within RestClient's 30 s timeout, and goroutines run.
FairSpec == Spec /\ WF_vars(Handler) /\ \A l \in Lists : WF_vars(Goroutine(l))

-----------------------------------------------------------------------------
(* Properties. *)

\* No object has two owners of the kinds that count: of several the code follows
\* the first.  (Of an object's owners one is its controller.)
OneOwner(o, kinds) ==
    /\ o.owners \in Seq([kind : STRING, name : STRING])
    /\ \A i, j \in DOMAIN o.owners :
          o.owners[i].kind \in kinds /\ o.owners[j].kind \in kinds => o.owners[i] = o.owners[j]

SinglyOwned(c) ==
    /\ \A p \in c.pods : OneOwner(p, {"ReplicaSet", "DaemonSet", "StatefulSet", "Job"})
    /\ \A rs \in c.replicaSets : OneOwner(rs, {"Deployment"})

\* Reference: pod p belongs to workload w, by owner references alone.
Refers(o, kind, name) == \E i \in DOMAIN o.owners : o.owners[i] = [kind |-> kind, name |-> name]

Runs(p, kind, w, c) ==
    /\ p.ns = w.ns
    /\ \/ kind # "Deployment" /\ Refers(p, kind, w.name)
       \/ /\ kind = "Deployment"
          /\ \E rs \in c.replicaSets : /\ rs.ns = w.ns
                                       /\ Refers(p, "ReplicaSet", rs.name)
                                       /\ Refers(rs, "Deployment", w.name)

WorkloadsOf(c) ==
    {<<"Deployment", w>> : w \in c.deployments} \cup {<<"DaemonSet", w>> : w \in c.daemonSets}
    \cup {<<"StatefulSet", w>> : w \in c.statefulSets} \cup {<<"Job", w>> : w \in c.jobs}

WorkloadId(k) == <<WorkloadKindOf[k[1]], k[2].ns, k[2].name>>

\* Kubernetes matches a pair, the empty value too, against a label the pod has.
Selects(s, p) == s.selector # {} /\ s.ns = p.ns /\ s.selector \subseteq p.labels

Backs(s, k, c) == \E p \in c.pods : Selects(s, p) /\ Runs(p, k[1], k[2], c)

Below(k) == IF k[1] = "Job" THEN k[2].failed ELSE k[2].ready < k[2].desired

Ailing(k, c) ==
    \/ Below(k)
    \/ \E p \in c.pods : /\ Runs(p, k[1], k[2], c)
                         /\ k[1] = "Job" => p.phase \notin {"failed", "succeeded"}
                         /\ p.phase \notin {"running", "succeeded"} \/ p.restarted

PodLinks(p, c) ==
    {<<<<p.node>>, WorkloadId(k)>> : k \in {j \in WorkloadsOf(c) : Runs(p, j[1], j[2], c)}}

ServiceLinks(s, c) ==
    {<<<<"service", s.ns, s.name>>, WorkloadId(k)>> : k \in {j \in WorkloadsOf(c) : Backs(s, j, c)}}

\* What a client should see of cluster state c.
View(c) ==
    [links |-> (UNION {PodLinks(p, c) : p \in {q \in c.pods : q.node # ""}})
          \cup (UNION {ServiceLinks(s, c) : s \in c.services}),
     alerts |-> {<<n.name>> : n \in {m \in c.nodes : ~m.ready \/ m.pressure \/ m.unschedulable}}
           \cup {WorkloadId(k) : k \in {x \in WorkloadsOf(c) : Below(x)}}
           \cup {<<"service", s.ns, s.name>> :
                   s \in {x \in c.services : /\ x.selector # {}
                                             /\ \A k \in WorkloadsOf(c) : ~Backs(x, k, c)}},
     ailing |-> {WorkloadId(k) : k \in {x \in WorkloadsOf(c) : Ailing(x, c)}}]

\* ... and what the answer shows.
Shown(snapshot) ==
    [links |-> {<<l.source, l.target>> : l \in snapshot.links},
     alerts |-> {a.about : a \in snapshot.alerts},
     ailing |-> {w.id : w \in {x \in snapshot.workloads : x.health # "healthy"}}]

\* The part of a view that is about one namespace.
Within(view, ns) ==
    [links |-> {l \in view.links : l[2][2] = ns},
     alerts |-> {a \in view.alerts : Len(a) = 3 /\ a[2] = ns},
     ailing |-> {w \in view.ailing : w[2] = ns}]

Namespaced == Lists \ {"nodes"}

\* Nothing of the namespace changed so far.
Quiet(ns) ==
    \A l \in Namespaced, v \in 1..now :
        {o \in history[v][l] : o.ns = ns} = {o \in history[1][l] : o.ns = ns}

\* The exception: where a service selects the empty value of a label that a pod of
\* its namespace lacks, the code's labels[k] != v links what Kubernetes does not.
NoBlankMatch(services, pods) ==
    \A s \in services, p \in pods : s.ns = p.ns =>
        \A kv \in s.selector : kv[2] = "" => HasKey(kv[1], p.labels)

NeverBlank == \A v, u \in 1..now : NoBlankMatch(history[v].services, history[u].pods)

\* A snapshot of lists that belong together shows exactly the links, alerts and
\* ailing workloads of that state of the cluster; and when the lists are torn
\* (read before and after a change), each namespace nothing changed in is still
\* shown as it is.  A list that failed never leaves a part of the picture out.
\* Said only of clusters in which no service selects the empty value of a label
\* that a pod of its namespace lacks: of others it is false.
SnapshotIsFaithful ==
    pc = "done" /\ answer.status = 200 /\ "snapshot" \in DOMAIN answer /\ NeverBlank =>
        /\ \A v \in 1..now : (\A l \in Lists : fetch[l] = history[v][l]) =>
                Shown(answer.snapshot) = View(history[v])
        /\ \A ns \in {w[2].ns : w \in WorkloadsOf(history[1])} : Quiet(ns) =>
                Within(Shown(answer.snapshot), ns) = Within(View(history[1]), ns)

\* The feed is the newest events of the object, newest first, ties in list order,
\* none twice and as many as the limit allows, although the list comes in another
\* order and events carry different timestamps.
FeedIsNewest ==
    pc = "done" /\ answer.status = 200 /\ "events" \in DOMAIN answer =>
        LET feed == answer.events
            log == answer.log
            of == {i \in DOMAIN log : Selected(log[i], query)}
            at(i) == eventFromItem(log[i]).at
            shown == {i \in of : \E j \in DOMAIN feed : feed[j].uid = log[i].uid}
        IN  /\ Len(feed) = Cardinality(shown)
            /\ Len(feed) = limit(query) \/ shown = of
            /\ \A i \in shown, j \in of \ shown : at(i) >= at(j)
            /\ \A i, j \in DOMAIN feed : i < j =>
                  \/ feed[i].at > feed[j].at
                  \/ feed[i].at = feed[j].at /\ feed[i].uid < feed[j].uid

\* Every read ends (or goes with a restart): no list goroutine is left blocked on
\* its error, however many of them fail.
LoadEnds == pc \in {"lists", "events"} ~> pc \notin {"lists", "events"}
=============================================================================
