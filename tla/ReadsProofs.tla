----------------------------- MODULE ReadsProofs -----------------------------
(***************************************************************************)
(* Proofs about ClusterReads, for every history of every cluster and any   *)
(* interleaving of list calls, failures and changes: what a snapshot shows *)
(* is what the lists say, and a namespace that is quiet is shown as it is. *)
(*                                                                         *)
(* First that transformSnapshot shows the view of the lists it is given    *)
(* (ShowsView), whatever they are; then that a view within a namespace     *)
(* depends on nothing outside it (ViewWithin); then that a snapshot is     *)
(* made of lists that were all read (IInv).  Last the event feed: that the *)
(* insertion sort and the truncation give the newest events (FeedFacts),   *)
(* and that an answer is the feed of the query that was asked (Fed).       *)
(***************************************************************************)
EXTENDS ClusterReads, TLAPS, WellFoundedInduction, NaturalsInduction, FiniteSetTheorems

PodKinds == {"ReplicaSet", "DaemonSet", "StatefulSet", "Job"}

OwnerRefs == Seq([kind : STRING, name : STRING])

-----------------------------------------------------------------------------
(* Owners. *)

LEMMA Elements ==
    ASSUME NEW S, NEW s \in Seq(S)
    PROVE  /\ Len(s) \in Nat /\ DOMAIN s = 1..Len(s)
           /\ \A i \in DOMAIN s : i # 0 /\ s[i] \in S
  OBVIOUS

\* FirstOwner finds the one owner that counts.
LEMMA FirstOwnerFacts ==
    ASSUME NEW o, NEW kinds, OneOwner(o, kinds)
    PROVE  \A x : x \in FirstOwner(o, kinds) <=>
                    /\ x \in [kind : STRING, name : STRING] /\ x.kind \in kinds
                    /\ Refers(o, x.kind, x.name)
<1> DEFINE s == o.owners
           I == {i \in 1..Len(s) : s[i].kind \in kinds}
           R == [kind : STRING, name : STRING]
<1>1. s \in Seq(R) /\ Len(s) \in Nat /\ DOMAIN s = 1..Len(s)
      /\ \A i \in DOMAIN s : i # 0 /\ s[i] \in R
  <2>1. s \in Seq(R)
    BY DEF OneOwner, OwnerRefs
  <2> HIDE DEF s, R
  <2>2. QED BY <2>1, Elements
<1>2. \A i, j \in I : s[i] = s[j]
  BY <1>1 DEF OneOwner
<1>3. FirstOwner(o, kinds) = IF (IF I # {} THEN Min(I) ELSE 0) = 0 THEN {}
                             ELSE {s[IF I # {} THEN Min(I) ELSE 0]}
  BY DEF FirstOwner, SelectInSeq
<1>4. I # {} => Min(I) \in I
  <2> SUFFICES ASSUME I # {} PROVE Min(I) \in I
    OBVIOUS
  <2>1. I \subseteq Nat
    OBVIOUS
  <2>2. PICK m \in I : \A j \in I : ~(<<j, m>> \in OpToRel(<, Nat))
    <3> HIDE DEF I
    <3>1. QED BY <2>1, WFMin, NatLessThanWellFounded, Zenon
  <2>3. \A j \in I : m <= j
    <3> SUFFICES ASSUME NEW j \in I, j < m PROVE FALSE
      BY <2>1
    <3>1. <<j, m>> \in OpToRel(<, Nat)
      BY <2>1 DEF OpToRel
    <3>2. QED BY <2>2, <3>1
  <2> HIDE DEF I
  <2>4. QED BY <2>3 DEF Min
<1>5. \A i \in I : i # 0 /\ s[i] \in R
  BY <1>1
<1>6. \A x : x \in FirstOwner(o, kinds) <=> \E i \in I : x = s[i]
  <2> HIDE DEF I, s
  <2>1. QED BY <1>2, <1>3, <1>4, <1>5
<1>7. \A x : (\E i \in I : x = s[i]) <=>
               x \in R /\ x.kind \in kinds /\ \E i \in DOMAIN s : s[i] = [kind |-> x.kind, name |-> x.name]
  <2> HIDE DEF s
  <2>1. QED BY <1>1
<1>8. QED BY <1>6, <1>7 DEF Refers

Kinds == {"Deployment", "DaemonSet", "StatefulSet", "Job"}

\* The id a pod's first owner leads to is that of the workload it runs for.
LEMMA PodRuns ==
    ASSUME NEW c, SinglyOwned(c), NEW p \in c.pods, NEW kind \in Kinds, NEW w
    PROVE  resourceID(WorkloadKindOf[kind], w.ns, w.name)
             \in workloadIDForPod(p, replicaSetOwnerMap(c.replicaSets)) <=> Runs(p, kind, w, c)
<1> DEFINE wid == <<WorkloadKindOf[kind], w.ns, w.name>>
           owners == replicaSetOwnerMap(c.replicaSets)
           R == [kind : STRING, name : STRING]
<1>1. /\ (WorkloadKindOf[kind] = "deployment" <=> kind = "Deployment")
      /\ \A k \in Kinds : WorkloadKindOf[k] = WorkloadKindOf[kind] => k = kind
  BY DEF WorkloadKindOf, Kinds
<1>2. \A x : x \in FirstOwner(p, PodKinds) <=>
               x \in R /\ x.kind \in PodKinds /\ Refers(p, x.kind, x.name)
  BY FirstOwnerFacts DEF SinglyOwned, PodKinds
<1>3. \A rs \in c.replicaSets : \A x : x \in FirstOwner(rs, {"Deployment"}) <=>
               x \in R /\ x.kind = "Deployment" /\ Refers(rs, x.kind, x.name)
  BY FirstOwnerFacts DEF SinglyOwned, PodKinds
<1>4. \A o, k, n : Refers(o, k, n) /\ o.owners \in OwnerRefs => k \in STRING /\ n \in STRING
  <2> SUFFICES ASSUME NEW o, NEW k, NEW n, o.owners \in OwnerRefs,
                      NEW i \in DOMAIN o.owners, o.owners[i] = [kind |-> k, name |-> n]
               PROVE  k \in STRING /\ n \in STRING
    BY DEF Refers
  <2>1. o.owners[i] \in R
    BY DEF OwnerRefs
  <2>2. o.owners[i].kind = k /\ o.owners[i].name = n
    OBVIOUS
  <2>3. QED BY <2>1, <2>2
<1>5. p.owners \in OwnerRefs /\ \A rs \in c.replicaSets : rs.owners \in OwnerRefs
  BY DEF SinglyOwned, OneOwner, PodKinds, OwnerRefs
<1>6. ASSUME Runs(p, kind, w, c) PROVE wid \in workloadIDForPod(p, owners)
  <2>1. CASE kind # "Deployment"
    <3>1. Refers(p, kind, w.name) /\ p.ns = w.ns /\ kind \in PodKinds
      BY <1>6, <2>1 DEF Runs, Kinds, PodKinds
    <3>2. PICK x : x = [kind |-> kind, name |-> w.name]
      OBVIOUS
    <3>3. x \in FirstOwner(p, PodKinds) /\ x.kind = kind /\ x.name = w.name
      BY <1>2, <1>4, <1>5, <3>1, <3>2
    <3>4. kind # "ReplicaSet"
      BY DEF Kinds
    <3>5. wid = resourceID(WorkloadKindOf[x.kind], p.ns, x.name)
      BY <3>1, <3>3 DEF resourceID
    <3>6. QED BY <3>3, <3>4, <3>5 DEF workloadIDForPod, PodKinds
  <2>2. CASE kind = "Deployment"
    <3>1. PICK rs \in c.replicaSets : /\ p.ns = w.ns /\ rs.ns = w.ns
                                      /\ Refers(p, "ReplicaSet", rs.name)
                                      /\ Refers(rs, "Deployment", w.name)
      BY <1>6, <2>2 DEF Runs
    <3>2. PICK x, d : x = [kind |-> "ReplicaSet", name |-> rs.name]
                      /\ d = [kind |-> "Deployment", name |-> w.name]
      OBVIOUS
    <3>3. x \in FirstOwner(p, PodKinds) /\ x.kind = "ReplicaSet" /\ x.name = rs.name
      BY <1>2, <1>4, <1>5, <3>1, <3>2 DEF PodKinds
    <3>4. d \in FirstOwner(rs, {"Deployment"}) /\ d.name = w.name
      BY <1>3, <1>4, <1>5, <3>1, <3>2
    <3>5. PICK e : e = <<rs.ns, rs.name, resourceID("deployment", rs.ns, d.name)>>
      OBVIOUS
    <3>6. e \in owners
      BY <3>4, <3>5 DEF replicaSetOwnerMap
    <3>7. e[1] = p.ns /\ e[2] = x.name /\ e[3] = wid
      BY <1>1, <2>2, <3>1, <3>3, <3>4, <3>5 DEF resourceID
    <3> HIDE DEF owners, wid
    <3>8. wid \in {y[3] : y \in {z \in owners : z[1] = p.ns /\ z[2] = x.name}}
      BY <3>6, <3>7
    <3>9. QED BY <3>3, <3>8 DEF workloadIDForPod, PodKinds
  <2>3. QED BY <2>1, <2>2
<1>7. ASSUME wid \in workloadIDForPod(p, owners) PROVE Runs(p, kind, w, c)
  <2>1. PICK x \in FirstOwner(p, PodKinds) :
           wid \in IF x.kind = "ReplicaSet"
                   THEN {e[3] : e \in {y \in owners : y[1] = p.ns /\ y[2] = x.name}}
                   ELSE {resourceID(WorkloadKindOf[x.kind], p.ns, x.name)}
    <3> HIDE DEF owners, wid
    <3>1. QED BY <1>7 DEF workloadIDForPod, PodKinds
  <2>2. x.kind \in PodKinds /\ Refers(p, x.kind, x.name)
    BY <1>2
  <2>3. CASE x.kind = "ReplicaSet"
    <3>1. PICK e \in owners : e[1] = p.ns /\ e[2] = x.name /\ wid = e[3]
      <4> HIDE DEF owners, wid
      <4>1. QED BY <2>1, <2>3
    <3>2. PICK rs \in c.replicaSets : \E d \in FirstOwner(rs, {"Deployment"}) :
             e = <<rs.ns, rs.name, resourceID("deployment", rs.ns, d.name)>>
      BY <3>1 DEF replicaSetOwnerMap
    <3>3. PICK d \in FirstOwner(rs, {"Deployment"}) :
             e = <<rs.ns, rs.name, resourceID("deployment", rs.ns, d.name)>>
      BY <3>2
    <3>4. Refers(rs, "Deployment", d.name)
      BY <1>3
    <3>5. /\ rs.ns = p.ns /\ rs.name = x.name
          /\ WorkloadKindOf[kind] = "deployment" /\ w.ns = rs.ns /\ w.name = d.name
      BY <3>1, <3>3 DEF resourceID
    <3>6. QED BY <1>1, <2>2, <2>3, <3>4, <3>5 DEF Runs
  <2>4. CASE x.kind # "ReplicaSet"
    <3>1. WorkloadKindOf[kind] = WorkloadKindOf[x.kind] /\ w.ns = p.ns /\ w.name = x.name
      BY <2>1, <2>4 DEF resourceID
    <3>2. x.kind = kind /\ kind # "Deployment"
      BY <1>1, <2>2, <2>4, <3>1 DEF PodKinds, Kinds
    <3>3. QED BY <2>2, <3>1, <3>2 DEF Runs
  <2>5. QED BY <2>3, <2>4
<1>8. QED BY <1>6, <1>7 DEF resourceID
LEMMA PodsOfFacts ==
    ASSUME NEW c, SinglyOwned(c), NEW k \in WorkloadsOf(c)
    PROVE  /\ PodsOf(WorkloadId(k), c) = {p \in c.pods : Runs(p, k[1], k[2], c)}
           /\ k[1] \in Kinds
<1>1. k[1] \in Kinds
  BY DEF WorkloadsOf, Kinds
<1>2. WorkloadId(k) = resourceID(WorkloadKindOf[k[1]], k[2].ns, k[2].name)
  BY DEF WorkloadId, resourceID
<1>3. \A p \in c.pods : WorkloadId(k) \in workloadIDForPod(p, replicaSetOwnerMap(c.replicaSets))
                          <=> Runs(p, k[1], k[2], c)
  BY <1>1, <1>2, PodRuns
<1>4. QED BY <1>1, <1>3 DEF PodsOf

-----------------------------------------------------------------------------
(* Workloads. *)

\* What workloadsFromItems makes of one workload.
Item(k, c) ==
    LET kind == WorkloadKindOf[k[1]]
        wid == WorkloadId(k)
        desired == DesiredReplicas(kind, k[2])
    IN  [id |-> wid, ns |-> k[2].ns, kind |-> kind, desired |-> desired, ready |-> k[2].ready,
         nodes |-> {<<p.node>> : p \in {q \in PodsOf(wid, c) : q.node # ""}},
         health |-> IF IF kind = "job" THEN k[2].failed ELSE k[2].ready < desired
                    THEN "warning" ELSE maxHealth(workloadHealthSignals(wid, c))]

LEMMA Workloads ==
    ASSUME NEW c
    PROVE  transformSnapshot(c).workloads = {Item(k, c) : k \in WorkloadsOf(c)}
<1>1. ASSUME NEW kind \in Kinds, NEW ws
      PROVE  workloadsFromItems(ws, WorkloadKindOf[kind], c) = {Item(<<kind, w>>, c) : w \in ws}
  <2>1. ASSUME NEW w
        PROVE  /\ <<kind, w>>[1] = kind /\ <<kind, w>>[2] = w
               /\ WorkloadId(<<kind, w>>) = resourceID(WorkloadKindOf[kind], w.ns, w.name)
    BY DEF WorkloadId, resourceID
  <2>2. PICK kk : kk = WorkloadKindOf[kind]
    OBVIOUS
  <2>3. workloadsFromItems(ws, kk, c) = {Item(<<kind, w>>, c) : w \in ws}
    <3> DEFINE Made(w) ==
            [id |-> resourceID(kk, w.ns, w.name), ns |-> w.ns, kind |-> kk,
             desired |-> DesiredReplicas(kk, w), ready |-> w.ready,
             nodes |-> {<<p.node>> :
                        p \in {q \in PodsOf(resourceID(kk, w.ns, w.name), c) : q.node # ""}},
             health |-> IF IF kk = "job" THEN w.failed ELSE w.ready < DesiredReplicas(kk, w)
                        THEN "warning"
                        ELSE maxHealth(workloadHealthSignals(resourceID(kk, w.ns, w.name), c))]
    <3>1. workloadsFromItems(ws, kk, c) = {Made(w) : w \in ws}
      BY Zenon DEF workloadsFromItems
    <3>2. ASSUME NEW w PROVE Item(<<kind, w>>, c) = Made(w)
      <4>1. PICK k : k = <<kind, w>>
        OBVIOUS
      <4>2. k[1] = kind /\ k[2] = w /\ WorkloadId(k) = resourceID(kk, w.ns, w.name)
        BY <2>1, <2>2, <4>1
      <4>3. Item(k, c) = Made(w)
        BY <2>2, <4>2, Zenon DEF Item
      <4>4. QED BY <4>1, <4>3, Zenon
    <3> HIDE DEF Made
    <3>3. QED BY <3>1, <3>2, Zenon
  <2>4. QED BY <2>2, <2>3, Zenon
<1>2. /\ WorkloadKindOf["Deployment"] = "deployment" /\ WorkloadKindOf["DaemonSet"] = "daemonSet"
      /\ WorkloadKindOf["StatefulSet"] = "statefulSet" /\ WorkloadKindOf["Job"] = "job"
  BY DEF WorkloadKindOf
<1>3. transformSnapshot(c).workloads =
             {Item(<<"Deployment", w>>, c) : w \in c.deployments}
        \cup {Item(<<"DaemonSet", w>>, c) : w \in c.daemonSets}
        \cup {Item(<<"StatefulSet", w>>, c) : w \in c.statefulSets}
        \cup {Item(<<"Job", w>>, c) : w \in c.jobs}
  BY <1>1, <1>2 DEF transformSnapshot, Kinds
<1>4. QED BY <1>3 DEF WorkloadsOf

LEMMA Health ==
    ASSUME NEW signals
    PROVE  /\ maxHealth(signals) # "healthy" <=> "critical" \in signals \/ "warning" \in signals
           /\ "warning" # "healthy"
  BY DEF maxHealth

\* The health of a workload is that of its replicas and of the pods that run for it.
LEMMA ItemFacts ==
    ASSUME NEW c, SinglyOwned(c), NEW k \in WorkloadsOf(c), NEW x, x = Item(k, c)
    PROVE  /\ x.id = WorkloadId(k) /\ x.ns = k[2].ns
           /\ x.kind = "job" <=> k[1] = "Job"
           /\ x.kind # "job" => (x.ready < x.desired <=> Below(k))
           /\ x.nodes = {<<p.node>> : p \in {q \in c.pods : Runs(q, k[1], k[2], c) /\ q.node # ""}}
           /\ x.health # "healthy" <=> Ailing(k, c)
<1>1. /\ PodsOf(WorkloadId(k), c) = {p \in c.pods : Runs(p, k[1], k[2], c)}
      /\ k[1] \in Kinds
  BY PodsOfFacts
<1>2. WorkloadKindOf[k[1]] = "job" <=> k[1] = "Job"
  BY <1>1 DEF WorkloadKindOf, Kinds
<1>3. /\ x.id = WorkloadId(k) /\ x.ns = k[2].ns /\ x.kind = WorkloadKindOf[k[1]]
      /\ x.desired = DesiredReplicas(WorkloadKindOf[k[1]], k[2]) /\ x.ready = k[2].ready
      /\ x.nodes = {<<p.node>> : p \in {q \in PodsOf(WorkloadId(k), c) : q.node # ""}}
      /\ x.health = IF IF x.kind = "job" THEN k[2].failed ELSE k[2].ready < x.desired
                    THEN "warning" ELSE maxHealth(workloadHealthSignals(WorkloadId(k), c))
  BY DEF Item
<1>4. x.kind # "job" => (x.ready < x.desired <=> Below(k))
  BY <1>2, <1>3 DEF DesiredReplicas, Below
<1>5. (IF x.kind = "job" THEN k[2].failed ELSE k[2].ready < x.desired) <=> Below(k)
  BY <1>2, <1>3, <1>4 DEF Below
<1>6. WorkloadId(k)[1] = "job" <=> k[1] = "Job"
  BY <1>2 DEF WorkloadId
<1>7. \A p : (PodSignal(p) = "critical" \/ PodSignal(p) = "warning") <=>
               p.phase \notin {"running", "succeeded"} \/ p.restarted
  BY DEF PodSignal
<1>8. "critical" \in workloadHealthSignals(WorkloadId(k), c)
        \/ "warning" \in workloadHealthSignals(WorkloadId(k), c)
      <=> \E p \in c.pods : /\ Runs(p, k[1], k[2], c)
                            /\ k[1] = "Job" => p.phase \notin {"failed", "succeeded"}
                            /\ p.phase \notin {"running", "succeeded"} \/ p.restarted
  BY <1>1, <1>6, <1>7 DEF workloadHealthSignals
<1>9. x.health # "healthy" <=> Ailing(k, c)
  BY <1>3, <1>5, <1>8, Health DEF Ailing
<1>10. QED BY <1>1, <1>2, <1>3, <1>4, <1>9

-----------------------------------------------------------------------------
(* Services. *)

LEMMA ServiceFacts ==
    ASSUME NEW c, SinglyOwned(c), NEW s \in c.services, NoBlankMatch(c.services, c.pods), NEW x,
           x = serviceFromItem(s, transformSnapshot(c).workloads, c)
    PROVE  /\ x.id = <<"service", s.ns, s.name>>
           /\ x.targets = {WorkloadId(k) : k \in {j \in WorkloadsOf(c) : Backs(s, j, c)}}
           /\ x.health = "warning" <=>
                s.selector # {} /\ \A k \in WorkloadsOf(c) : ~Backs(s, k, c)
<1> DEFINE ws == transformSnapshot(c).workloads
           backing == {WorkloadId(k) : k \in {j \in WorkloadsOf(c) : Backs(s, j, c)}}
           targets == IF s.selector = {} THEN {}
                      ELSE {w.id : w \in {y \in ws : matchesSelector(s, y, c)}}
<1>1. ws = {Item(k, c) : k \in WorkloadsOf(c)}
  BY Workloads
<1>2. ASSUME NEW k \in WorkloadsOf(c), s.selector # {}
      PROVE  matchesSelector(s, Item(k, c), c) <=> Backs(s, k, c)
  <2>1. PICK y : y = Item(k, c)
    OBVIOUS
  <2>2. y.id = WorkloadId(k) /\ y.ns = k[2].ns
    BY <2>1 DEF Item
  <2>3. PodsOf(y.id, c) = {p \in c.pods : Runs(p, k[1], k[2], c)}
    BY <2>2, PodsOfFacts
  <2>4. \A p \in c.pods : Runs(p, k[1], k[2], c) => p.ns = k[2].ns
    BY DEF Runs
  <2>5. \A p \in c.pods : p.ns = s.ns => (Match(s.selector, p.labels) <=> s.selector \subseteq p.labels)
    BY DEF NoBlankMatch, Match
  <2>6. QED BY <1>2, <2>1, <2>2, <2>3, <2>4, <2>5 DEF matchesSelector, Backs, Selects
<1>3. \A k \in WorkloadsOf(c) : Item(k, c).id = WorkloadId(k)
  BY DEF Item
<1>4. s.selector = {} => \A k \in WorkloadsOf(c) : ~Backs(s, k, c)
  BY DEF Backs, Selects
<1>5. targets = backing
  <2>1. CASE s.selector = {}
    BY <1>4, <2>1
  <2>2. CASE s.selector # {}
    <3>1. \A k \in WorkloadsOf(c) : matchesSelector(s, Item(k, c), c) <=> Backs(s, k, c)
      BY <1>2, <2>2
    <3> DEFINE M(y) == matchesSelector(s, y, c)
               B(k) == Backs(s, k, c)
    <3>2. \A k \in WorkloadsOf(c) : M(Item(k, c)) <=> B(k)
      BY <3>1
    <3> HIDE DEF ws, M, B
    <3>3. {w.id : w \in {y \in ws : M(y)}} = {WorkloadId(k) : k \in {j \in WorkloadsOf(c) : B(j)}}
      <4>1. ASSUME NEW y \in ws, M(y)
            PROVE  y.id \in {WorkloadId(k) : k \in {j \in WorkloadsOf(c) : B(j)}}
        <5>1. PICK k \in WorkloadsOf(c) : y = Item(k, c)
          BY <1>1
        <5>2. B(k) /\ y.id = WorkloadId(k)
          BY <1>3, <3>2, <4>1, <5>1
        <5>3. QED BY <5>2
      <4>2. ASSUME NEW k \in WorkloadsOf(c), B(k)
            PROVE  \E y \in ws : M(y) /\ y.id = WorkloadId(k)
        BY <1>1, <1>3, <3>2, <4>2
      <4>3. QED BY <4>1, <4>2
    <3>4. QED BY <2>2, <3>3 DEF M, B
  <2>3. QED BY <2>1, <2>2
<1>6. /\ x.id = <<"service", s.ns, s.name>> /\ x.targets = targets
      /\ x.health = IF s.selector # {} /\ targets = {} THEN "warning" ELSE "healthy"
  BY DEF serviceFromItem, resourceID
<1>7. backing = {} <=> \A k \in WorkloadsOf(c) : ~Backs(s, k, c)
  OBVIOUS
<1> HIDE DEF targets, backing
<1>8. QED BY <1>5, <1>6, <1>7 DEF backing

-----------------------------------------------------------------------------
(* A snapshot shows the view of the lists it is made from. *)

LEMMA LinksShown ==
    ASSUME NEW c, SinglyOwned(c), NoBlankMatch(c.services, c.pods)
    PROVE  Shown(transformSnapshot(c)).links = View(c).links
<1> DEFINE ws == transformSnapshot(c).workloads
           ss == transformSnapshot(c).services
           shown == {<<l.source, l.target>> : l \in links(ws, ss)}
           W == {<<<<p.node>>, WorkloadId(k)>> : p \in c.pods, k \in WorkloadsOf(c)}
           ViaPod(x) == \E p \in c.pods, k \in WorkloadsOf(c) :
                           /\ p.node # "" /\ Runs(p, k[1], k[2], c)
                           /\ x = <<<<p.node>>, WorkloadId(k)>>
           ViaService(x) == \E s \in c.services, k \in WorkloadsOf(c) :
                           /\ Backs(s, k, c)
                           /\ x = <<<<"service", s.ns, s.name>>, WorkloadId(k)>>
<1>1. Shown(transformSnapshot(c)).links = shown
  BY DEF Shown, transformSnapshot
<1>2. \A x : x \in View(c).links <=> ViaPod(x) \/ ViaService(x)
  <2> DEFINE placed == {q \in c.pods : q.node # ""}
             M == UNION {PodLinks(p, c) : p \in placed}
             N == UNION {ServiceLinks(s, c) : s \in c.services}
  <2>1. View(c).links = M \cup N
    BY DEF View
  <2>2. \A p, x : x \in PodLinks(p, c) <=> \E k \in WorkloadsOf(c) : Runs(p, k[1], k[2], c)
                                    /\ x = <<<<p.node>>, WorkloadId(k)>>
    BY DEF PodLinks
  <2>3. \A s, x : x \in ServiceLinks(s, c) <=> \E k \in WorkloadsOf(c) : Backs(s, k, c)
                                    /\ x = <<<<"service", s.ns, s.name>>, WorkloadId(k)>>
    BY DEF ServiceLinks
  <2>4. \A x : x \in View(c).links <=> \/ \E p \in placed : x \in PodLinks(p, c)
                                       \/ \E s \in c.services : x \in ServiceLinks(s, c)
    <3>1. /\ \A x : x \in M <=> \E p \in placed : x \in PodLinks(p, c)
          /\ \A x : x \in N <=> \E s \in c.services : x \in ServiceLinks(s, c)
      OBVIOUS
    <3> HIDE DEF M, N, placed
    <3>2. QED BY <2>1, <3>1
  <2>5. \A x : (\E p \in placed : x \in PodLinks(p, c)) <=> ViaPod(x)
    BY <2>2
  <2>6. \A x : (\E s \in c.services : x \in ServiceLinks(s, c)) <=> ViaService(x)
    BY <2>3
  <2> HIDE DEF ViaPod, ViaService
  <2>7. QED BY <2>4, <2>5, <2>6
<1>3. \A y : y \in ws <=> \E k \in WorkloadsOf(c) : y = Item(k, c)
  BY Workloads
<1>4. \A y : y \in ss <=> \E s \in c.services : y = serviceFromItem(s, ws, c)
  BY DEF transformSnapshot
<1>5. \A x : x \in shown <=>
               \/ \E w \in ws : \E n \in w.nodes : x = <<n, w.id>>
               \/ \E s \in ss : \E t \in s.targets : x = <<s.id, t>>
  <2> HIDE DEF ws, ss
  <2> DEFINE M == UNION {workloadLinks(w) : w \in ws}
             N == UNION {serviceLinks(s) : s \in ss}
  <2>1. links(ws, ss) = M \cup N
    BY DEF links
  <2>2. \A w, l : l \in workloadLinks(w) <=>
          \E n \in w.nodes : l = [source |-> n, target |-> w.id, kind |-> "workload"]
    BY DEF workloadLinks
  <2>3. \A s, l : l \in serviceLinks(s) <=>
          \E t \in s.targets : l = [source |-> s.id, target |-> t, kind |-> s.exposure]
    BY DEF serviceLinks
  <2>4. \A l : l \in links(ws, ss) <=> \/ \E w \in ws : l \in workloadLinks(w)
                                       \/ \E s \in ss : l \in serviceLinks(s)
    <3>1. /\ \A l : l \in M <=> \E w \in ws : l \in workloadLinks(w)
          /\ \A l : l \in N <=> \E s \in ss : l \in serviceLinks(s)
      OBVIOUS
    <3> HIDE DEF M, N
    <3>2. QED BY <2>1, <3>1
  <2>5. ASSUME NEW l \in links(ws, ss)
        PROVE  \/ \E w \in ws : \E n \in w.nodes : <<l.source, l.target>> = <<n, w.id>>
               \/ \E s \in ss : \E t \in s.targets : <<l.source, l.target>> = <<s.id, t>>
    <3>1. CASE \E w \in ws : l \in workloadLinks(w)
      BY <2>2, <3>1
    <3>2. CASE \E s \in ss : l \in serviceLinks(s)
      BY <2>3, <3>2
    <3>3. QED BY <2>4, <3>1, <3>2
  <2>6. ASSUME NEW w \in ws, NEW n \in w.nodes
        PROVE  \E l \in links(ws, ss) : <<l.source, l.target>> = <<n, w.id>>
    <3>1. PICK l : l = [source |-> n, target |-> w.id, kind |-> "workload"]
      OBVIOUS
    <3>2. l \in links(ws, ss)
      BY <2>2, <2>4, <3>1
    <3>3. QED BY <3>1, <3>2
  <2>7. ASSUME NEW s \in ss, NEW t \in s.targets
        PROVE  \E l \in links(ws, ss) : <<l.source, l.target>> = <<s.id, t>>
    <3>1. PICK l : l = [source |-> s.id, target |-> t, kind |-> s.exposure]
      OBVIOUS
    <3>2. l \in links(ws, ss)
      BY <2>3, <2>4, <3>1
    <3>3. QED BY <3>1, <3>2
  <2>8. \A x : x \in shown <=> \E l \in links(ws, ss) : <<l.source, l.target>> = x
    OBVIOUS
  <2> HIDE DEF shown
  <2>9. QED BY <2>5, <2>6, <2>7, <2>8
<1>6. \A x : (\E w \in ws : \E n \in w.nodes : x = <<n, w.id>>) <=> ViaPod(x)
  <2>1. ASSUME NEW k \in WorkloadsOf(c)
        PROVE  /\ Item(k, c).id = WorkloadId(k)
               /\ \A n : n \in Item(k, c).nodes <=>
                     \E p \in c.pods : Runs(p, k[1], k[2], c) /\ p.node # "" /\ n = <<p.node>>
    <3>1. PICK y : y = Item(k, c)
      OBVIOUS
    <3>2. /\ y.id = WorkloadId(k)
          /\ y.nodes = {<<p.node>> : p \in {q \in PodsOf(WorkloadId(k), c) : q.node # ""}}
      BY <3>1 DEF Item
    <3>3. PodsOf(WorkloadId(k), c) = {p \in c.pods : Runs(p, k[1], k[2], c)}
      BY PodsOfFacts
    <3>4. QED BY <3>1, <3>2, <3>3
  <2> DEFINE I(k) == Item(k, c)
  <2>2. /\ \A y : y \in ws <=> \E k \in WorkloadsOf(c) : y = I(k)
        /\ \A k \in WorkloadsOf(c) : I(k).id = WorkloadId(k)
        /\ \A k \in WorkloadsOf(c) : \A n : n \in I(k).nodes <=>
              \E p \in c.pods : Runs(p, k[1], k[2], c) /\ p.node # "" /\ n = <<p.node>>
    BY <1>3, <2>1
  <2> HIDE DEF ws, I
  <2>3. \A x : (\E w \in ws : \E n \in w.nodes : x = <<n, w.id>>) <=>
                 \E k \in WorkloadsOf(c) : \E n \in I(k).nodes : x = <<n, WorkloadId(k)>>
    BY <2>2
  <2>4. ASSUME NEW k \in WorkloadsOf(c), NEW n \in I(k).nodes
        PROVE  ViaPod(<<n, WorkloadId(k)>>)
    <3>1. PICK p \in c.pods : Runs(p, k[1], k[2], c) /\ p.node # "" /\ n = <<p.node>>
      BY <2>2
    <3>2. <<n, WorkloadId(k)>> = <<<<p.node>>, WorkloadId(k)>>
      BY <3>1
    <3>3. QED BY <3>1, <3>2
  <2>5. ASSUME NEW x, ViaPod(x)
        PROVE  \E k \in WorkloadsOf(c) : \E n \in I(k).nodes : x = <<n, WorkloadId(k)>>
    <3>1. PICK p \in c.pods, k \in WorkloadsOf(c) :
             p.node # "" /\ Runs(p, k[1], k[2], c) /\ x = <<<<p.node>>, WorkloadId(k)>>
      BY <2>5
    <3>2. <<p.node>> \in I(k).nodes
      BY <2>2, <3>1
    <3>3. QED BY <3>1, <3>2
  <2> HIDE DEF ViaPod
  <2>6. QED BY <2>3, <2>4, <2>5
<1>7. \A x : (\E s \in ss : \E t \in s.targets : x = <<s.id, t>>) <=> ViaService(x)
  <2>1. ASSUME NEW s \in c.services
        PROVE  /\ serviceFromItem(s, ws, c).id = <<"service", s.ns, s.name>>
               /\ \A t : t \in serviceFromItem(s, ws, c).targets <=>
                     \E k \in WorkloadsOf(c) : Backs(s, k, c) /\ t = WorkloadId(k)
    <3>1. PICK y : y = serviceFromItem(s, ws, c)
      OBVIOUS
    <3>2. /\ y.id = <<"service", s.ns, s.name>>
          /\ y.targets = {WorkloadId(k) : k \in {j \in WorkloadsOf(c) : Backs(s, j, c)}}
      BY <3>1, ServiceFacts
    <3>3. QED BY <3>1, <3>2
  <2> DEFINE I(s) == serviceFromItem(s, ws, c)
  <2>2. /\ \A y : y \in ss <=> \E s \in c.services : y = I(s)
        /\ \A s \in c.services : I(s).id = <<"service", s.ns, s.name>>
        /\ \A s \in c.services : \A t : t \in I(s).targets <=>
              \E k \in WorkloadsOf(c) : Backs(s, k, c) /\ t = WorkloadId(k)
    BY <1>4, <2>1
  <2> HIDE DEF ws, ss, I
  <2>3. \A x : (\E s \in ss : \E t \in s.targets : x = <<s.id, t>>) <=>
                 \E s \in c.services : \E t \in I(s).targets : x = <<I(s).id, t>>
    BY <2>2
  <2>4. ASSUME NEW s \in c.services, NEW t \in I(s).targets
        PROVE  ViaService(<<I(s).id, t>>)
    <3>1. PICK k \in WorkloadsOf(c) : Backs(s, k, c) /\ t = WorkloadId(k)
      BY <2>2
    <3>2. <<I(s).id, t>> = <<<<"service", s.ns, s.name>>, WorkloadId(k)>>
      BY <2>2, <3>1
    <3>3. QED BY <3>1, <3>2
  <2>5. ASSUME NEW x, ViaService(x)
        PROVE  \E s \in c.services : \E t \in I(s).targets : x = <<I(s).id, t>>
    <3>1. PICK s \in c.services, k \in WorkloadsOf(c) :
             Backs(s, k, c) /\ x = <<<<"service", s.ns, s.name>>, WorkloadId(k)>>
      BY <2>5
    <3>2. WorkloadId(k) \in I(s).targets /\ x = <<I(s).id, WorkloadId(k)>>
      BY <2>2, <3>1
    <3>3. QED BY <3>2
  <2> HIDE DEF ViaService
  <2>6. QED BY <2>3, <2>4, <2>5
<1> HIDE DEF ws, ss, shown, ViaPod, ViaService
<1>8. \A x : x \in shown <=> x \in View(c).links
  BY <1>2, <1>5, <1>6, <1>7
<1>9. shown = View(c).links
  <2>1. PICK V : V = View(c).links
    OBVIOUS
  <2>2. \A x : x \in shown <=> x \in V
    BY <1>8, <2>1
  <2>3. shown = V
    BY <2>2
  <2>4. QED BY <2>1, <2>3
<1>10. QED BY <1>1, <1>9

LEMMA AlertsShown ==
    ASSUME NEW c, SinglyOwned(c), NoBlankMatch(c.services, c.pods)
    PROVE  Shown(transformSnapshot(c)).alerts = View(c).alerts
<1> DEFINE ws == transformSnapshot(c).workloads
           ss == transformSnapshot(c).services
           ns == {nodeFromItem(n, c.pods) : n \in c.nodes}
           ofNodes == {<<n.name>> : n \in {m \in c.nodes : ~m.ready \/ m.pressure \/ m.unschedulable}}
           ofWorkloads == {WorkloadId(k) : k \in {x \in WorkloadsOf(c) : Below(x)}}
           ofServices == {<<"service", s.ns, s.name>> :
                            s \in {x \in c.services : /\ x.selector # {}
                                                      /\ \A k \in WorkloadsOf(c) : ~Backs(x, k, c)}}
<1>1. Shown(transformSnapshot(c)).alerts =
          {a.about : a \in nodeAlerts(ns) \cup workloadAlerts(ws, failedJobIDs(c.jobs))
                           \cup serviceAlerts(ss)}
  BY DEF Shown, transformSnapshot
<1>2. {a.about : a \in nodeAlerts(ns)} = ofNodes
  <2>1. \A n \in c.nodes : /\ nodeFromItem(n, c.pods).id = <<n.name>>
                           /\ nodeFromItem(n, c.pods).health # "healthy" <=>
                                ~n.ready \/ n.pressure \/ n.unschedulable
    BY DEF nodeFromItem
  <2>2. {a.about : a \in nodeAlerts(ns)} = {n.id : n \in {m \in ns : m.health # "healthy"}}
    <3> DEFINE A(n) == Alert(n.id, CASE n.health = "critical" -> "Node not ready"
                                     [] ~n.schedulable        -> "Node unschedulable"
                                     [] OTHER                 -> "Node pressure detected")
               bad == {m \in ns : m.health # "healthy"}
    <3>1. nodeAlerts(ns) = {A(n) : n \in bad}
      BY DEF nodeAlerts
    <3>2. \A n : A(n).about = n.id
      BY DEF Alert
    <3> HIDE DEF A, bad
    <3>3. {a.about : a \in {A(n) : n \in bad}} = {n.id : n \in bad}
      BY <3>2
    <3>4. QED BY <3>1, <3>3 DEF bad
  <2>3. {n.id : n \in {m \in ns : m.health # "healthy"}} = ofNodes
    BY <2>1
  <2>4. QED BY <2>2, <2>3
<1>3. {a.about : a \in workloadAlerts(ws, failedJobIDs(c.jobs))} = ofWorkloads
  <2> DEFINE failed == failedJobIDs(c.jobs)
             jobsFailed == {w.id : w \in {x \in ws : x.kind = "job" /\ x.id \in failed}}
             skewed == {w.id : w \in {x \in ws : x.kind # "job" /\ x.ready < x.desired}}
  <2>1. {a.about : a \in workloadAlerts(ws, failed)} = jobsFailed \cup skewed
    <3> DEFINE A(w) == Alert(w.id, "Job failed")
               B(w) == Alert(w.id, "Replica skew detected")
               jobs == {x \in ws : x.kind = "job" /\ x.id \in failed}
               others == {x \in ws : x.kind # "job" /\ x.ready < x.desired}
    <3>1. workloadAlerts(ws, failed) = {A(w) : w \in jobs} \cup {B(w) : w \in others}
      BY DEF workloadAlerts
    <3>2. \A w : A(w).about = w.id /\ B(w).about = w.id
      BY DEF Alert
    <3>3. jobsFailed = {w.id : w \in jobs} /\ skewed = {w.id : w \in others}
      OBVIOUS
    <3> HIDE DEF A, B, jobs, others, jobsFailed, skewed
    <3>4. /\ {a.about : a \in {A(w) : w \in jobs}} = {w.id : w \in jobs}
          /\ {a.about : a \in {B(w) : w \in others}} = {w.id : w \in others}
      BY <3>2
    <3>5. {a.about : a \in {A(w) : w \in jobs} \cup {B(w) : w \in others}} =
            {a.about : a \in {A(w) : w \in jobs}} \cup {a.about : a \in {B(w) : w \in others}}
      OBVIOUS
    <3>6. QED BY <3>1, <3>3, <3>4, <3>5
  <2>2. \A y : y \in ws <=> \E k \in WorkloadsOf(c) : y = Item(k, c)
    BY Workloads
  <2>3. ASSUME NEW k \in WorkloadsOf(c), NEW y, y = Item(k, c)
        PROVE  /\ y.id = WorkloadId(k)
               /\ y.kind = "job" <=> k[1] = "Job"
               /\ y.kind # "job" => (y.ready < y.desired <=> Below(k))
    BY <2>3, ItemFacts
  <2>4. \A i : i \in failed <=> \E j \in c.jobs : j.failed /\ i = <<"job", j.ns, j.name>>
    BY DEF failedJobIDs, resourceID
  <2>5. ASSUME NEW j \in c.jobs, j.failed
        PROVE  <<"job", j.ns, j.name>> \in ofWorkloads
    <3>1. PICK k : k = <<"Job", j>>
      OBVIOUS
    <3>2. k \in WorkloadsOf(c) /\ Below(k)
      BY <2>5, <3>1 DEF WorkloadsOf, Below
    <3>3. WorkloadId(k) = <<"job", j.ns, j.name>>
      BY <3>1 DEF WorkloadId, WorkloadKindOf
    <3>4. QED BY <3>2, <3>3
  <2>6. ASSUME NEW k \in WorkloadsOf(c), k[1] = "Job", Below(k)
        PROVE  WorkloadId(k) \in failed
    <3>1. k[2] \in c.jobs
      BY <2>6 DEF WorkloadsOf
    <3>2. k[2].failed /\ WorkloadId(k) = <<"job", k[2].ns, k[2].name>>
      BY <2>6 DEF Below, WorkloadId, WorkloadKindOf
    <3>3. QED BY <2>4, <3>1, <3>2
  <2> HIDE DEF ws, failed
  <2>7. ASSUME NEW i \in jobsFailed \cup skewed PROVE i \in ofWorkloads
    <3>1. CASE i \in jobsFailed
      <4>1. i \in failed
        BY <3>1
      <4>2. QED BY <2>4, <2>5, <4>1
    <3>2. CASE i \in skewed
      <4>1. PICK y \in ws : i = y.id /\ y.kind # "job" /\ y.ready < y.desired
        BY <3>2
      <4>2. PICK k \in WorkloadsOf(c) : y = Item(k, c)
        BY <2>2
      <4>3. QED BY <2>3, <4>1, <4>2
    <3>3. QED BY <2>7, <3>1, <3>2
  <2>8. ASSUME NEW i \in ofWorkloads PROVE i \in jobsFailed \cup skewed
    <3>1. PICK k \in WorkloadsOf(c) : i = WorkloadId(k) /\ Below(k)
      OBVIOUS
    <3>2. PICK y : y = Item(k, c)
      OBVIOUS
    <3>3. y \in ws
      BY <2>2, <3>2
    <3>4. /\ y.id = WorkloadId(k)
          /\ y.kind = "job" <=> k[1] = "Job"
          /\ y.kind # "job" => (y.ready < y.desired <=> Below(k))
      BY <2>3, <3>2
    <3>5. QED BY <2>6, <3>1, <3>3, <3>4
  <2> HIDE DEF jobsFailed, skewed, ofWorkloads
  <2>9. jobsFailed \cup skewed = ofWorkloads
    BY <2>7, <2>8
  <2>10. QED BY <2>1, <2>9 DEF failed
<1>4. {a.about : a \in serviceAlerts(ss)} = ofServices
  <2>1. {a.about : a \in serviceAlerts(ss)} = {s.id : s \in {x \in ss : x.health = "warning"}}
    <3> DEFINE A(s) == Alert(s.id, "Service has no backing workloads")
               bad == {x \in ss : x.health = "warning"}
    <3>1. serviceAlerts(ss) = {A(s) : s \in bad}
      BY DEF serviceAlerts
    <3>2. \A s : A(s).about = s.id
      BY DEF Alert
    <3> HIDE DEF A, bad
    <3>3. {a.about : a \in {A(s) : s \in bad}} = {s.id : s \in bad}
      BY <3>2
    <3>4. QED BY <3>1, <3>3 DEF bad
  <2>2. \A y : y \in ss <=> \E s \in c.services : y = serviceFromItem(s, ws, c)
    BY DEF transformSnapshot
  <2>3. \A s \in c.services :
           /\ serviceFromItem(s, ws, c).id = <<"service", s.ns, s.name>>
           /\ serviceFromItem(s, ws, c).health = "warning" <=>
                s.selector # {} /\ \A k \in WorkloadsOf(c) : ~Backs(s, k, c)
    <3>1. ASSUME NEW s \in c.services, NEW y, y = serviceFromItem(s, ws, c)
          PROVE  /\ y.id = <<"service", s.ns, s.name>>
                 /\ y.health = "warning" <=>
                      s.selector # {} /\ \A k \in WorkloadsOf(c) : ~Backs(s, k, c)
      BY <3>1, ServiceFacts
    <3>2. QED BY <3>1
  <2> DEFINE I(s) == serviceFromItem(s, ws, c)
             Bare(s) == s.selector # {} /\ \A k \in WorkloadsOf(c) : ~Backs(s, k, c)
  <2>4. {s.id : s \in {x \in ss : x.health = "warning"}} = ofServices
    <3>1. /\ \A y : y \in ss <=> \E s \in c.services : y = I(s)
          /\ \A s \in c.services : /\ I(s).id = <<"service", s.ns, s.name>>
                                   /\ I(s).health = "warning" <=> Bare(s)
      BY <2>2, <2>3
    <3>2. ofServices = {<<"service", s.ns, s.name>> : s \in {x \in c.services : Bare(x)}}
      OBVIOUS
    <3> HIDE DEF ws, ss, I, Bare, ofServices
    <3>3. ASSUME NEW x \in {s.id : s \in {x \in ss : x.health = "warning"}}
          PROVE  x \in ofServices
      <4>1. PICK s \in c.services : x = I(s).id /\ I(s).health = "warning"
        BY <3>1
      <4>2. Bare(s) /\ x = <<"service", s.ns, s.name>>
        BY <3>1, <4>1
      <4>3. QED BY <3>2, <4>2
    <3>4. ASSUME NEW s \in c.services, Bare(s)
          PROVE  <<"service", s.ns, s.name>> \in {y.id : y \in {x \in ss : x.health = "warning"}}
      <4>1. PICK y \in ss : y = I(s)
        BY <3>1
      <4>2. y.health = "warning" /\ y.id = <<"service", s.ns, s.name>>
        BY <3>1, <3>4, <4>1
      <4>3. QED BY <4>2
    <3>5. QED BY <3>2, <3>3, <3>4
  <2>5. QED BY <2>1, <2>4
<1>5. View(c).alerts = ofNodes \cup ofWorkloads \cup ofServices
  BY DEF View
<1> HIDE DEF ws, ss, ns, ofNodes, ofWorkloads, ofServices
<1>6. QED BY <1>1, <1>2, <1>3, <1>4, <1>5

LEMMA ShowsView ==
    ASSUME NEW c, SinglyOwned(c), NoBlankMatch(c.services, c.pods)
    PROVE  Shown(transformSnapshot(c)) = View(c)
<1>1. Shown(transformSnapshot(c)).ailing = View(c).ailing
  <2> DEFINE ws == transformSnapshot(c).workloads
  <2>1. Shown(transformSnapshot(c)).ailing = {w.id : w \in {x \in ws : x.health # "healthy"}}
    BY DEF Shown
  <2>2. View(c).ailing = {WorkloadId(k) : k \in {x \in WorkloadsOf(c) : Ailing(x, c)}}
    BY DEF View
  <2>3. ws = {Item(k, c) : k \in WorkloadsOf(c)}
    BY Workloads
  <2>4. \A k \in WorkloadsOf(c) : /\ Item(k, c).id = WorkloadId(k)
                                  /\ Item(k, c).health # "healthy" <=> Ailing(k, c)
    <3>1. ASSUME NEW k \in WorkloadsOf(c), NEW y, y = Item(k, c)
          PROVE  y.id = WorkloadId(k) /\ (y.health # "healthy" <=> Ailing(k, c))
      BY <3>1, ItemFacts
    <3>2. QED BY <3>1
  <2> HIDE DEF ws
  <2>5. QED BY <2>1, <2>2, <2>3, <2>4
<1>2. QED BY <1>1, LinksShown, AlertsShown DEF Shown, View

-----------------------------------------------------------------------------
(* A view within a namespace. *)

\* c and d hold the same objects of namespace ns.
Agree(c, d, ns) ==
    \A l \in Namespaced : {o \in c[l] : o.ns = ns} = {o \in d[l] : o.ns = ns}

\* Owners, selectors and ailments do not reach beyond the namespace.
LEMMA AgreeFacts ==
    ASSUME NEW c, NEW d, NEW ns, Agree(c, d, ns)
    PROVE  /\ \A k \in WorkloadsOf(c) : k[2].ns = ns => k \in WorkloadsOf(d)
           /\ \A p \in c.pods : \A kind, w : w.ns = ns /\ Runs(p, kind, w, c) =>
                 p \in d.pods /\ p.ns = ns /\ Runs(p, kind, w, d)
           /\ \A s, k : k[2].ns = ns /\ Backs(s, k, c) => s.ns = ns /\ Backs(s, k, d)
           /\ \A k : k[2].ns = ns /\ Ailing(k, c) => Ailing(k, d)
<1>1. ASSUME NEW o, o.ns = ns
      PROVE  /\ o \in c.pods => o \in d.pods
             /\ o \in c.services => o \in d.services
             /\ o \in c.deployments => o \in d.deployments
             /\ o \in c.daemonSets => o \in d.daemonSets
             /\ o \in c.statefulSets => o \in d.statefulSets
             /\ o \in c.jobs => o \in d.jobs
             /\ o \in c.replicaSets => o \in d.replicaSets
  <2>1. \A l \in Namespaced : o \in c[l] => o \in d[l]
    BY <1>1 DEF Agree
  <2>2. QED BY <2>1 DEF Namespaced, Lists
<1>2. \A k \in WorkloadsOf(c) : k[2].ns = ns => k \in WorkloadsOf(d)
  BY <1>1 DEF WorkloadsOf
<1>3. ASSUME NEW p \in c.pods, NEW kind, NEW w, w.ns = ns, Runs(p, kind, w, c)
      PROVE  p \in d.pods /\ p.ns = ns /\ Runs(p, kind, w, d)
  <2>1. p.ns = ns /\ p \in d.pods
    BY <1>1, <1>3 DEF Runs
  <2>2. CASE kind # "Deployment"
    BY <1>3, <2>1, <2>2 DEF Runs
  <2>3. CASE kind = "Deployment"
    <3>1. PICK rs \in c.replicaSets : /\ rs.ns = w.ns
                                      /\ Refers(p, "ReplicaSet", rs.name)
                                      /\ Refers(rs, "Deployment", w.name)
      BY <1>3, <2>3 DEF Runs
    <3>2. rs \in d.replicaSets
      BY <1>1, <1>3, <3>1
    <3>3. QED BY <1>3, <2>1, <2>3, <3>1, <3>2 DEF Runs
  <2>4. QED BY <2>1, <2>2, <2>3
<1>4. ASSUME NEW s, NEW k, k[2].ns = ns, Backs(s, k, c)
      PROVE  s.ns = ns /\ Backs(s, k, d)
  <2>1. PICK p \in c.pods : Selects(s, p) /\ Runs(p, k[1], k[2], c)
    BY <1>4 DEF Backs
  <2>2. p \in d.pods /\ p.ns = ns /\ Runs(p, k[1], k[2], d)
    BY <1>3, <1>4, <2>1
  <2>3. QED BY <2>1, <2>2 DEF Backs, Selects
<1>5. ASSUME NEW k, k[2].ns = ns, Ailing(k, c)
      PROVE  Ailing(k, d)
  <2>1. CASE Below(k)
    BY <2>1 DEF Ailing
  <2>2. CASE ~Below(k)
    <3>1. PICK p \in c.pods : /\ Runs(p, k[1], k[2], c)
                              /\ k[1] = "Job" => p.phase \notin {"failed", "succeeded"}
                              /\ p.phase \notin {"running", "succeeded"} \/ p.restarted
      BY <1>5, <2>2 DEF Ailing
    <3>2. p \in d.pods /\ Runs(p, k[1], k[2], d)
      BY <1>3, <1>5, <3>1
    <3>3. QED BY <3>1, <3>2 DEF Ailing
  <2>3. QED BY <2>1, <2>2
<1>6. QED BY <1>2, <1>3, <1>4, <1>5

\* The members of a view, one part at a time.
LEMMA ViewMembers ==
    ASSUME NEW c
    PROVE  /\ \A x : x \in View(c).links <=>
                 \/ \E p \in c.pods, k \in WorkloadsOf(c) :
                       p.node # "" /\ Runs(p, k[1], k[2], c) /\ x = <<<<p.node>>, WorkloadId(k)>>
                 \/ \E s \in c.services, k \in WorkloadsOf(c) :
                       Backs(s, k, c) /\ x = <<<<"service", s.ns, s.name>>, WorkloadId(k)>>
           /\ \A x : x \in View(c).alerts <=>
                 \/ \E n \in c.nodes : (~n.ready \/ n.pressure \/ n.unschedulable) /\ x = <<n.name>>
                 \/ \E k \in WorkloadsOf(c) : Below(k) /\ x = WorkloadId(k)
                 \/ \E s \in c.services : /\ s.selector # {} /\ x = <<"service", s.ns, s.name>>
                                          /\ \A k \in WorkloadsOf(c) : ~Backs(s, k, c)
           /\ \A x : x \in View(c).ailing <=> \E k \in WorkloadsOf(c) : Ailing(k, c) /\ x = WorkloadId(k)
<1> DEFINE placed == {q \in c.pods : q.node # ""}
           M == UNION {PodLinks(p, c) : p \in placed}
           N == UNION {ServiceLinks(s, c) : s \in c.services}
           ViaPod(x) == \E p \in c.pods, k \in WorkloadsOf(c) :
                           p.node # "" /\ Runs(p, k[1], k[2], c) /\ x = <<<<p.node>>, WorkloadId(k)>>
           ViaService(x) == \E s \in c.services, k \in WorkloadsOf(c) :
                           Backs(s, k, c) /\ x = <<<<"service", s.ns, s.name>>, WorkloadId(k)>>
<1>1. View(c).links = M \cup N
  BY DEF View
<1>2. \A x : x \in M <=> ViaPod(x)
  <2>1. \A p, x : x \in PodLinks(p, c) <=>
           \E k \in WorkloadsOf(c) : Runs(p, k[1], k[2], c) /\ x = <<<<p.node>>, WorkloadId(k)>>
    BY DEF PodLinks
  <2>2. \A x : x \in M <=> \E p \in placed : x \in PodLinks(p, c)
    OBVIOUS
  <2>3. \A x : (\E p \in placed : x \in PodLinks(p, c)) <=> ViaPod(x)
    BY <2>1
  <2> HIDE DEF M, placed, ViaPod
  <2>4. QED BY <2>2, <2>3
<1>3. \A x : x \in N <=> ViaService(x)
  <2>1. \A s, x : x \in ServiceLinks(s, c) <=>
           \E k \in WorkloadsOf(c) : Backs(s, k, c) /\ x = <<<<"service", s.ns, s.name>>, WorkloadId(k)>>
    BY DEF ServiceLinks
  <2>2. \A x : x \in N <=> \E s \in c.services : x \in ServiceLinks(s, c)
    OBVIOUS
  <2> HIDE DEF N
  <2>3. QED BY <2>1, <2>2
<1>4. \A x : x \in View(c).links <=> ViaPod(x) \/ ViaService(x)
  <2> HIDE DEF M, N, ViaPod, ViaService
  <2>1. QED BY <1>1, <1>2, <1>3
<1>5. \A x : x \in View(c).alerts <=>
         \/ \E n \in c.nodes : (~n.ready \/ n.pressure \/ n.unschedulable) /\ x = <<n.name>>
         \/ \E k \in WorkloadsOf(c) : Below(k) /\ x = WorkloadId(k)
         \/ \E s \in c.services : /\ s.selector # {} /\ x = <<"service", s.ns, s.name>>
                                  /\ \A k \in WorkloadsOf(c) : ~Backs(s, k, c)
  BY DEF View
<1>6. \A x : x \in View(c).ailing <=> \E k \in WorkloadsOf(c) : Ailing(k, c) /\ x = WorkloadId(k)
  BY DEF View
<1>7. QED BY <1>4, <1>5, <1>6

\* What holds of a namespace in one of two lists that agree on it holds in the other.
LEMMA HalfWithin ==
    ASSUME NEW c, NEW d, NEW ns, Agree(c, d, ns), Agree(d, c, ns)
    PROVE  /\ Within(View(c), ns).links \subseteq Within(View(d), ns).links
           /\ Within(View(c), ns).alerts \subseteq Within(View(d), ns).alerts
           /\ Within(View(c), ns).ailing \subseteq Within(View(d), ns).ailing
<1> DEFINE Of(v) == Within(View(v), ns)
<1>1. \A v : /\ \A x : x \in Of(v).links <=> x \in View(v).links /\ x[2][2] = ns
             /\ \A x : x \in Of(v).alerts <=> x \in View(v).alerts /\ Len(x) = 3 /\ x[2] = ns
             /\ \A x : x \in Of(v).ailing <=> x \in View(v).ailing /\ x[2] = ns
  BY DEF Within
<1>2. \A k : WorkloadId(k)[2] = k[2].ns
  BY DEF WorkloadId
<1>3. ASSUME NEW s \in c.services, s.ns = ns
      PROVE  s \in d.services
  <2>1. "services" \in Namespaced
    BY DEF Namespaced, Lists
  <2>2. QED BY <1>3, <2>1 DEF Agree
<1>4. ASSUME NEW x \in Of(c).links PROVE x \in Of(d).links
  <2>1. x \in View(c).links /\ x[2][2] = ns
    BY <1>1, <1>4
  <2>2. CASE \E p \in c.pods, k \in WorkloadsOf(c) :
               p.node # "" /\ Runs(p, k[1], k[2], c) /\ x = <<<<p.node>>, WorkloadId(k)>>
    <3>1. PICK p \in c.pods, k \in WorkloadsOf(c) :
             p.node # "" /\ Runs(p, k[1], k[2], c) /\ x = <<<<p.node>>, WorkloadId(k)>>
      BY <2>2
    <3>2. k[2].ns = ns
      BY <1>2, <2>1, <3>1
    <3>3. /\ \A j \in WorkloadsOf(c) : j[2].ns = ns => j \in WorkloadsOf(d)
          /\ \A q \in c.pods : \A kind, w : w.ns = ns /\ Runs(q, kind, w, c) =>
                q \in d.pods /\ q.ns = ns /\ Runs(q, kind, w, d)
      BY AgreeFacts
    <3>4. p \in d.pods /\ k \in WorkloadsOf(d) /\ Runs(p, k[1], k[2], d)
      BY <3>1, <3>2, <3>3
    <3>5. x \in View(d).links
      BY <3>1, <3>4, ViewMembers
    <3>6. QED BY <1>1, <2>1, <3>5
  <2>3. CASE \E s \in c.services, k \in WorkloadsOf(c) :
               Backs(s, k, c) /\ x = <<<<"service", s.ns, s.name>>, WorkloadId(k)>>
    <3>1. PICK s \in c.services, k \in WorkloadsOf(c) :
             Backs(s, k, c) /\ x = <<<<"service", s.ns, s.name>>, WorkloadId(k)>>
      BY <2>3
    <3>2. k[2].ns = ns
      BY <1>2, <2>1, <3>1
    <3>3. s.ns = ns /\ k \in WorkloadsOf(d) /\ Backs(s, k, d)
      BY <3>1, <3>2, AgreeFacts
    <3>4. s \in d.services
      BY <1>3, <3>3
    <3>5. x \in View(d).links
      BY <3>1, <3>3, <3>4, ViewMembers
    <3>6. QED BY <1>1, <2>1, <3>5
  <2>4. \/ \E p \in c.pods, k \in WorkloadsOf(c) :
              p.node # "" /\ Runs(p, k[1], k[2], c) /\ x = <<<<p.node>>, WorkloadId(k)>>
        \/ \E s \in c.services, k \in WorkloadsOf(c) :
              Backs(s, k, c) /\ x = <<<<"service", s.ns, s.name>>, WorkloadId(k)>>
    <3>1. \A y : y \in View(c).links <=>
                 \/ \E p \in c.pods, k \in WorkloadsOf(c) :
                       p.node # "" /\ Runs(p, k[1], k[2], c) /\ y = <<<<p.node>>, WorkloadId(k)>>
                 \/ \E s \in c.services, k \in WorkloadsOf(c) :
                       Backs(s, k, c) /\ y = <<<<"service", s.ns, s.name>>, WorkloadId(k)>>
      BY ViewMembers
    <3>2. QED BY Zenon, <2>1, <3>1
  <2>5. QED BY <2>2, <2>3, <2>4
<1>5. ASSUME NEW x \in Of(c).alerts PROVE x \in Of(d).alerts
  <2>1. x \in View(c).alerts /\ Len(x) = 3 /\ x[2] = ns
    BY <1>1, <1>5
  <2>2. ~ \E n \in c.nodes : x = <<n.name>>
    BY <2>1
  <2>3. CASE \E k \in WorkloadsOf(c) : Below(k) /\ x = WorkloadId(k)
    <3>1. PICK k \in WorkloadsOf(c) : Below(k) /\ x = WorkloadId(k)
      BY <2>3
    <3>2. k \in WorkloadsOf(d)
      BY <1>2, <2>1, <3>1, AgreeFacts
    <3>3. x \in View(d).alerts
      BY <3>1, <3>2, ViewMembers
    <3>4. QED BY <1>1, <2>1, <3>3
  <2>4. CASE \E s \in c.services : /\ s.selector # {} /\ x = <<"service", s.ns, s.name>>
                                   /\ \A k \in WorkloadsOf(c) : ~Backs(s, k, c)
    <3>1. PICK s \in c.services : /\ s.selector # {} /\ x = <<"service", s.ns, s.name>>
                                  /\ \A k \in WorkloadsOf(c) : ~Backs(s, k, c)
      BY <2>4
    <3>2. s.ns = ns /\ s \in d.services
      BY <1>3, <2>1, <3>1
    <3>3. ASSUME NEW k \in WorkloadsOf(d), Backs(s, k, d)
          PROVE  FALSE
      <4>1. k[2].ns = ns
        BY <3>2, <3>3 DEF Backs, Selects, Runs
      <4>2. k \in WorkloadsOf(c) /\ Backs(s, k, c)
        BY <3>3, <4>1, AgreeFacts
      <4>3. QED BY <3>1, <4>2
    <3>4. x \in View(d).alerts
      BY <3>1, <3>2, <3>3, ViewMembers
    <3>5. QED BY <1>1, <2>1, <3>4
  <2>5. QED BY <2>1, <2>2, <2>3, <2>4, ViewMembers
<1>6. ASSUME NEW x \in Of(c).ailing PROVE x \in Of(d).ailing
  <2>1. x \in View(c).ailing /\ x[2] = ns
    BY <1>1, <1>6
  <2>2. PICK k \in WorkloadsOf(c) : Ailing(k, c) /\ x = WorkloadId(k)
    BY <2>1, ViewMembers
  <2>3. k \in WorkloadsOf(d) /\ Ailing(k, d)
    BY <1>2, <2>1, <2>2, AgreeFacts
  <2>4. x \in View(d).ailing
    BY <2>2, <2>3, ViewMembers
  <2>5. QED BY <1>1, <2>1, <2>4
<1>7. QED BY <1>4, <1>5, <1>6

LEMMA ViewWithin ==
    ASSUME NEW c, NEW d, NEW ns, Agree(c, d, ns)
    PROVE  Within(View(c), ns) = Within(View(d), ns)
<1>1. Agree(d, c, ns)
  BY DEF Agree
<1>2. /\ Within(View(c), ns).links = Within(View(d), ns).links
      /\ Within(View(c), ns).alerts = Within(View(d), ns).alerts
      /\ Within(View(c), ns).ailing = Within(View(d), ns).ailing
  <2>1. /\ Within(View(c), ns).links \subseteq Within(View(d), ns).links
        /\ Within(View(c), ns).alerts \subseteq Within(View(d), ns).alerts
        /\ Within(View(c), ns).ailing \subseteq Within(View(d), ns).ailing
    BY <1>1, HalfWithin, Zenon
  <2>2. /\ Within(View(d), ns).links \subseteq Within(View(c), ns).links
        /\ Within(View(d), ns).alerts \subseteq Within(View(c), ns).alerts
        /\ Within(View(d), ns).ailing \subseteq Within(View(c), ns).ailing
    BY <1>1, HalfWithin, Zenon
  <2>3. QED BY <2>1, <2>2, Zenon
<1>3. QED BY <1>2 DEF Within

-----------------------------------------------------------------------------
(* The load. *)

\* Some state of the cluster so far listed l as it was fetched.
Listed(l) == \E v \in 1..now : fetch[l] = history[v][l]

\* An error that was met is in the channel or still on its way; and a snapshot
\* is made of lists only.
IInv ==
    /\ scenario \in DOMAIN Histories /\ now \in 1..Len(history)
    /\ DOMAIN fetch = Lists /\ errCh \in Nat
    /\ errCh = 0 => \A l \in Lists : fetch[l] \in {Pending, Erring} \/ Listed(l)
    /\ pc = "done" /\ "snapshot" \in DOMAIN answer =>
          /\ answer.snapshot = transformSnapshot(fetch)
          /\ \A l \in Lists : fetch[l] # Erring /\ Listed(l)

LEMMA InitInv == Init => IInv
<1> SUFFICES ASSUME Init PROVE IInv
  OBVIOUS
<1>1. Len(Histories[scenario]) \in Nat \ {0} /\ now = 1
  BY ReadsAssumption DEF Init
<1>2. now \in 1..Len(history)
  BY <1>1 DEF history
<1>3. QED BY <1>2 DEF Init, IInv

\* A step that only leaves the lists as they are, answers without a snapshot or
\* lets the cluster go on.
LEMMA KeepInv ==
    ASSUME IInv, UNCHANGED <<scenario, fetch, errCh>>,
           now' \in now..Len(history),
           pc' = "done" /\ "snapshot" \in DOMAIN answer' => pc = "done" /\ answer' = answer
    PROVE  IInv'
<1>1. now' \in 1..Len(history') /\ history' = history
  BY DEF IInv, history
<1>2. \A l \in Lists : Listed(l) => Listed(l)'
  <2> SUFFICES ASSUME NEW l \in Lists, Listed(l) PROVE Listed(l)'
    OBVIOUS
  <2>1. PICK v \in 1..now : fetch[l] = history[v][l]
    BY DEF Listed
  <2>2. v \in 1..now' /\ fetch'[l] = history'[v][l]
    BY <1>1, <2>1 DEF IInv
  <2>3. QED BY <2>2 DEF Listed
<1>3. QED BY <1>1, <1>2 DEF IInv

LEMMA StepInv == IInv /\ [Next]_vars => IInv'
<1> SUFFICES ASSUME IInv, [Next]_vars PROVE IInv'
  OBVIOUS
<1>1. now \in now..Len(history) /\ now \in Nat /\ Len(history) \in Nat
  <2>1. Len(history) \in Nat
    BY ReadsAssumption DEF IInv, history
  <2>2. QED BY <2>1 DEF IInv
<1>2. ASSUME NEW cluster \in {Own, "other"}, AskSnapshot(cluster) PROVE IInv'
  <2>1. pc' = "done" => "snapshot" \notin DOMAIN answer'
    BY <1>2 DEF AskSnapshot, Reply
  <2>2. QED BY <1>1, <1>2, <2>1, KeepInv DEF AskSnapshot
<1>3. ASSUME NEW q \in Queries, AskEvents(q) PROVE IInv'
  <2>1. pc' = "done" => "snapshot" \notin DOMAIN answer'
    BY <1>3 DEF AskEvents, Reply
  <2>2. QED BY <1>1, <1>3, <2>1, KeepInv DEF AskEvents
<1>4. ASSUME NEW l \in Lists, Fetched(l) PROVE IInv'
  <2>1. PICK v \in 1..now : fetch' = [fetch EXCEPT ![l] = history[v][l]]
    BY <1>4 DEF Fetched
  <2>2. fetch'[l] = history'[v][l] /\ v \in 1..now'
    BY <1>4, <2>1 DEF Fetched, IInv, history
  <2>3. Listed(l)'
    BY <2>2 DEF Listed
  <2>4. \A m \in Lists \ {l} : fetch'[m] = fetch[m] /\ (Listed(m) => Listed(m)')
    BY <1>4, <2>1 DEF Fetched, IInv, Listed, history
  <2>5. DOMAIN fetch' = Lists /\ pc' # "done"
    BY <1>4, <2>1 DEF Fetched, IInv
  <2>6. errCh' = 0 => \A m \in Lists : fetch'[m] \in {Pending, Erring} \/ Listed(m)'
    BY <1>4, <2>3, <2>4 DEF Fetched, IInv
  <2>7. QED BY <1>4, <2>5, <2>6 DEF Fetched, IInv, history
<1>5. ASSUME NEW l \in Lists, FetchFailed(l) PROVE IInv'
  <2>1. \A m \in Lists \ {l} : fetch'[m] = fetch[m] /\ (Listed(m) => Listed(m)')
    BY <1>5 DEF FetchFailed, IInv, Listed, history
  <2>2. DOMAIN fetch' = Lists /\ pc' # "done" /\ fetch'[l] = Erring
    BY <1>5 DEF FetchFailed, IInv
  <2>3. errCh' = 0 => \A m \in Lists : fetch'[m] \in {Pending, Erring} \/ Listed(m)'
    BY <1>5, <2>1, <2>2 DEF FetchFailed, IInv
  <2>4. QED BY <1>5, <2>2, <2>3 DEF FetchFailed, IInv, history
<1>6. ASSUME NEW l \in Lists, SendErr(l) PROVE IInv'
  <2>1. DOMAIN fetch' = Lists /\ errCh' \in Nat /\ errCh' # 0
    BY <1>6 DEF SendErr, IInv
  <2>2. ~(pc' = "done" /\ "snapshot" \in DOMAIN answer')
    BY <1>6 DEF SendErr, IInv
  <2>3. QED BY <1>6, <2>1, <2>2 DEF SendErr, IInv, history
<1>7. CASE LoadSnapshot
  <2>1. errCh # 0 => "snapshot" \notin DOMAIN answer'
    BY <1>7 DEF LoadSnapshot, Reply, IInv
  <2>2. CASE errCh # 0
    BY <1>1, <1>7, <2>1, <2>2, KeepInv DEF LoadSnapshot
  <2>3. CASE errCh = 0
    <3>1. \A l \in Lists : fetch[l] # Erring /\ Listed(l)
      BY <1>7, <2>3 DEF LoadSnapshot, IInv
    <3>2. answer' = [status |-> 200, snapshot |-> transformSnapshot(fetch)]
      BY <1>7, <2>3 DEF LoadSnapshot, Reply
    <3>3. answer'.snapshot = transformSnapshot(fetch)
      BY <3>2
    <3>4. \A l \in Lists : Listed(l)' = Listed(l)
      BY <1>7 DEF LoadSnapshot, Listed, history
    <3>5. QED BY <1>7, <3>1, <3>3, <3>4 DEF LoadSnapshot, IInv, history
  <2>4. QED BY <2>2, <2>3
<1>8. CASE LoadEvents
  <2>1. "snapshot" \notin DOMAIN answer'
    BY <1>8 DEF LoadEvents, Reply
  <2>2. QED BY <1>1, <1>8, <2>1, KeepInv DEF LoadEvents
<1>9. CASE LoadEventsFailed
  <2>1. "snapshot" \notin DOMAIN answer'
    BY <1>9 DEF LoadEventsFailed, Reply
  <2>2. QED BY <1>1, <1>9, <2>1, KeepInv DEF LoadEventsFailed
<1>10. CASE NextCall
  <2>1. /\ pc' = "idle" /\ fetch' = [l \in Lists |-> Pending] /\ errCh' = 0
        /\ UNCHANGED <<scenario, now>>
    BY <1>10 DEF NextCall
  <2>2. QED BY <2>1 DEF IInv, history
<1>11. CASE Advance
  <2>1. now' \in now..Len(history)
    BY <1>1, <1>11 DEF Advance
  <2>2. QED BY <1>11, <2>1, KeepInv DEF Advance
<1>12. CASE UNCHANGED vars
  BY <1>1, <1>12, KeepInv DEF vars
<1>13. QED BY <1>2, <1>3, <1>4, <1>5, <1>6, <1>7, <1>8, <1>9, <1>10, <1>11, <1>12
          DEF Next, Goroutine, Handler

THEOREM Invariance == Spec => []IInv
  BY InitInv, StepInv, PTL DEF Spec

-----------------------------------------------------------------------------
(* The snapshot. *)

Owned == \A s \in DOMAIN Histories : \A v \in 1..Len(Histories[s]) : SinglyOwned(Histories[s][v])

\* A view is made of the eight lists and of nothing else.
LEMMA SameLists ==
    ASSUME NEW c, NEW d, \A l \in Lists : c[l] = d[l]
    PROVE  View(c) = View(d)
<1>1. /\ c.nodes = d.nodes /\ c.pods = d.pods /\ c.services = d.services
      /\ c.deployments = d.deployments /\ c.daemonSets = d.daemonSets
      /\ c.statefulSets = d.statefulSets /\ c.jobs = d.jobs /\ c.replicaSets = d.replicaSets
  BY DEF Lists
<1>2. WorkloadsOf(c) = WorkloadsOf(d)
  BY <1>1 DEF WorkloadsOf
<1>3. \A p, kind, w : Runs(p, kind, w, c) <=> Runs(p, kind, w, d)
  BY <1>1 DEF Runs
<1>4. \A s, k : Backs(s, k, c) <=> Backs(s, k, d)
  BY <1>1, <1>3 DEF Backs
<1>5. \A k : Ailing(k, c) <=> Ailing(k, d)
  BY <1>1, <1>3 DEF Ailing
<1>6. \A p, s : PodLinks(p, c) = PodLinks(p, d) /\ ServiceLinks(s, c) = ServiceLinks(s, d)
  BY <1>2, <1>3, <1>4 DEF PodLinks, ServiceLinks
<1>7. View(c).links = View(d).links
  <2> DEFINE placed(e) == {q \in e.pods : q.node # ""}
             M(e) == {PodLinks(p, e) : p \in placed(e)}
             S(e) == {ServiceLinks(s, e) : s \in e.services}
  <2>1. ASSUME NEW e PROVE View(e).links = (UNION M(e)) \cup (UNION S(e))
    BY DEF View
  <2>2. placed(c) = placed(d)
    BY <1>1
  <2> HIDE DEF placed
  <2>3. M(c) = M(d)
    BY <1>6, <2>2
  <2>4. S(c) = S(d)
    BY <1>1, <1>6
  <2> HIDE DEF M, S
  <2>5. QED BY <2>1, <2>3, <2>4, Zenon
<1>8. /\ \A x : x \in View(c).alerts <=> x \in View(d).alerts
      /\ \A x : x \in View(c).ailing <=> x \in View(d).ailing
  BY <1>1, <1>2, <1>4, <1>5 DEF View
<1>9. View(c).alerts = View(d).alerts /\ View(c).ailing = View(d).ailing
  BY <1>8 DEF View
<1>10. ASSUME NEW e
       PROVE  View(e) = [links |-> View(e).links, alerts |-> View(e).alerts,
                         ailing |-> View(e).ailing]
  <2>1. PICK L, A, S : View(e) = [links |-> L, alerts |-> A, ailing |-> S]
    BY Zenon DEF View
  <2>2. View(e).links = L /\ View(e).alerts = A /\ View(e).ailing = S
    BY <2>1
  <2>3. QED BY <2>1, <2>2, Zenon
<1>11. QED BY <1>7, <1>9, <1>10, Zenon

LEMMA FetchedOwned ==
    ASSUME Owned, IInv, \A l \in Lists : Listed(l)
    PROVE  SinglyOwned(fetch)
<1>1. \A v \in 1..now : SinglyOwned(history[v])
  <2>1. 1..now \subseteq 1..Len(Histories[scenario])
    BY DEF IInv, history
  <2>2. QED BY <2>1 DEF Owned, IInv, history
<1>2. PICK v \in 1..now : fetch["pods"] = history[v]["pods"]
  BY DEF Listed, Lists
<1>3. PICK u \in 1..now : fetch["replicaSets"] = history[u]["replicaSets"]
  BY DEF Listed, Lists
<1>4. QED BY <1>1, <1>2, <1>3 DEF SinglyOwned

LEMMA FetchedNoBlank ==
    ASSUME NeverBlank, \A l \in Lists : Listed(l)
    PROVE  NoBlankMatch(fetch.services, fetch.pods)
<1>1. PICK v \in 1..now : fetch["services"] = history[v]["services"]
  BY DEF Listed, Lists
<1>2. PICK u \in 1..now : fetch["pods"] = history[u]["pods"]
  BY DEF Listed, Lists
<1>3. NoBlankMatch(history[v].services, history[u].pods)
  BY DEF NeverBlank
<1>4. QED BY <1>1, <1>2, <1>3

\* The lists of a load agree on a namespace that was quiet, whenever each was read.
LEMMA QuietAgree ==
    ASSUME NEW ns, Quiet(ns), \A l \in Lists : Listed(l)
    PROVE  Agree(fetch, history[1], ns)
<1> SUFFICES ASSUME NEW l \in Namespaced
             PROVE  {o \in fetch[l] : o.ns = ns} = {o \in history[1][l] : o.ns = ns}
  BY DEF Agree
<1>1. PICK v \in 1..now : fetch[l] = history[v][l]
  BY DEF Listed, Namespaced
<1>2. {o \in history[v][l] : o.ns = ns} = {o \in history[1][l] : o.ns = ns}
  BY DEF Quiet
<1>3. QED BY <1>1, <1>2

LEMMA InvImpliesFaithful ==
    ASSUME Owned, IInv
    PROVE  SnapshotIsFaithful
<1> SUFFICES ASSUME pc = "done", answer.status = 200, "snapshot" \in DOMAIN answer, NeverBlank
             PROVE  /\ \A v \in 1..now : (\A l \in Lists : fetch[l] = history[v][l]) =>
                          Shown(answer.snapshot) = View(history[v])
                    /\ \A ns \in {w[2].ns : w \in WorkloadsOf(history[1])} : Quiet(ns) =>
                          Within(Shown(answer.snapshot), ns) = Within(View(history[1]), ns)
  BY DEF SnapshotIsFaithful
<1>1. answer.snapshot = transformSnapshot(fetch) /\ \A l \in Lists : Listed(l)
  BY DEF IInv
<1>2. Shown(answer.snapshot) = View(fetch)
  BY <1>1, FetchedOwned, FetchedNoBlank, ShowsView
<1>3. ASSUME NEW v \in 1..now, \A l \in Lists : fetch[l] = history[v][l]
      PROVE  Shown(answer.snapshot) = View(history[v])
  BY <1>2, <1>3, SameLists
<1>4. ASSUME NEW ns, Quiet(ns)
      PROVE  Within(Shown(answer.snapshot), ns) = Within(View(history[1]), ns)
  <2>1. Agree(fetch, history[1], ns)
    BY <1>1, <1>4, QuietAgree
  <2>2. QED BY <1>2, <2>1, ViewWithin
<1>5. QED BY <1>3, <1>4

\* A snapshot of lists that belong together shows exactly the links, alerts and
\* ailing workloads of that state of the cluster; and of torn lists, each namespace
\* that nothing changed in, whatever the clusters' histories, the interleaving of
\* the list calls and their failures.  Of an object with two owners that count the
\* code follows the first, so Owned is needed; and an absent label reads as "", so
\* the property excepts services that select the empty value of a label some pod of
\* their namespace lacks (labels[k] != v links those pods, Kubernetes does not).
THEOREM SnapshotIsFaithfulHolds == Owned => (Spec => []SnapshotIsFaithful)
<1>1. Owned /\ IInv => SnapshotIsFaithful
  BY InvImpliesFaithful
<1>2. ASSUME Owned PROVE IInv => SnapshotIsFaithful
  BY <1>1, <1>2
<1>3. ASSUME Owned PROVE Spec => []SnapshotIsFaithful
  BY <1>2, <1>3, Invariance, PTL
<1>4. QED BY <1>3

-----------------------------------------------------------------------------
(* Events: what a step of a recursive function keeps, it keeps to the end. *)

\* Zero is in T and each number up to n follows the one before: induction, by the
\* least number that is missing.
LEMMA Upto ==
    ASSUME NEW n \in Nat, NEW T, 0 \in T, \A i \in 1..n : i - 1 \in T => i \in T
    PROVE  \A i \in 0..n : i \in T
<1> DEFINE Missing == {i \in 0..n : i \notin T}
<1> SUFFICES ASSUME Missing # {} PROVE FALSE
  OBVIOUS
<1>1. Missing \subseteq Nat
  OBVIOUS
<1>2. PICK m \in Missing : \A j \in Missing : ~(<<j, m>> \in OpToRel(<, Nat))
  <2> HIDE DEF Missing
  <2>1. QED BY <1>1, WFMin, NatLessThanWellFounded, Zenon
<1>3. m \in 1..n /\ m - 1 \in 0..n
  OBVIOUS
<1>4. <<m - 1, m>> \in OpToRel(<, Nat)
  BY <1>3 DEF OpToRel
<1>5. m - 1 \in T
  BY <1>2, <1>3, <1>4
<1>6. QED BY <1>3, <1>5

\* f is defined by a step from the value before ...
Steps(n, S, start, step, f) ==
    /\ f \in [0..n -> S] /\ f[0] = start
    /\ \A i \in 1..n : f[i] = step[i][f[i - 1]]

\* ... and such a function exists.
LEMMA Recursion ==
    ASSUME NEW n \in Nat, NEW S, NEW start \in S, NEW step \in [1..n -> [S -> S]]
    PROVE  \E f : Steps(n, S, start, step, f)
<1> DEFINE Eq(m, f) == Steps(m, S, start, step, f)
           T == {m \in 0..n : \E f : Eq(m, f)}
<1>1. 0 \in T
  <2>1. Eq(0, [i \in 0..0 |-> start])
    BY DEF Steps
  <2>2. 0 \in 0..n
    OBVIOUS
  <2> HIDE DEF Eq
  <2>3. QED BY <2>1, <2>2
<1>2. ASSUME NEW m \in 1..n, m - 1 \in T PROVE m \in T
  <2>1. PICK f : Eq(m - 1, f)
    BY <1>2
  <2> DEFINE g == [i \in 0..m |-> IF i = m THEN step[m][f[m - 1]] ELSE f[i]]
  <2>2. f[m - 1] \in S /\ step[m] \in [S -> S]
    BY <2>1 DEF Steps
  <2>3. g \in [0..m -> S] /\ g[0] = start
    BY <2>1, <2>2 DEF Steps
  <2>4. ASSUME NEW i \in 1..m PROVE g[i] = step[i][g[i - 1]]
    <3>1. CASE i = m
      BY <3>1
    <3>2. CASE i # m
      BY <2>1, <3>2 DEF Steps
    <3>3. QED BY <3>1, <3>2
  <2> HIDE DEF g
  <2>5. Eq(m, g)
    BY <2>3, <2>4 DEF Steps
  <2> HIDE DEF Eq
  <2>6. QED BY <2>5
<1>3. n \in T
  <2>1. \A m \in 1..n : m - 1 \in T => m \in T
    BY <1>2
  <2>2. n \in 0..n
    OBVIOUS
  <2> HIDE DEF T
  <2>3. \A i \in 0..n : i \in T
    BY <1>1, <2>1, Upto
  <2>4. QED BY <2>2, <2>3
<1>4. QED BY <1>3

-----------------------------------------------------------------------------
(* The selection. *)

Items == [uid : Nat, name : STRING, namespace : STRING, kind : STRING,
          last : Nat, eventTime : Nat, created : Nat]

\* The selected events, each once and in list order.
LEMMA SelectionFacts ==
    ASSUME NEW log \in EventLists, NEW q
    PROVE  LET sel == Selection(log, q) IN
           /\ sel \in Seq(Items)
           /\ \A j \in 1..Len(sel) : /\ sel[j].uid \in 1..Len(log) /\ sel[j] = log[sel[j].uid]
                                     /\ Selected(sel[j], q)
           /\ \A j, k \in 1..Len(sel) : j < k => sel[j].uid < sel[k].uid
           /\ \A i \in 1..Len(log) : Selected(log[i], q) => \E j \in 1..Len(sel) : sel[j] = log[i]
<1> DEFINE N == Len(log)
           more == [i \in 1..N |-> IF Selected(log[i], q) THEN <<log[i]>> ELSE <<>>]
           step == [i \in 1..N |-> [s \in Seq(Items) |-> s \o more[i]]]
           Eq(f) == f = [i \in 0..N |-> IF i = 0 THEN <<>>
                                        ELSE f[i - 1] \o (IF Selected(log[i], q) THEN <<log[i]>> ELSE <<>>)]
<1>1. log \in Seq(Items) /\ N \in Nat /\ \A i \in 1..N : log[i] \in Items /\ log[i].uid = i
  <2>1. log \in Seq(Items) /\ \A i \in DOMAIN log : log[i].uid = i
    BY EventsAssumption DEF Items
  <2> HIDE DEF Items
  <2>2. QED BY <2>1
<1>2. \E f : Eq(f)
  <2>0. \A i \in 1..N : more[i] \in Seq(Items)
    <3> HIDE DEF Items
    <3>1. QED BY <1>1
  <2>1. step \in [1..N -> [Seq(Items) -> Seq(Items)]]
    <3> HIDE DEF more, Items
    <3>1. QED BY <1>1, <2>0
  <2>2. PICK f : Steps(N, Seq(Items), <<>>, step, f)
    <3>1. <<>> \in Seq(Items)
      OBVIOUS
    <3>2. N \in Nat
      BY <1>1
    <3> HIDE DEF step, Items, N
    <3>3. QED BY <2>1, <3>1, <3>2, Recursion
  <2>3. \A i \in 1..N : f[i - 1] \in Seq(Items)
    <3> HIDE DEF step, Items
    <3>1. QED BY <1>1, <2>2 DEF Steps
  <2>4. \A i \in 1..N : step[i][f[i - 1]] = f[i - 1] \o more[i]
    <3> HIDE DEF more, Items
    <3>1. QED BY <2>3
  <2>5. \A i \in 1..N : step[i][f[i - 1]]
              = f[i - 1] \o (IF Selected(log[i], q) THEN <<log[i]>> ELSE <<>>)
    BY <2>4
  <2> DEFINE g(i) == IF i = 0 THEN <<>>
                     ELSE f[i - 1] \o (IF Selected(log[i], q) THEN <<log[i]>> ELSE <<>>)
  <2>6. \A i \in 0..N : f[i] = g(i)
    <3>1. \A i \in 0..N : i = 0 \/ i \in 1..N
      BY <1>1
    <3> HIDE DEF step, more
    <3>2. QED BY <2>2, <2>5, <3>1 DEF Steps
  <2> HIDE DEF step, more, g
  <2>7. f = [i \in 0..N |-> g(i)]
    BY <2>2, <2>6 DEF Steps
  <2>8. Eq(f)
    BY <2>7 DEF g
  <2> HIDE DEF Eq
  <2>9. QED BY <2>8
<1>3. PICK f : Eq(f) /\ Selection(log, q) = f[N]
  <2> HIDE DEF N
  <2>1. Selection(log, q) = (CHOOSE f : Eq(f))[N]
    BY DEF Selection, N
  <2>2. QED BY <1>2, <2>1, Zenon
<1> DEFINE P(n) == /\ f[n] \in Seq(Items)
                   /\ \A j \in 1..Len(f[n]) : /\ f[n][j].uid \in 1..n
                                              /\ f[n][j] = log[f[n][j].uid]
                                              /\ Selected(f[n][j], q)
                   /\ \A j, k \in 1..Len(f[n]) : j < k => f[n][j].uid < f[n][k].uid
                   /\ \A i \in 1..n : Selected(log[i], q) => \E j \in 1..Len(f[n]) : f[n][j] = log[i]
           T == {n \in 0..N : P(n)}
<1>4. f[0] = <<>> /\ \A n \in 1..N : f[n] = f[n - 1] \o (IF Selected(log[n], q) THEN <<log[n]>> ELSE <<>>)
  BY <1>1, <1>3
<1>5. P(0)
  BY <1>4
<1>6. ASSUME NEW n \in 1..N, P(n - 1) PROVE P(n)
  <2> DEFINE s == f[n - 1]
             t == f[n]
  <2>1. n - 1 \in Nat /\ log[n] \in Items /\ log[n].uid = n
    BY <1>1
  <2>2. CASE ~Selected(log[n], q)
    <3>1. t = s
      <4>1. s \in Seq(Items)
        BY <1>6
      <4>2. t = s \o <<>>
        BY <1>4, <2>2
      <4> HIDE DEF Items, s, t
      <4>3. QED BY <4>1, <4>2
    <3>2. \A i \in 1..n : i = n \/ i \in 1..(n - 1)
      OBVIOUS
    <3>3. \A j \in 1..Len(s) : s[j].uid \in 1..n
      BY <1>6
    <3> HIDE DEF Items
    <3>4. QED BY <1>6, <2>2, <3>1, <3>2, <3>3
  <2>3. CASE Selected(log[n], q)
    <3>1. t = s \o <<log[n]>>
      BY <1>4, <2>3
    <3>2. s \in Seq(Items) /\ Len(s) \in Nat
      BY <1>6
    <3>3. /\ t \in Seq(Items) /\ Len(t) = Len(s) + 1
          /\ t[Len(s) + 1] = log[n] /\ \A j \in 1..Len(s) : t[j] = s[j]
      <4> HIDE DEF Items, s, t
      <4>1. QED BY <2>1, <3>1, <3>2
    <3>4. \A j \in 1..Len(t) : j = Len(s) + 1 \/ j \in 1..Len(s)
      BY <3>2, <3>3
    <3>5. \A j \in 1..Len(s) : s[j].uid \in 1..(n - 1) /\ s[j] = log[s[j].uid] /\ Selected(s[j], q)
      BY <1>6
    <3>6. \A j, k \in 1..Len(s) : j < k => s[j].uid < s[k].uid
      BY <1>6
    <3>7. \A i \in 1..(n - 1) : Selected(log[i], q) => \E j \in 1..Len(s) : s[j] = log[i]
      BY <1>6
    <3> HIDE DEF Items, s, t
    <3>8. \A j \in 1..Len(t) : t[j].uid \in 1..n /\ t[j] = log[t[j].uid] /\ Selected(t[j], q)
      <4> SUFFICES ASSUME NEW j \in 1..Len(t)
                   PROVE  t[j].uid \in 1..n /\ t[j] = log[t[j].uid] /\ Selected(t[j], q)
        OBVIOUS
      <4>1. CASE j = Len(s) + 1
        BY <2>1, <2>3, <3>3, <4>1
      <4>2. CASE j \in 1..Len(s)
        <5>1. t[j] = s[j] /\ s[j].uid \in 1..(n - 1)
          BY <3>3, <3>5, <4>2
        <5>2. t[j].uid \in 1..n
          BY <5>1
        <5>3. QED BY <3>5, <4>2, <5>1, <5>2
      <4>3. QED BY <3>4, <4>1, <4>2
    <3>9. \A j, k \in 1..Len(t) : j < k => t[j].uid < t[k].uid
      <4> SUFFICES ASSUME NEW j \in 1..Len(t), NEW k \in 1..Len(t), j < k PROVE t[j].uid < t[k].uid
        OBVIOUS
      <4>1. j \in 1..Len(s)
        BY <3>2, <3>3
      <4>2. CASE k \in 1..Len(s)
        BY <3>3, <3>6, <4>1, <4>2
      <4>3. CASE k = Len(s) + 1
        <5>1. s[j].uid \in 1..(n - 1)
          BY <3>5, <4>1
        <5>2. QED BY <2>1, <3>3, <4>1, <4>3, <5>1
      <4>4. QED BY <3>4, <4>2, <4>3
    <3>10. \A i \in 1..n : Selected(log[i], q) => \E j \in 1..Len(t) : t[j] = log[i]
      <4> SUFFICES ASSUME NEW i \in 1..n, Selected(log[i], q) PROVE \E j \in 1..Len(t) : t[j] = log[i]
        OBVIOUS
      <4>1. CASE i = n
        BY <3>2, <3>3, <4>1
      <4>2. CASE i # n
        <5>1. PICK j \in 1..Len(s) : s[j] = log[i]
          BY <3>7, <4>2
        <5>2. QED BY <3>2, <3>3, <5>1
      <4>3. QED BY <4>1, <4>2
    <3>11. QED BY <3>3, <3>8, <3>9, <3>10 DEF s, t
  <2>4. QED BY <2>2, <2>3
<1>7. P(N)
  <2> HIDE DEF P
  <2>1. 0 \in T /\ \A n \in 1..N : n - 1 \in T => n \in T
    BY <1>1, <1>5, <1>6
  <2>2. N \in Nat /\ N \in 0..N
    BY <1>1
  <2>3. \A i \in 0..N : i \in T
    <3> HIDE DEF T, N
    <3>1. QED BY <2>1, <2>2, Upto
  <2>4. QED BY <2>2, <2>3
<1>8. QED BY <1>3, <1>7
-----------------------------------------------------------------------------
(* The sort. *)

Entries == [uid : Nat, at : Nat]

\* Newest first, ties by uid.
NewestFirst(s) ==
    \A j, k \in 1..Len(s) : j < k =>
        \/ s[j].at > s[k].at
        \/ s[j].at = s[k].at /\ s[j].uid < s[k].uid

\* r is s with e put in at i.
PutIn(r, s, e, i) ==
    /\ Len(r) = Len(s) + 1 /\ r[i] = e
    /\ \A j \in 1..(i - 1) : r[j] = s[j]
    /\ \A j \in i..Len(s) : r[j + 1] = s[j]

\* The elements of a list of entries are entries.
LEMMA EntryFacts ==
    ASSUME NEW s \in Seq(Entries)
    PROVE  /\ Len(s) \in Nat
           /\ \A j \in 1..Len(s) : s[j] \in Entries /\ s[j].at \in Nat /\ s[j].uid \in Nat
<1>1. Len(s) \in Nat /\ \A j \in 1..Len(s) : s[j] \in Entries
  OBVIOUS
<1>2. \A x \in Entries : x.at \in Nat /\ x.uid \in Nat
  BY DEF Entries
<1>3. QED BY <1>1, <1>2

\* The two parts of s \o t.
LEMMA JoinFacts ==
    ASSUME NEW S, NEW s \in Seq(S), NEW t \in Seq(S)
    PROVE  /\ s \o t \in Seq(S) /\ Len(s \o t) = Len(s) + Len(t)
           /\ \A j \in 1..Len(s) : (s \o t)[j] = s[j]
           /\ \A j \in 1..Len(t) : (s \o t)[Len(s) + j] = t[j]
  OBVIOUS

\* Insert puts e in after the entries that are as new, before the first older one.
LEMMA InsertFacts ==
    ASSUME NEW s \in Seq(Entries), NEW e \in Entries
    PROVE  /\ Insert(s, e) \in Seq(Entries)
           /\ \E i \in 1..(Len(s) + 1) :
                 /\ PutIn(Insert(s, e), s, e, i)
                 /\ \A j \in 1..(i - 1) : s[j].at >= e.at
                 /\ i <= Len(s) => s[i].at < e.at
<1> DEFINE I == {j \in 1..Len(s) : s[j].at < e.at}
<1>1. Len(s) \in Nat /\ \A j \in 1..Len(s) : s[j] \in Entries /\ s[j].at \in Nat
  BY EntryFacts
<1>2. e.at \in Nat
  BY DEF Entries
<1>3. SelectInSeq(s, LAMBDA x : x.at < e.at) = IF I # {} THEN Min(I) ELSE 0
  BY DEF SelectInSeq
<1>4. CASE I = {}
  <2>1. Insert(s, e) = Append(s, e)
    <3> HIDE DEF I
    <3>1. QED BY <1>3, <1>4 DEF Insert
  <2>2. \A j \in 1..Len(s) : s[j].at >= e.at
    BY <1>1, <1>2, <1>4
  <2>3. /\ Append(s, e) \in Seq(Entries) /\ Len(Append(s, e)) = Len(s) + 1
        /\ Append(s, e)[Len(s) + 1] = e
        /\ \A j \in 1..Len(s) : Append(s, e)[j] = s[j]
    <3> HIDE DEF I
    <3>1. QED BY <1>1
  <2> DEFINE r == Append(s, e)
  <2> HIDE DEF I, r
  <2>4. PutIn(r, s, e, Len(s) + 1)
    BY <1>1, <2>3 DEF PutIn, r
  <2>5. Len(s) + 1 \in 1..(Len(s) + 1)
    BY <1>1
  <2>6. QED BY <1>1, <2>1, <2>2, <2>3, <2>4, <2>5 DEF r
<1>5. CASE I # {}
  <2> DEFINE i == Min(I)
             r == SubSeq(s, 1, i - 1) \o <<e>> \o SubSeq(s, i, Len(s))
  <2>1. i \in I /\ \A j \in I : i <= j
    <3>1. I \subseteq Nat
      BY <1>1
    <3>2. PICK m \in I : \A j \in I : ~(<<j, m>> \in OpToRel(<, Nat))
      <4> HIDE DEF I
      <4>1. QED BY <1>5, <3>1, WFMin, NatLessThanWellFounded, Zenon
    <3>3. \A j \in I : m <= j
      <4> SUFFICES ASSUME NEW j \in I, j < m PROVE FALSE
        BY <3>1
      <4>1. <<j, m>> \in OpToRel(<, Nat)
        BY <3>1 DEF OpToRel
      <4>2. QED BY <3>2, <4>1
    <3> HIDE DEF I
    <3>4. QED BY <3>3 DEF Min
  <2>2. i \in 1..Len(s) /\ s[i].at < e.at
    BY <2>1
  <2>3. \A j \in 1..(i - 1) : s[j].at >= e.at
    BY <1>1, <1>2, <2>1, <2>2
  <2>4. Insert(s, e) = r
    <3>1. i # 0
      BY <1>1, <2>2
    <3> HIDE DEF I
    <3>2. QED BY <1>3, <1>5, <3>1 DEF Insert, InsertAt
  <2> HIDE DEF i
  <2>5. /\ SubSeq(s, 1, i - 1) \in Seq(Entries) /\ Len(SubSeq(s, 1, i - 1)) = i - 1
        /\ \A j \in 1..(i - 1) : SubSeq(s, 1, i - 1)[j] = s[j]
    BY <1>1, <2>2
  <2>6. /\ SubSeq(s, i, Len(s)) \in Seq(Entries) /\ Len(SubSeq(s, i, Len(s))) = Len(s) - i + 1
        /\ \A j \in i..Len(s) : SubSeq(s, i, Len(s))[j - i + 1] = s[j]
    BY <1>1, <2>2
  <2>7. PICK a, b : a = SubSeq(s, 1, i - 1) /\ b = SubSeq(s, i, Len(s))
    OBVIOUS
  <2>8. /\ a \in Seq(Entries) /\ b \in Seq(Entries)
        /\ Len(a) = i - 1 /\ Len(b) = Len(s) - i + 1
        /\ \A j \in 1..(i - 1) : a[j] = s[j]
        /\ \A j \in i..Len(s) : b[j - i + 1] = s[j]
    BY <2>5, <2>6, <2>7
  <2>9. r = (a \o <<e>>) \o b
    BY <2>7
  <2> HIDE DEF I, r
  <2>10. PICK c : c = a \o <<e>>
    OBVIOUS
  <2>11. /\ c \in Seq(Entries) /\ Len(c) = i /\ c[i] = e
         /\ \A j \in 1..(i - 1) : c[j] = s[j]
    <3>1. <<e>> \in Seq(Entries) /\ Len(<<e>>) = 1 /\ <<e>>[1] = e /\ 1 \in 1..1
      OBVIOUS
    <3>2. PICK d : d = <<e>>
      OBVIOUS
    <3>3. /\ c \in Seq(Entries) /\ Len(c) = Len(a) + Len(d)
          /\ \A j \in 1..Len(a) : c[j] = a[j]
          /\ \A j \in 1..Len(d) : c[Len(a) + j] = d[j]
      BY <2>8, <2>10, <3>1, <3>2, JoinFacts
    <3>4. Len(d) = 1 /\ d[1] = e
      BY <3>1, <3>2
    <3>5. Len(a) + 1 = i
      BY <1>1, <2>2, <2>8
    <3>6. c[i] = e /\ Len(c) = i
      BY <3>3, <3>4, <3>5
    <3>7. QED BY <2>8, <3>3, <3>6
  <2>12. /\ r \in Seq(Entries) /\ Len(r) = Len(s) + 1
         /\ \A j \in 1..i : r[j] = c[j]
         /\ \A j \in 1..Len(b) : r[i + j] = b[j]
    <3>1. r = c \o b
      BY <2>9, <2>10
    <3>2. /\ r \in Seq(Entries) /\ Len(r) = Len(c) + Len(b)
          /\ \A j \in 1..Len(c) : r[j] = c[j]
          /\ \A j \in 1..Len(b) : r[Len(c) + j] = b[j]
      <4>1. b \in Seq(Entries) /\ c \in Seq(Entries)
        BY <2>8, <2>11
      <4>2. QED BY <3>1, <4>1, JoinFacts
    <3>3. Len(c) + Len(b) = Len(s) + 1 /\ Len(c) = i
      BY <1>1, <2>2, <2>8, <2>11
    <3>4. QED BY <3>2, <3>3
  <2>13. \A j \in i..Len(s) : r[j + 1] = s[j]
    <3> SUFFICES ASSUME NEW j \in i..Len(s) PROVE r[j + 1] = s[j]
      OBVIOUS
    <3>1. j - i + 1 \in 1..Len(b) /\ i + (j - i + 1) = j + 1
      BY <1>1, <2>2, <2>8
    <3>2. QED BY <2>8, <2>12, <3>1
  <2>14. PutIn(r, s, e, i)
    BY <1>1, <2>2, <2>11, <2>12, <2>13 DEF PutIn
  <2>15. i \in 1..(Len(s) + 1)
    BY <1>1, <2>2
  <2>16. QED BY <2>2, <2>3, <2>4, <2>12, <2>14, <2>15
<1>6. QED BY <1>4, <1>5

\* What is put in where Insert puts it keeps the order, when it is the last of the list.
LEMMA PutInOrder ==
    ASSUME NEW s \in Seq(Entries), NEW e \in Entries, NEW r \in Seq(Entries),
           NewestFirst(s), \A j \in 1..Len(s) : s[j].uid < e.uid,
           NEW i \in 1..(Len(s) + 1), PutIn(r, s, e, i),
           \A j \in 1..(i - 1) : s[j].at >= e.at,
           i <= Len(s) => s[i].at < e.at
    PROVE  NewestFirst(r)
<1>1. Len(s) \in Nat /\ \A j \in 1..Len(s) : s[j].at \in Nat /\ s[j].uid \in Nat
  BY EntryFacts
<1>2. e.at \in Nat /\ e.uid \in Nat
  BY DEF Entries
<1>3. ASSUME NEW j \in i..Len(s) PROVE s[j].at < e.at
  <2>1. i \in 1..Len(s) /\ j \in 1..Len(s) /\ s[i].at < e.at /\ (i = j \/ i < j)
    BY <1>1, <1>3
  <2>2. CASE i < j
    <3>1. s[i].at > s[j].at \/ s[i].at = s[j].at
      BY <2>1, <2>2 DEF NewestFirst
    <3>2. s[i].at \in Nat /\ s[j].at \in Nat
      BY <1>1, <2>1
    <3>3. QED BY <1>2, <2>1, <3>1, <3>2
  <2>3. QED BY <2>1, <2>2
<1>4. /\ r[i] = e
      /\ \A j \in 1..(Len(s) + 1) : j < i => j \in 1..Len(s) /\ j \in 1..(i - 1) /\ r[j] = s[j]
      /\ \A j \in 1..(Len(s) + 1) : j > i => j - 1 \in i..Len(s) /\ j - 1 \in 1..Len(s)
                                             /\ r[j] = s[j - 1]
  <2>1. ASSUME NEW j \in 1..(Len(s) + 1), j < i
        PROVE  j \in 1..Len(s) /\ j \in 1..(i - 1) /\ r[j] = s[j]
    BY <1>1, <2>1 DEF PutIn
  <2>2. ASSUME NEW j \in 1..(Len(s) + 1), j > i
        PROVE  j - 1 \in i..Len(s) /\ j - 1 \in 1..Len(s) /\ r[j] = s[j - 1]
    <3>1. j - 1 \in i..Len(s) /\ (j - 1) + 1 = j /\ j - 1 \in 1..Len(s)
      BY <1>1, <2>2
    <3>2. r[(j - 1) + 1] = s[j - 1]
      BY <3>1 DEF PutIn
    <3>3. QED BY <3>1, <3>2
  <2>3. QED BY <2>1, <2>2 DEF PutIn
<1>5. Len(r) = Len(s) + 1
  BY DEF PutIn
<1> SUFFICES ASSUME NEW j \in 1..(Len(s) + 1), NEW k \in 1..(Len(s) + 1), j < k
               PROVE  \/ r[j].at > r[k].at
                      \/ r[j].at = r[k].at /\ r[j].uid < r[k].uid
  BY <1>5 DEF NewestFirst
<1>6. CASE k = i
  <2>1. j \in 1..(i - 1) /\ j \in 1..Len(s) /\ r[j] = s[j] /\ r[k] = e
    BY <1>1, <1>4, <1>6
  <2>2. s[j].at >= e.at /\ s[j].uid < e.uid
    BY <2>1
  <2>3. PICK x, y, u, v : x = s[j].at /\ y = e.at /\ u = s[j].uid /\ v = e.uid
    OBVIOUS
  <2>4. x \in Nat /\ y \in Nat /\ x >= y /\ u < v
    BY <1>1, <1>2, <2>1, <2>2, <2>3
  <2>5. x > y \/ x = y
    BY <2>4
  <2>6. QED BY <2>1, <2>3, <2>4, <2>5, Zenon
<1>7. CASE j = i
  <2>1. k - 1 \in i..Len(s) /\ k - 1 \in 1..Len(s) /\ r[k] = s[k - 1] /\ r[j] = e
    BY <1>1, <1>4, <1>7
  <2>2. s[k - 1].at < e.at /\ s[k - 1].at \in Nat
    BY <1>1, <1>3, <2>1
  <2>3. QED BY <1>2, <2>1, <2>2
<1>8. CASE j # i /\ k # i
  <2>1. PICK x, y \in 1..Len(s) : x < y /\ r[j] = s[x] /\ r[k] = s[y]
    <3>1. CASE k < i
      BY <1>1, <1>4, <3>1
    <3>2. CASE j < i /\ k > i
      BY <1>1, <1>4, <3>2
    <3>3. CASE j > i
      <4>1. k > i /\ r[j] = s[j - 1] /\ r[k] = s[k - 1]
        BY <1>1, <1>4, <3>3
      <4>2. j - 1 \in 1..Len(s) /\ k - 1 \in 1..Len(s) /\ j - 1 < k - 1
        BY <1>1, <3>3, <4>1
      <4>3. QED BY <4>1, <4>2
    <3>4. QED BY <1>1, <1>8, <3>1, <3>2, <3>3
  <2>2. QED BY <2>1 DEF NewestFirst
<1>9. QED BY <1>6, <1>7, <1>8

\* The sort: all the entries, newest first, ties in list order.
LEMMA SortFacts ==
    ASSUME NEW ev \in Seq(Entries), \A j, k \in 1..Len(ev) : j < k => ev[j].uid < ev[k].uid
    PROVE  LET s == sortEventsDesc(ev) IN
           /\ s \in Seq(Entries) /\ Len(s) = Len(ev) /\ NewestFirst(s)
           /\ \A k \in 1..Len(ev) : \E j \in 1..Len(ev) : s[k] = ev[j]
           /\ \A j \in 1..Len(ev) : \E k \in 1..Len(ev) : s[k] = ev[j]
<1> DEFINE N == Len(ev)
           step == [i \in 1..N |-> [s \in Seq(Entries) |-> Insert(s, ev[i])]]
           Eq(f) == f = [i \in 0..N |-> IF i = 0 THEN <<>> ELSE Insert(f[i - 1], ev[i])]
<1>1. N \in Nat /\ \A i \in 1..N : ev[i] \in Entries
  <2> HIDE DEF Entries
  <2>1. QED OBVIOUS
<1>2. \E f : Eq(f)
  <2>1. step \in [1..N -> [Seq(Entries) -> Seq(Entries)]]
    <3> HIDE DEF Entries, N
    <3>1. \A i \in 1..N : \A s \in Seq(Entries) : Insert(s, ev[i]) \in Seq(Entries)
      BY <1>1, InsertFacts
    <3>2. QED BY <3>1
  <2>2. PICK f : Steps(N, Seq(Entries), <<>>, step, f)
    <3>1. <<>> \in Seq(Entries)
      OBVIOUS
    <3>2. N \in Nat
      BY <1>1
    <3> HIDE DEF step, Entries, N
    <3>3. QED BY <2>1, <3>1, <3>2, Recursion
  <2>3. \A i \in 1..N : f[i - 1] \in Seq(Entries)
    <3> HIDE DEF step, Entries
    <3>1. QED BY <1>1, <2>2 DEF Steps
  <2>4. \A i \in 1..N : step[i][f[i - 1]] = Insert(f[i - 1], ev[i])
    <3> HIDE DEF Entries
    <3>1. QED BY <2>3
  <2> DEFINE g(i) == IF i = 0 THEN <<>> ELSE Insert(f[i - 1], ev[i])
  <2>5. \A i \in 0..N : f[i] = g(i)
    <3>1. \A i \in 0..N : i = 0 \/ i \in 1..N
      BY <1>1
    <3> HIDE DEF step
    <3>2. QED BY <2>2, <2>4, <3>1 DEF Steps
  <2> HIDE DEF step, g
  <2>6. f = [i \in 0..N |-> g(i)]
    BY <2>2, <2>5 DEF Steps
  <2>7. Eq(f)
    BY <2>6 DEF g
  <2> HIDE DEF Eq
  <2>8. QED BY <2>7
<1>3. PICK f : Eq(f) /\ sortEventsDesc(ev) = f[N]
  <2> HIDE DEF N
  <2>1. sortEventsDesc(ev) = (CHOOSE f : Eq(f))[N]
    BY DEF sortEventsDesc, N
  <2>2. QED BY <1>2, <2>1, Zenon
<1> DEFINE P(n) == /\ f[n] \in Seq(Entries) /\ Len(f[n]) = n /\ NewestFirst(f[n])
                   /\ \A k \in 1..n : \E j \in 1..n : f[n][k] = ev[j]
                   /\ \A j \in 1..n : \E k \in 1..n : f[n][k] = ev[j]
           T == {n \in 0..N : P(n)}
<1>4. f[0] = <<>> /\ \A n \in 1..N : f[n] = Insert(f[n - 1], ev[n])
  <2> DEFINE g(n) == IF n = 0 THEN <<>> ELSE Insert(f[n - 1], ev[n])
  <2>1. f = [n \in 0..N |-> g(n)]
    BY <1>3
  <2>2. /\ g(0) = <<>> /\ 0 \in 0..N
        /\ \A n \in 1..N : n \in 0..N /\ g(n) = Insert(f[n - 1], ev[n])
    <3> HIDE DEF N
    <3>1. QED BY <1>1
  <2> HIDE DEF g, N
  <2>3. \A n \in 0..N : f[n] = g(n)
    BY <2>1
  <2>4. QED BY <2>2, <2>3
<1>5. P(0)
  BY <1>4 DEF NewestFirst
<1>6. ASSUME NEW n \in 1..N, P(n - 1) PROVE P(n)
  <2> DEFINE s == f[n - 1]
             r == f[n]
             e == ev[n]
  <2>1. n - 1 \in Nat /\ e \in Entries /\ r = Insert(s, e)
    BY <1>1, <1>4
  <2>2. /\ s \in Seq(Entries) /\ Len(s) = n - 1 /\ NewestFirst(s)
        /\ \A k \in 1..(n - 1) : \E j \in 1..(n - 1) : s[k] = ev[j]
        /\ \A j \in 1..(n - 1) : \E k \in 1..(n - 1) : s[k] = ev[j]
    BY <1>6
  <2> HIDE DEF P, s, r, e, Entries
  <2>3. /\ r \in Seq(Entries)
        /\ \E i \in 1..(Len(s) + 1) :
              /\ PutIn(r, s, e, i)
              /\ \A j \in 1..(i - 1) : s[j].at >= e.at
              /\ i <= Len(s) => s[i].at < e.at
    BY <2>1, <2>2, InsertFacts
  <2>4. PICK i \in 1..(Len(s) + 1) :
              /\ PutIn(r, s, e, i)
              /\ \A j \in 1..(i - 1) : s[j].at >= e.at
              /\ i <= Len(s) => s[i].at < e.at
    BY <2>3
  <2>5. \A k \in 1..Len(s) : s[k].uid < e.uid
    <3> SUFFICES ASSUME NEW k \in 1..Len(s) PROVE s[k].uid < e.uid
      OBVIOUS
    <3>1. PICK j \in 1..(n - 1) : s[k] = ev[j]
      BY <2>2
    <3>2. j \in 1..N /\ n \in 1..N /\ j < n
      BY <1>1
    <3>3. QED BY <3>1, <3>2 DEF e
  <2>6. NewestFirst(r)
    BY <2>1, <2>2, <2>3, <2>4, <2>5, PutInOrder
  <2>7. Len(r) = n /\ i \in 1..n
    BY <2>1, <2>2, <2>4 DEF PutIn
  <2>8. ASSUME NEW k \in 1..n PROVE \E j \in 1..n : r[k] = ev[j]
    <3>1. CASE k < i
      <4>1. k \in 1..(n - 1) /\ r[k] = s[k]
        <5>1. k \in 1..(n - 1) /\ k \in 1..(i - 1)
          BY <2>1, <2>7, <3>1
        <5>2. QED BY <2>4, <5>1 DEF PutIn
      <4>2. PICK j \in 1..(n - 1) : s[k] = ev[j]
        BY <2>2, <4>1
      <4>3. j \in 1..n
        BY <2>1
      <4>4. QED BY <4>1, <4>2, <4>3
    <3>2. CASE k = i
      BY <2>4, <3>2 DEF PutIn, e
    <3>3. CASE k > i
      <4>1. k - 1 \in i..Len(s) /\ (k - 1) + 1 = k /\ k - 1 \in 1..(n - 1)
        BY <2>1, <2>2, <2>7, <3>3
      <4>2. r[(k - 1) + 1] = s[k - 1]
        BY <2>4, <4>1 DEF PutIn
      <4>3. PICK j \in 1..(n - 1) : s[k - 1] = ev[j]
        BY <2>2, <4>1
      <4>4. j \in 1..n
        BY <2>1
      <4>5. QED BY <4>1, <4>2, <4>3, <4>4
    <3>4. QED BY <2>7, <3>1, <3>2, <3>3
  <2>9. ASSUME NEW j \in 1..n PROVE \E k \in 1..n : r[k] = ev[j]
    <3>1. CASE j = n
      BY <2>4, <2>7, <3>1 DEF PutIn, e
    <3>2. CASE j # n
      <4>1. j \in 1..(n - 1)
        BY <2>1, <3>2
      <4>2. PICK k \in 1..(n - 1) : s[k] = ev[j]
        BY <2>2, <4>1
      <4>3. CASE k < i
        <5>1. k \in 1..n /\ r[k] = s[k]
          <6>1. k \in 1..n /\ k \in 1..(i - 1)
            BY <2>1, <2>7, <4>3
          <6>2. QED BY <2>4, <6>1 DEF PutIn
        <5>2. QED BY <4>2, <5>1
      <4>4. CASE k >= i
        <5>1. k + 1 \in 1..n /\ k \in i..Len(s)
          <6>1. Len(s) = n - 1
            BY <2>2
          <6>2. QED BY <2>7, <4>4, <6>1
        <5>2. r[k + 1] = s[k]
          BY <2>4, <5>1 DEF PutIn
        <5>3. QED BY <4>2, <5>1, <5>2
      <4>5. QED BY <2>7, <4>3, <4>4
    <3>3. QED BY <3>1, <3>2
  <2>10. QED BY <2>3, <2>6, <2>7, <2>8, <2>9 DEF P, r
<1>7. P(N)
  <2> HIDE DEF P
  <2>1. 0 \in T /\ \A n \in 1..N : n - 1 \in T => n \in T
    BY <1>1, <1>5, <1>6
  <2>2. N \in Nat /\ N \in 0..N
    BY <1>1
  <2>3. \A i \in 0..N : i \in T
    <3> HIDE DEF T, N
    <3>1. QED BY <2>1, <2>2, Upto
  <2>4. QED BY <2>2, <2>3
<1>8. QED BY <1>3, <1>7

-----------------------------------------------------------------------------
(* The feed. *)

EventsOf(log, q) ==
    LET items == Selection(log, q)
    IN  [i \in DOMAIN items |-> eventFromItem(items[i])]

\* What FeedIsNewest says of a list, a query and a feed.
Newest(log, q, feed) ==
    LET of == {i \in DOMAIN log : Selected(log[i], q)}
        at(i) == eventFromItem(log[i]).at
        shown == {i \in of : \E j \in DOMAIN feed : feed[j].uid = log[i].uid}
    IN  /\ Len(feed) = Cardinality(shown)
        /\ Len(feed) = limit(q) \/ shown = of
        /\ \A i \in shown, j \in of \ shown : at(i) >= at(j)
        /\ \A i, j \in DOMAIN feed : i < j =>
              \/ feed[i].at > feed[j].at
              \/ feed[i].at = feed[j].at /\ feed[i].uid < feed[j].uid

\* The answer to a query about a list is the newest of its selected events.
LEMMA FeedFacts ==
    ASSUME NEW log \in EventLists, NEW q \in Queries
    PROVE  Newest(log, q, Feed(EventsOf(log, q), limit(q)))
<1> DEFINE items == Selection(log, q)
           ev == [i \in DOMAIN items |-> eventFromItem(items[i])]
           s == sortEventsDesc(ev)
           feed == Feed(ev, limit(q))
           of == {i \in DOMAIN log : Selected(log[i], q)}
           at(i) == eventFromItem(log[i]).at
           shown == {i \in of : \E j \in DOMAIN feed : feed[j].uid = log[i].uid}
           n == IF Len(s) > limit(q) THEN limit(q) ELSE Len(s)
<1>1. /\ log \in Seq(Items) /\ Len(log) \in Nat /\ DOMAIN log = 1..Len(log)
      /\ \A i \in 1..Len(log) : log[i] \in Items /\ log[i].uid = i
  <2>1. log \in Seq(Items) /\ \A i \in DOMAIN log : log[i].uid = i
    BY EventsAssumption DEF Items
  <2> HIDE DEF Items
  <2>2. QED BY <2>1
<1>2. \A e \in Items : eventFromItem(e) \in Entries /\ eventFromItem(e).uid = e.uid
  BY DEF Items, Entries, eventFromItem
<1>3. /\ items \in Seq(Items) /\ Len(items) \in Nat /\ DOMAIN items = 1..Len(items)
      /\ \A j \in 1..Len(items) : items[j] \in Items
      /\ \A j \in 1..Len(items) : /\ items[j].uid \in 1..Len(log) /\ items[j] = log[items[j].uid]
                                  /\ Selected(items[j], q)
      /\ \A j, k \in 1..Len(items) : j < k => items[j].uid < items[k].uid
      /\ \A i \in 1..Len(log) : Selected(log[i], q) => \E j \in 1..Len(items) : items[j] = log[i]
  <2> HIDE DEF Items
  <2>1. items \in Seq(Items)
    BY SelectionFacts
  <2>2. QED BY <2>1, SelectionFacts
<1> HIDE DEF items
<1>4. /\ ev \in Seq(Entries) /\ Len(ev) = Len(items)
      /\ \A j \in 1..Len(items) : ev[j] = eventFromItem(items[j])
  <2> HIDE DEF Items, Entries
  <2>1. \A j \in 1..Len(items) : ev[j] = eventFromItem(items[j]) /\ ev[j] \in Entries
    BY <1>2, <1>3
  <2>2. ev = [j \in 1..Len(items) |-> ev[j]]
    BY <1>3
  <2> HIDE DEF ev
  <2>3. ev \in Seq(Entries) /\ Len(ev) = Len(items)
    BY <1>3, <2>1, <2>2
  <2>4. QED BY <2>1, <2>3
<1>5. \A j, k \in 1..Len(ev) : j < k => ev[j].uid < ev[k].uid
  <2> HIDE DEF ev
  <2>1. QED BY <1>2, <1>3, <1>4
<1> HIDE DEF ev
<1>6. /\ s \in Seq(Entries) /\ Len(s) = Len(ev) /\ NewestFirst(s)
      /\ \A k \in 1..Len(ev) : \E j \in 1..Len(ev) : s[k] = ev[j]
      /\ \A j \in 1..Len(ev) : \E k \in 1..Len(ev) : s[k] = ev[j]
  BY <1>4, <1>5, SortFacts
<1>7. limit(q) \in Nat \ {0}
  BY ReadsAssumption DEF limit
<1>8. feed = SubSeq(s, 1, n)
  BY DEF Feed, Truncate
<1>9. n \in 0..Len(s) /\ Len(s) \in Nat /\ (n = limit(q) \/ n = Len(s))
  <2> HIDE DEF s
  <2>1. Len(s) \in Nat
    BY <1>6, EntryFacts
  <2>2. QED BY <1>7, <2>1
<1> HIDE DEF s, n
<1>10. feed \in Seq(Entries) /\ Len(feed) = n /\ DOMAIN feed = 1..n
       /\ \A j \in 1..n : feed[j] = s[j]
  <2> HIDE DEF feed
  <2>1. s \in Seq(Entries)
    BY <1>6
  <2>2. feed \in Seq(Entries) /\ Len(feed) = n
    BY <1>8, <1>9, <2>1
  <2>3. \A j \in 1..n : feed[j] = s[j]
    BY <1>8, <1>9, <2>1
  <2>4. QED BY <2>2, <2>3
<1> HIDE DEF feed
<1>ordered. \A j, k \in 1..Len(s) : j < k =>
             \/ s[j].at > s[k].at
             \/ s[j].at = s[k].at /\ s[j].uid < s[k].uid
  BY <1>6 DEF NewestFirst
\* Where the entries come from.
<1>11. \A k \in 1..Len(s) : s[k].uid \in of /\ s[k].at = at(s[k].uid)
  <2> SUFFICES ASSUME NEW k \in 1..Len(s) PROVE s[k].uid \in of /\ s[k].at = at(s[k].uid)
    OBVIOUS
  <2>1. PICK j \in 1..Len(items) : s[k] = eventFromItem(items[j])
    BY <1>4, <1>6
  <2>2. s[k].uid = items[j].uid /\ items[j].uid \in DOMAIN log
        /\ items[j] = log[items[j].uid] /\ Selected(items[j], q)
    BY <1>1, <1>2, <1>3, <2>1
  <2>3. QED BY <2>1, <2>2
<1>12. \A i \in of : \E k \in 1..Len(s) : s[k].uid = i
  <2> SUFFICES ASSUME NEW i \in of PROVE \E k \in 1..Len(s) : s[k].uid = i
    OBVIOUS
  <2>1. PICK j \in 1..Len(items) : items[j] = log[i]
    BY <1>1, <1>3
  <2>2. PICK k \in 1..Len(s) : s[k] = ev[j]
    BY <1>4, <1>6, <2>1
  <2>3. log[i] \in Items /\ log[i].uid = i
    BY <1>1
  <2>4. s[k].uid = i
    BY <1>2, <1>4, <2>1, <2>2, <2>3
  <2>5. QED BY <2>4
<1>13. \A k \in 1..Len(s) : s[k].at \in Nat /\ s[k].uid \in Nat
  BY <1>6, EntryFacts
<1>14. \A j, k \in 1..Len(s) : s[j].uid = s[k].uid => j = k
  <2> SUFFICES ASSUME NEW j \in 1..Len(s), NEW k \in 1..Len(s), s[j].uid = s[k].uid, j < k PROVE FALSE
    BY <1>9
  <2>1. s[j].at = s[k].at
    BY <1>11
  <2>2. QED BY <1>ordered, <1>13, <2>1
<1>15. \A i : i \in shown <=> i \in of /\ \E j \in 1..n : s[j].uid = i
  BY <1>1, <1>10
<1> HIDE DEF shown, of, at
<1>16. Len(feed) = Cardinality(shown)
  <2> DEFINE h == [j \in 1..n |-> s[j].uid]
  <2>1. \A j \in 1..n : j \in 1..Len(s)
    BY <1>9
  <2>2. \A j \in 1..n : h[j] \in shown
    BY <1>11, <1>15, <2>1
  <2>3. \A i \in shown : \E j \in 1..n : h[j] = i
    BY <1>15
  <2>4. \A j, k \in 1..n : h[j] = h[k] => j = k
    BY <1>14, <2>1
  <2>5. h \in Bijection(1..n, shown)
    BY <2>2, <2>3, <2>4 DEF Bijection, Injection, Surjection, IsInjective
  <2>6. ExistsBijection(1..n, shown)
    BY <2>5 DEF ExistsBijection
  <2>7. IsFiniteSet(1..n) /\ Cardinality(1..n) = n
    BY <1>9, FS_Interval
  <2>8. QED BY <1>10, <2>6, <2>7, FS_Bijection
<1>17. Len(feed) = limit(q) \/ shown = of
  <2>1. CASE n = Len(s)
    BY <1>12, <1>15, <2>1
  <2>2. CASE n = limit(q)
    BY <1>10, <2>2
  <2>3. QED BY <1>9, <2>1, <2>2
<1>18. \A i \in shown, j \in of \ shown : at(i) >= at(j)
  <2> SUFFICES ASSUME NEW i \in shown, NEW j \in of \ shown PROVE at(i) >= at(j)
    OBVIOUS
  <2>1. PICK k \in 1..n : s[k].uid = i
    BY <1>15
  <2>2. PICK m \in 1..Len(s) : s[m].uid = j
    BY <1>12
  <2>3. m \notin 1..n
    BY <1>15, <2>2
  <2>4. k \in 1..Len(s) /\ k < m
    BY <1>9, <2>3
  <2>5. s[k].at >= s[m].at
    BY <1>ordered, <1>13, <2>4
  <2>6. s[k].at = at(i) /\ s[m].at = at(j)
    BY <1>11, <2>1, <2>2, <2>4
  <2>7. QED BY <2>5, <2>6
<1>19. \A i, j \in DOMAIN feed : i < j =>
          \/ feed[i].at > feed[j].at
          \/ feed[i].at = feed[j].at /\ feed[i].uid < feed[j].uid
  <2>1. \A j \in 1..n : j \in 1..Len(s)
    BY <1>9
  <2>2. QED BY <1>ordered, <1>10, <2>1
<1>20. QED BY <1>16, <1>17, <1>18, <1>19
  DEF Newest, EventsOf, shown, of, at, feed, ev, items

-----------------------------------------------------------------------------
(* The calls. *)

\* An answered feed is that of a list and of the query that was asked.
Fed ==
    /\ pc = "events" => query \in Queries
    /\ pc = "done" /\ "events" \in DOMAIN answer =>
          /\ query \in Queries /\ answer.log \in EventLists
          /\ answer.events = Feed(EventsOf(answer.log, query), limit(query))

\* Only LoadEvents answers with events, and nothing changes the query before.
LEMMA StepFed == Fed /\ [Next]_vars => Fed'
<1> SUFFICES ASSUME Fed, [Next]_vars PROVE Fed'
  OBVIOUS
<1>1. ASSUME UNCHANGED <<pc, query, answer>> PROVE Fed'
  BY <1>1 DEF Fed
<1>2. ASSUME pc' = "done", "events" \notin DOMAIN answer' PROVE Fed'
  BY <1>2 DEF Fed
<1>3. ASSUME NEW cluster, AskSnapshot(cluster) PROVE Fed'
  <2>1. CASE cluster = Own
    BY <1>3, <2>1 DEF AskSnapshot, Fed
  <2>2. CASE cluster # Own
    BY <1>2, <1>3, <2>2 DEF AskSnapshot, Reply
  <2>3. QED BY <2>1, <2>2
<1>4. ASSUME NEW q \in Queries, AskEvents(q) PROVE Fed'
  <2>1. \/ pc' = "events" /\ query' = q
        \/ Reply([status |-> 400])
        \/ Reply([status |-> 404])
    BY <1>4 DEF AskEvents
  <2>2. QED BY <1>2, <2>1 DEF Reply, Fed
<1>5. ASSUME NEW l, Goroutine(l) PROVE Fed'
  BY <1>1, <1>5 DEF Goroutine, Fetched, FetchFailed, SendErr
<1>6. CASE LoadSnapshot
  BY <1>2, <1>6 DEF LoadSnapshot, Reply
<1>7. CASE LoadEvents
  <2>1. PICK log \in EventLists :
          Reply([status |-> 200, log |-> log, events |-> Feed(EventsOf(log, query), limit(query))])
    BY <1>7 DEF LoadEvents, EventsOf
  <2>2. answer'.log = log /\ answer'.events = Feed(EventsOf(log, query), limit(query))
    BY <2>1 DEF Reply
  <2>3. query \in Queries /\ query' = query /\ pc' = "done"
    BY <1>7, <2>1 DEF LoadEvents, Reply, Fed
  <2>4. QED BY <2>2, <2>3 DEF Fed, EventsOf, limit
<1>8. CASE LoadEventsFailed
  BY <1>2, <1>8 DEF LoadEventsFailed, Reply
<1>9. CASE NextCall
  BY <1>9 DEF NextCall, Fed
<1>10. CASE Advance \/ UNCHANGED vars
  BY <1>1, <1>10 DEF Advance, vars
<1>11. QED BY <1>3, <1>4, <1>5, <1>6, <1>7, <1>8, <1>9, <1>10 DEF Next, Handler

\* Such a feed is the newest.
LEMMA FedImpliesNewest == Fed => FeedIsNewest
<1> SUFFICES ASSUME Fed, pc = "done", "events" \in DOMAIN answer PROVE FeedIsNewest
  BY DEF FeedIsNewest
<1>1. query \in Queries /\ answer.log \in EventLists
  BY DEF Fed
<1>2. answer.events = Feed(EventsOf(answer.log, query), limit(query))
  BY DEF Fed
<1>3. Newest(answer.log, query, answer.events)
  BY <1>1, <1>2, FeedFacts
<1>4. QED BY <1>3 DEF Newest, FeedIsNewest

\* FeedIsNewest for every list of the API server, every query and limit: the
\* insertion sort of backend.go, then the truncation, give the newest events of
\* the object, newest first and ties in list order.
THEOREM FeedIsNewestHolds == Spec => []FeedIsNewest
<1>1. Init => Fed
  BY DEF Init, Fed
<1>2. Spec => []Fed
  BY <1>1, StepFed, PTL DEF Spec
<1>3. QED BY <1>2, FedImpliesNewest, PTL
=============================================================================
