------------------------------- MODULE Drain -------------------------------
(***************************************************************************)
(* Node drains of the gateway's Kubernetes backend: the job registry       *)
(* behind drainMu, the goroutine that runs a job (runDrain), the eviction  *)
(* workers and the poller it starts (evictAll, awaitPodsGone), and as much *)
(* of the cluster as they touch.                                           *)
(*                                                                         *)
(* What a goroutine does between two API calls or channel operations is    *)
(* one action.  An API call and its effect are one action; a call that     *)
(* fails has taken effect, never will, or does so later.  DrainStatus, and *)
(* a StartDrain that finds an unfinished job, change nothing.              *)
(***************************************************************************)
EXTENDS Integers, FiniteSets

CONSTANTS
    Nodes,          \* node names
    JobIds,         \* drain job ids (128 random bits: never reused)
    Names,          \* pod keys, namespace/name
    Attrs,          \* what classifyPod reads of each pod
    InitNode,       \* the node each pod starts on
    Workers,        \* drainWorkers
    RetentionTime,  \* drainJobRetention
    MaxTime,        \* bound on the clock
    MaxUid,         \* bound on how often a pod is replaced
    NoJob, NoPod, NoNode

PodAttrs == [mirror : BOOLEAN, daemonSet : BOOLEAN, controller : BOOLEAN,
             phase : {"running", "succeeded", "failed"}]

ASSUME DrainAssumption ==
    /\ IsFiniteSet(Names)
    /\ Attrs \in [Names -> PodAttrs]
    /\ InitNode \in [Names -> Nodes]
    /\ Workers \in Nat \ {0} /\ RetentionTime \in Nat
    /\ MaxTime \in Nat /\ MaxUid \in Nat
    /\ NoNode \notin Nodes

VARIABLES
    clock,      \* b.now()
    jobs,       \* b.drainJobs
    dr,         \* the goroutines of each job
    pods,       \* the pods of the cluster
    cordoned,   \* nodes marked unschedulable
    lastUid,    \* the newest uid given to a pod of each name
    late,       \* evictions given up on that can still take effect
    (* History. *)
    started,    \* job ids ever given out
    hits        \* evictions that took effect

vars == <<clock, jobs, dr, pods, cordoned, lastUid, late, started, hits>>
cluster == <<pods, cordoned, lastUid, late, hits>>

\* podRef: a pod key and the uid that tells a pod from its replacement.
Ref == [name : Names, uid : Nat]

Pod == [uid : Nat, node : Nodes, terminating : BOOLEAN]

Job == [node : Nodes, phase : {"pending", "running", "succeeded", "failed"},
        evicted : SUBSET Ref, skipped : SUBSET Names, remaining : Nat, updatedAt : Nat]

ASSUME NoJobAssumption == NoJob \notin Job /\ NoPod \notin Pod

\* One job's goroutines.  evictable .. inflight: the main goroutine and the
\* eviction workers; accepted, closed: the channel; poller .. pending: the
\* poller; expired: the deadline has passed; failed: failOnce has fired.
Goroutines ==
    [pc : {"none", "start", "cordon", "list", "evicting", "done"},
     node : Nodes \cup {NoNode}, unmanaged : BOOLEAN,
     evictable : SUBSET Ref, queue : SUBSET Ref, inflight : SUBSET Ref,
     accepted : SUBSET Ref, closed : BOOLEAN,
     poller : {"none", "open", "drained", "done"}, pending : SUBSET Ref,
     expired : BOOLEAN, failed : BOOLEAN]

NoGoroutines ==
    [pc |-> "none", node |-> NoNode, unmanaged |-> FALSE, evictable |-> {}, queue |-> {},
     inflight |-> {}, accepted |-> {}, closed |-> FALSE, poller |-> "none",
     pending |-> {}, expired |-> FALSE, failed |-> FALSE]

Late == [job : JobIds, name : Names]

Hit == [job : JobIds, name : Names, uid : Nat]

TypeOK ==
    /\ clock \in Nat
    /\ jobs \in [JobIds -> Job \cup {NoJob}]
    /\ dr \in [JobIds -> Goroutines]
    /\ pods \in [Names -> Pod \cup {NoPod}]
    /\ cordoned \subseteq Nodes
    /\ lastUid \in [Names -> Nat]
    /\ late \subseteq Late
    /\ started \subseteq JobIds
    /\ hits \subseteq Hit

Init ==
    /\ clock = 0
    /\ jobs = [j \in JobIds |-> NoJob]
    /\ dr = [j \in JobIds |-> NoGoroutines]
    /\ pods = [n \in Names |-> [uid |-> 0, node |-> InitNode[n], terminating |-> FALSE]]
    /\ cordoned = {}
    /\ lastUid = [n \in Names |-> 0]
    /\ late = {}
    /\ started = {}
    /\ hits = {}

-----------------------------------------------------------------------------
(* Pods. *)

classifyPod(p) ==
    IF p.mirror \/ p.daemonSet \/ p.phase # "running" THEN "skip"
    ELSE IF p.controller THEN "evict" ELSE "block"

On(nd) == {n \in Names : pods[n] # NoPod /\ pods[n].node = nd}

OnClass(nd, c) == {n \in On(nd) : classifyPod(Attrs[n]) = c}

RefOf(n) == [name |-> n, uid |-> pods[n].uid]

\* listNodePods, as podRefs.
listNodePods(nd) == {RefOf(n) : n \in On(nd)}

\* The pod itself, not a replacement of the same name, is still in the cluster.
Present(r) == pods[r.name] # NoPod /\ pods[r.name].uid = r.uid

\* The eviction subresource takes a name: whatever pod bears it is evicted.
EvictionTakesEffect(j, n) ==
    /\ pods[n] # NoPod
    /\ pods' = [pods EXCEPT ![n].terminating = TRUE]
    /\ hits' = hits \cup {[job |-> j, name |-> n, uid |-> pods[n].uid]}

-----------------------------------------------------------------------------
(* The registry. *)

drainFinished(job) == job.phase \in {"succeeded", "failed"}

Unfinished(nd) == {j \in JobIds : jobs[j] # NoJob /\ jobs[j].node = nd /\ ~drainFinished(jobs[j])}

Prunable(job) == drainFinished(job) /\ job.updatedAt < clock - RetentionTime

pruneDrainJobs ==
    [j \in JobIds |-> IF jobs[j] # NoJob /\ Prunable(jobs[j]) THEN NoJob ELSE jobs[j]]

MayStart_Twice(nd) == \A j \in Unfinished(nd) : jobs[j].phase = "running"
MayStart(nd) == Unfinished(nd) = {}

StartDrain(nd, j) ==
    /\ MayStart(nd)
    /\ j \notin started
    /\ jobs' = [pruneDrainJobs EXCEPT ![j] =
                  [node |-> nd, phase |-> "pending", evicted |-> {}, skipped |-> {},
                   remaining |-> 0, updatedAt |-> clock]]
    /\ dr' = [dr EXCEPT ![j] = [NoGoroutines EXCEPT !.pc = "start", !.node = nd]]
    /\ started' = started \cup {j}
    /\ UNCHANGED <<clock, cluster>>

\* update: nothing happens if the job is gone from the registry.
update(j, job) ==
    jobs' = IF jobs[j] = NoJob THEN jobs
            ELSE [jobs EXCEPT ![j] = [job EXCEPT !.updatedAt = clock]]

failDrain(j) == update(j, [jobs[j] EXCEPT !.phase = "failed"])

Fail(j) ==
    /\ failDrain(j)
    /\ dr' = [dr EXCEPT ![j].pc = "done"]

-----------------------------------------------------------------------------
(* runDrain. *)

\* ctx inside evictAll: the deadline, or the first failure's cancel.
CtxDone(j) == dr[j].expired \/ dr[j].failed

Expire(j) ==
    /\ dr[j].pc \in {"start", "cordon", "list", "evicting"}
    /\ ~dr[j].expired
    /\ dr' = [dr EXCEPT ![j].expired = TRUE]
    /\ UNCHANGED <<clock, jobs, cluster, started>>

RunStart(j) ==
    /\ dr[j].pc = "start"
    /\ update(j, [jobs[j] EXCEPT !.phase = "running"])
    /\ dr' = [dr EXCEPT ![j].pc = "cordon"]
    /\ UNCHANGED <<clock, cluster, started>>

RunCordon(j) ==
    /\ dr[j].pc = "cordon"
    /\ \/ /\ ~dr[j].expired
          /\ cordoned' = cordoned \cup {dr[j].node}
          /\ dr' = [dr EXCEPT ![j].pc = "list"]
          /\ UNCHANGED jobs
       \/ /\ cordoned' \in {cordoned, cordoned \cup {dr[j].node}}
          /\ Fail(j)
    /\ UNCHANGED <<clock, pods, lastUid, late, hits, started>>

RunListFailed(j) ==
    /\ dr[j].pc = "list"
    /\ Fail(j)
    /\ UNCHANGED <<clock, cluster, started>>

Refused_Never(j) == FALSE
Refused(j) == OnClass(dr[j].node, "block") # {}

\* The pods are listed and classified; an unmanaged pod fails the job before any
\* eviction, otherwise evictAll starts its workers and its poller.
RunList(j) ==
    LET nd   == dr[j].node
        refs == {RefOf(n) : n \in OnClass(nd, "evict")}
        job  == [jobs[j] EXCEPT !.skipped = OnClass(nd, "skip")] IN
    /\ dr[j].pc = "list"
    /\ ~dr[j].expired
    /\ IF Refused(j)
       THEN /\ update(j, [job EXCEPT !.phase = "failed"])
            /\ dr' = [dr EXCEPT ![j].pc = "done", ![j].unmanaged = TRUE]
       ELSE /\ update(j, [job EXCEPT !.remaining = Cardinality(refs)])
            /\ dr' = [dr EXCEPT ![j].pc = "evicting", ![j].poller = "open",
                                ![j].unmanaged = OnClass(nd, "block") # {},
                                ![j].evictable = refs, ![j].queue = refs]
    /\ UNCHANGED <<clock, cluster, started>>

-----------------------------------------------------------------------------
(* The eviction workers. *)

\* A free worker takes a pod off the queue; once ctx is done it only empties it.
WorkerTake(j, r) ==
    /\ dr[j].pc = "evicting"
    /\ r \in dr[j].queue
    /\ Cardinality(dr[j].inflight) < Workers
    /\ IF CtxDone(j)
       THEN dr' = [dr EXCEPT ![j].queue = @ \ {r}, ![j].failed = TRUE]
       ELSE dr' = [dr EXCEPT ![j].queue = @ \ {r}, ![j].inflight = @ \cup {r}]
    /\ UNCHANGED <<clock, jobs, cluster, started>>

\* evictPod returns nil: the eviction was accepted, or no pod has the name any
\* more (404, 410).  A 429 keeps the worker here, backing off.
WorkerEvicted(j, r) ==
    /\ r \in dr[j].inflight
    /\ ~CtxDone(j)
    /\ \/ EvictionTakesEffect(j, r.name)
       \/ pods[r.name] = NoPod /\ UNCHANGED <<pods, hits>>
    /\ dr' = [dr EXCEPT ![j].inflight = @ \ {r}, ![j].accepted = @ \cup {r}]
    /\ UNCHANGED <<clock, jobs, cordoned, lastUid, late, started>>

\* evictPod returns an error: another status, a transport error, or ctx is done.
\* A POST that timed out may be carried out later, or never.
WorkerFailed(j, r) ==
    /\ r \in dr[j].inflight
    /\ \/ EvictionTakesEffect(j, r.name) /\ late' = late
       \/ late' = late \cup {[job |-> j, name |-> r.name]} /\ UNCHANGED <<pods, hits>>
    /\ dr' = [dr EXCEPT ![j].inflight = @ \ {r}, ![j].failed = TRUE]
    /\ UNCHANGED <<clock, jobs, cordoned, lastUid, started>>

WorkersDone_NoWait(j) == dr[j].queue = {}
WorkersDone_Unbuffered(j) == dr[j].queue \cup dr[j].inflight \cup dr[j].accepted = {}
WorkersDone(j) == dr[j].queue = {} /\ dr[j].inflight = {}

\* wg.Wait returns: close(accepted).
CloseAccepted(j) ==
    /\ dr[j].pc = "evicting"
    /\ WorkersDone(j)
    /\ ~dr[j].closed
    /\ dr' = [dr EXCEPT ![j].closed = TRUE]
    /\ UNCHANGED <<clock, jobs, cluster, started>>

-----------------------------------------------------------------------------
(* The poller, awaitPodsGone. *)

Polling(j) == dr[j].poller = "open" \/ (dr[j].poller = "drained" /\ dr[j].pending # {})

PollReceive(j, r) ==
    /\ dr[j].poller = "open"
    /\ r \in dr[j].accepted
    /\ dr' = [dr EXCEPT ![j].accepted = @ \ {r}, ![j].pending = @ \cup {r}]
    /\ UNCHANGED <<clock, jobs, cluster, started>>

PollClosed(j) ==
    /\ dr[j].poller = "open"
    /\ dr[j].closed /\ dr[j].accepted = {}
    /\ dr' = [dr EXCEPT ![j].poller = "drained"]
    /\ UNCHANGED <<clock, jobs, cluster, started>>

\* A list error, or ctx is done.
PollFailed(j) ==
    /\ Polling(j)
    /\ CtxDone(j) \/ dr[j].pending # {}
    /\ dr' = [dr EXCEPT ![j].poller = "done", ![j].failed = TRUE]
    /\ UNCHANGED <<clock, jobs, cluster, started>>

Gone_Terminating(j) ==
    {r \in dr[j].pending : Present(r) => pods[r.name].terminating}
Gone(j) == dr[j].pending \ listNodePods(dr[j].node)

AtLeastZero(n) == IF n < 0 THEN 0 ELSE n

RemainingAfter_One(n, gone) == AtLeastZero(n - 1)
RemainingAfter(n, gone) == AtLeastZero(n - Cardinality(gone))

PollTick(j) ==
    /\ Polling(j)
    /\ ~CtxDone(j)
    /\ Gone(j) # {}
    /\ dr' = [dr EXCEPT ![j].pending = @ \ Gone(j)]
    /\ update(j, [jobs[j] EXCEPT !.evicted = @ \cup Gone(j),
                                 !.remaining = RemainingAfter(@, Gone(j))])
    /\ UNCHANGED <<clock, cluster, started>>

PollExit(j) ==
    /\ dr[j].poller = "drained" /\ dr[j].pending = {}
    /\ dr' = [dr EXCEPT ![j].poller = "done"]
    /\ UNCHANGED <<clock, jobs, cluster, started>>

EvictAllReturns_NoPoll(j) == dr[j].closed
EvictAllReturns(j) == dr[j].closed /\ dr[j].poller = "done"

\* evictAll returns firstErr, and runDrain records the outcome.
RunFinish(j) ==
    /\ dr[j].pc = "evicting"
    /\ EvictAllReturns(j)
    /\ IF dr[j].failed
       THEN Fail(j)
       ELSE /\ update(j, [jobs[j] EXCEPT !.phase = "succeeded", !.remaining = 0])
            /\ dr' = [dr EXCEPT ![j].pc = "done"]
    /\ UNCHANGED <<clock, cluster, started>>

-----------------------------------------------------------------------------
(* The rest of the world. *)

Tick ==
    /\ clock < MaxTime
    /\ clock' = clock + 1
    /\ UNCHANGED <<jobs, dr, cluster, started>>

\* The gateway restarts: the registry and every goroutine are lost, the evictions
\* they had sent are not.
Restart ==
    /\ jobs' = [j \in JobIds |-> NoJob]
    /\ dr' = [j \in JobIds |-> NoGoroutines]
    /\ late' = late \cup {l \in Late : \E r \in dr[l.job].inflight : r.name = l.name}
    /\ UNCHANGED <<clock, pods, cordoned, lastUid, started, hits>>

\* The API server carries out an eviction whose sender has given up.
LateEviction(l) ==
    /\ EvictionTakesEffect(l.job, l.name)
    /\ late' = late \ {l}
    /\ UNCHANGED <<clock, jobs, dr, cordoned, lastUid, started>>

\* A pod goes: it was evicted, or somebody else deleted it.
PodGone(n) ==
    /\ pods[n] # NoPod
    /\ pods' = [pods EXCEPT ![n] = NoPod]
    /\ UNCHANGED <<clock, jobs, dr, cordoned, lastUid, late, started, hits>>

\* Its controller recreates it under the same name (a StatefulSet) on a
\* schedulable node.
PodRecreated(n, nd) ==
    /\ pods[n] = NoPod
    /\ Attrs[n].controller
    /\ nd \notin cordoned
    /\ lastUid[n] < MaxUid
    /\ lastUid' = [lastUid EXCEPT ![n] = @ + 1]
    /\ pods' = [pods EXCEPT ![n] = [uid |-> lastUid[n] + 1, node |-> nd, terminating |-> FALSE]]
    /\ UNCHANGED <<clock, jobs, dr, cordoned, late, started, hits>>

\* Somebody else cordons or uncordons a node, or a cordon that was given up on is
\* carried out.
SetCordon(nd) ==
    /\ cordoned' \in {cordoned \ {nd}, cordoned \cup {nd}}
    /\ UNCHANGED <<clock, jobs, dr, pods, lastUid, late, started, hits>>

-----------------------------------------------------------------------------
\* Steps the code takes by itself, in bounded time.
OwnStep(j) ==
    \/ Expire(j) \/ RunStart(j) \/ RunCordon(j) \/ RunList(j) \/ RunListFailed(j)
    \/ \E r \in dr[j].queue : WorkerTake(j, r)
    \/ CtxDone(j) /\ \E r \in dr[j].inflight : WorkerFailed(j, r)
    \/ CloseAccepted(j)
    \/ \E r \in dr[j].accepted : PollReceive(j, r)
    \/ PollClosed(j) \/ PollFailed(j) \/ PollExit(j)
    \/ RunFinish(j)

\* Steps that wait for the cluster: a PodDisruptionBudget can hold an eviction,
\* and a pod can take any time to terminate.
ClusterStep(j) ==
    \/ \E r \in dr[j].inflight : WorkerEvicted(j, r) \/ WorkerFailed(j, r)
    \/ PollTick(j)

World ==
    \/ Tick \/ Restart
    \/ \E n \in Names : PodGone(n)
    \/ \E n \in Names, nd \in Nodes : PodRecreated(n, nd)
    \/ \E nd \in Nodes : SetCordon(nd)
    \/ \E l \in late : LateEviction(l)

Next ==
    \/ \E nd \in Nodes, j \in JobIds : StartDrain(nd, j)
    \/ \E j \in JobIds : OwnStep(j) \/ ClusterStep(j)
    \/ World

Spec == Init /\ [][Next]_vars

\* Goroutines run, API calls other than evictions return (RestClient's 30 s
\* timeout), and the drain's deadline fires.
FairSpec == Spec /\ \A j \in JobIds : WF_vars(OwnStep(j))

-----------------------------------------------------------------------------
(* Properties. *)

Active(j) == dr[j].pc \in {"start", "cordon", "list", "evicting"}

\* At most one drain works on a node, whatever mix of StartDrain calls, finishes,
\* prunes and restarts.
OneDrainPerNode ==
    \A i, j \in JobIds : Active(i) /\ Active(j) /\ dr[i].node = dr[j].node => i = j

\* A drain reported as succeeded moved every pod it found evictable: each is
\* recorded and none is left in the cluster.
SucceededMeansGone ==
    \A j \in JobIds : jobs[j] # NoJob /\ jobs[j].phase = "succeeded" =>
        /\ jobs[j].evicted = dr[j].evictable
        /\ \A r \in dr[j].evictable : ~Present(r)

\* A pod is recorded as evicted only when it is gone for good, also when a pod of
\* the same name has taken its place.
RecordedIsGone ==
    \A j \in JobIds : jobs[j] # NoJob => \A r \in jobs[j].evicted : ~Present(r)

\* Remaining counts down exactly the pods not yet recorded, through concurrent
\* evictions, and the clamp at zero never hides a miscount.
RemainingIsExact ==
    \A j \in JobIds : dr[j].pc = "evicting" =>
        /\ jobs[j].evicted \subseteq dr[j].evictable
        /\ jobs[j].remaining = Cardinality(dr[j].evictable \ jobs[j].evicted)

\* When a drain has an outcome all of its goroutines are gone: no eviction is sent
\* and no pod recorded for a job a client has seen finish.  (One that was sent
\* before and timed out may still take effect.)
NoStragglers ==
    \A j \in JobIds : dr[j].pc = "done" =>
        dr[j].inflight = {} /\ dr[j].poller \in {"none", "done"}

\* A pod nothing would recreate, a mirror pod and a DaemonSet pod are never
\* evicted; and a job that met an unmanaged pod evicts nothing at all.
SparesUnmanaged ==
    \A e \in hits : classifyPod(Attrs[e.name]) = "evict" /\ ~dr[e.job].unmanaged

\* Every drain ends, although an eviction may be refused (429) for ever.
DrainEnds ==
    \A j \in JobIds : Active(j) ~> ~Active(j)

\* "enumerate pods, then evict the non-skipped ones", says runDrain's comment:
\* what a drain evicts is a pod it enumerated.
EvictsWhatItListed ==
    \A e \in hits : Active(e.job) => [name |-> e.name, uid |-> e.uid] \in dr[e.job].evictable
=============================================================================
