---------------------------- MODULE DrainProofs ----------------------------
(***************************************************************************)
(* Proofs about Drain for every set of nodes, jobs and pods, any number of *)
(* workers, any retention and any number of replacements.                  *)
(*                                                                         *)
(* The inductive invariant follows each listed pod through the queue, the  *)
(* workers, the channel and the poller of its job (Pipeline), relates the  *)
(* goroutines to the record in the registry (Report), and says what a uid  *)
(* tells about a pod of the cluster (Anchored).                            *)
(***************************************************************************)
EXTENDS Drain, FiniteSetTheorems, TLAPS

Early == {"none", "start", "cordon", "list"}

Busy(g) == g.pc \in {"start", "cordon", "list", "evicting"}

\* The pods a job still works on.
Moving(g) == g.queue \cup g.inflight \cup g.accepted \cup g.pending

\* A listed pod is in one place at a time, and nothing comes after a close.
Pipeline(g) ==
    /\ Moving(g) \subseteq g.evictable
    /\ g.queue \cap g.inflight = {}
    /\ (g.queue \cup g.inflight) \cap g.accepted = {}
    /\ (g.queue \cup g.inflight \cup g.accepted) \cap g.pending = {}
    /\ g.closed => g.queue = {} /\ g.inflight = {}
    /\ g.poller = "drained" => g.closed /\ g.accepted = {}
    /\ g.poller = "done" => g.failed \/ (g.closed /\ g.accepted = {} /\ g.pending = {})

\* Before the list there is nothing to evict, and after the outcome nobody does.
Control(g) ==
    /\ g.pc \in Early => g.evictable = {} /\ g.poller = "none" /\ ~g.closed
    /\ g.pc = "done" => g.queue = {} /\ g.inflight = {} /\ g.poller \in {"none", "done"}
    /\ g.unmanaged => g.pc = "done"
    /\ IsFiniteSet(g.evictable)

\* The record of a job tells what its goroutines have done.
Report(g, job) ==
    /\ g.pc = "none" => job = NoJob
    /\ Busy(g) => /\ job # NoJob /\ job.node = g.node
                  /\ job.phase \in {"pending", "running"}
    /\ job # NoJob => job.evicted \subseteq g.evictable
    /\ g.pc = "evicting" =>
          /\ job.remaining = Cardinality(g.evictable \ job.evicted)
          /\ Moving(g) \cap job.evicted = {}
          /\ g.failed \/ g.evictable \subseteq Moving(g) \cup job.evicted
    /\ job # NoJob /\ job.phase = "succeeded" => job.evicted = g.evictable

Sound(g, job) == Pipeline(g) /\ Control(g) /\ Report(g, job)

\* A listed pod, while it exists, is on the node it was listed on: a replacement
\* has a newer uid.
Anchored(r, nd) ==
    /\ r.uid <= lastUid[r.name]
    /\ Present(r) => pods[r.name].node = nd
    /\ classifyPod(Attrs[r.name]) = "evict"

JobInv(j) ==
    /\ Sound(dr[j], jobs[j])
    /\ \A r \in dr[j].evictable : Anchored(r, dr[j].node)
    /\ jobs[j] # NoJob => \A r \in jobs[j].evicted : ~Present(r)
    /\ j \notin started => dr[j].pc = "none"

\* An eviction of a job, also one still to be carried out, comes after its list.
HitInv(e) ==
    /\ classifyPod(Attrs[e.name]) = "evict"
    /\ e.job \in started
    /\ dr[e.job].pc \in Early => dr[e.job].pc = "none"
    /\ ~dr[e.job].unmanaged

IInv ==
    /\ TypeOK
    /\ \A j \in JobIds : JobInv(j)
    /\ \A n \in Names : pods[n] # NoPod => pods[n].uid <= lastUid[n]
    /\ \A e \in hits \cup late : HitInv(e)
    /\ OneDrainPerNode

-----------------------------------------------------------------------------
(* One step of one job. *)

\* Nothing of the pods a step leaves alone matters but uid and node.
SamePods ==
    /\ pods' \in [Names -> Pod \cup {NoPod}]
    /\ \A n \in Names : /\ pods'[n] = NoPod <=> pods[n] = NoPod
                        /\ pods[n] # NoPod => /\ pods'[n].uid = pods[n].uid
                                              /\ pods'[n].node = pods[n].node

\* A step of the goroutines of job j, to g, with its record in the registry, to
\* job.
StepOf(j, g, job) ==
    /\ g \in Goroutines /\ job \in Job
    /\ dr' = [dr EXCEPT ![j] = g]
    /\ jobs' = [jobs EXCEPT ![j] = job]
    /\ Busy(dr[j])
    /\ g.node = dr[j].node
    /\ g.pc \in Early => dr[j].pc \in Early
    /\ g.unmanaged => dr[j].pc \in Early
    /\ g.evictable = dr[j].evictable \/ \A r \in g.evictable : Anchored(r, dr[j].node)
    /\ \A r \in job.evicted : ~Present(r)
    /\ SamePods
    /\ cordoned' \subseteq Nodes
    /\ hits' \subseteq Hit /\ late' \subseteq Late
    /\ \A e \in (hits' \cup late') \ (hits \cup late) :
          /\ e.job = j /\ dr[j].pc = "evicting" /\ g.pc = "evicting"
          /\ classifyPod(Attrs[e.name]) = "evict"
    /\ UNCHANGED <<clock, lastUid, started>>

\* A step that keeps one job sound keeps the invariant.
LEMMA JobStep ==
    ASSUME IInv, NEW j \in JobIds, NEW g, NEW job, StepOf(j, g, job), Sound(g, job)
    PROVE  IInv'
<1> USE DEF StepOf
<1>1. TypeOK
  BY DEF IInv
<1>2. TypeOK'
  BY <1>1 DEF TypeOK, SamePods
<1>3. /\ dr'[j] = g /\ jobs'[j] = job
      /\ \A i \in JobIds : i # j => dr'[i] = dr[i] /\ jobs'[i] = jobs[i]
  BY <1>1 DEF TypeOK
<1>4. \A r \in Ref : Present(r)' <=> Present(r)
  BY <1>1 DEF TypeOK, SamePods, Present, Ref, Pod
<1>5. ASSUME NEW r \in Ref, NEW nd, Anchored(r, nd) PROVE Anchored(r, nd)'
  BY <1>1, <1>4, <1>5 DEF Anchored, SamePods, Present, Ref
<1>6. ASSUME NEW i \in JobIds PROVE JobInv(i)'
  <2>0. JobInv(i) /\ dr[i] \in Goroutines /\ dr[i].evictable \subseteq Ref
    BY <1>1 DEF IInv, TypeOK, Goroutines
  <2>1. CASE i # j
    <3>1. dr'[i] = dr[i] /\ jobs'[i] = jobs[i]
      BY <1>3, <2>1
    <3>2. Sound(dr[i], jobs[i])'
      BY <2>0, <3>1 DEF JobInv
    <3>3. (\A r \in dr[i].evictable : Anchored(r, dr[i].node))'
      BY <2>0, <3>1, <1>5 DEF JobInv
    <3>4. (jobs[i] # NoJob => \A r \in jobs[i].evicted : ~Present(r))'
      BY <2>0, <3>1, <1>1, <1>4 DEF JobInv, TypeOK, Job
    <3>5. QED BY <2>0, <3>1, <3>2, <3>3, <3>4 DEF JobInv
  <2>2. CASE i = j
    <3>1. Sound(dr[i], jobs[i])'
      BY <2>2, <1>3
    <3>2. g.evictable \subseteq Ref /\ job.evicted \subseteq Ref
      BY DEF Goroutines, Job
    <3>3. \A r \in g.evictable : Anchored(r, g.node)
      BY <2>0, <2>2 DEF JobInv
    <3>4. (\A r \in dr[i].evictable : Anchored(r, dr[i].node))'
      BY <2>2, <1>3, <1>5, <3>2, <3>3
    <3>5. (\A r \in jobs[i].evicted : ~Present(r))'
      BY <2>2, <1>3, <1>4, <3>2
    <3>6. i \in started
      BY <2>0, <2>2 DEF JobInv, Busy
    <3>7. QED BY <3>1, <3>4, <3>5, <3>6 DEF JobInv
  <2>3. QED BY <2>1, <2>2
<1>7. \A n \in Names : pods'[n] # NoPod => pods'[n].uid <= lastUid'[n]
  BY DEF IInv, SamePods
<1>8. ASSUME NEW e \in hits' \cup late' PROVE HitInv(e)'
  <2>0. j \in started
    BY DEF IInv, JobInv, Busy
  <2>1. CASE e \in hits \cup late
    <3>1. HitInv(e) /\ e.job \in JobIds
      BY <2>1, <1>1 DEF IInv, TypeOK, Hit, Late
    <3>2. CASE e.job # j
      BY <3>1, <3>2, <1>3 DEF HitInv
    <3>3. CASE e.job = j
      <4>1. dr[j].pc \notin Early
        BY <3>1, <3>3 DEF HitInv, Busy
      <4>2. QED BY <3>1, <3>3, <4>1, <1>3 DEF HitInv
    <3>4. QED BY <3>2, <3>3
  <2>2. CASE e \notin hits \cup late
    <3>1. e.job = j /\ g.pc = "evicting" /\ classifyPod(Attrs[e.name]) = "evict"
      BY <2>2
    <3>2. ~g.unmanaged
      BY <3>1 DEF Sound, Control
    <3>3. QED BY <2>0, <3>1, <3>2, <1>3 DEF HitInv, Early
  <2>3. QED BY <2>1, <2>2
<1>9. OneDrainPerNode'
  <2>1. \A i \in JobIds : Active(i)' => Active(i) /\ dr'[i].node = dr[i].node
    BY <1>3 DEF Active, Busy
  <2>2. QED BY <2>1 DEF IInv, OneDrainPerNode
<1>10. QED BY <1>2, <1>6, <1>7, <1>8, <1>9 DEF IInv

\* What the invariant says of one job.
LEMMA JobFacts ==
    ASSUME IInv, NEW j \in JobIds
    PROVE  /\ dr[j] \in Goroutines /\ Sound(dr[j], jobs[j])
           /\ dr \in [JobIds -> Goroutines] /\ jobs \in [JobIds -> Job \cup {NoJob}]
           /\ Busy(dr[j]) => jobs[j] \in Job /\ jobs[j] # NoJob
           /\ dr[j].inflight # {} \/ Polling(j) => dr[j].pc = "evicting"
           /\ \A r \in dr[j].evictable : Anchored(r, dr[j].node)
           /\ jobs[j] # NoJob => \A r \in jobs[j].evicted : ~Present(r)
           /\ clock \in Nat
<1>1. /\ dr[j] \in Goroutines /\ Sound(dr[j], jobs[j])
      /\ dr \in [JobIds -> Goroutines] /\ jobs \in [JobIds -> Job \cup {NoJob}]
      /\ clock \in Nat
  BY DEF IInv, TypeOK, JobInv
<1>2. Busy(dr[j]) => jobs[j] \in Job /\ jobs[j] # NoJob
  BY <1>1 DEF Sound, Report
<1>3. dr[j].inflight # {} \/ Polling(j) => dr[j].pc = "evicting"
  BY <1>1 DEF Sound, Control, Pipeline, Moving, Polling, Goroutines, Early
<1>4. QED BY <1>1, <1>2, <1>3 DEF IInv, JobInv

\* A step of a goroutine that touches neither registry nor cluster.
LEMMA GoroutineStep ==
    ASSUME IInv, NEW j \in JobIds, NEW g \in Goroutines,
           dr' = [dr EXCEPT ![j] = g],
           Busy(dr[j]), g.pc = dr[j].pc, g.node = dr[j].node,
           g.unmanaged = dr[j].unmanaged, g.evictable = dr[j].evictable,
           Sound(g, jobs[j]),
           UNCHANGED <<clock, jobs, cluster, started>>
    PROVE  IInv'
<1>1. jobs[j] \in Job /\ jobs' = [jobs EXCEPT ![j] = jobs[j]]
  BY JobFacts
<1>2. /\ SamePods /\ cordoned' \subseteq Nodes /\ hits' = hits /\ hits \subseteq Hit
      /\ late' = late /\ late \subseteq Late
  BY DEF SamePods, cluster, IInv, TypeOK
<1>3. ~dr[j].unmanaged
  BY JobFacts DEF Sound, Control, Busy
<1>4. \A r \in jobs[j].evicted : ~Present(r)
  BY JobFacts
<1>5. StepOf(j, g, jobs[j])
  BY <1>1, <1>2, <1>3, <1>4 DEF StepOf, cluster
<1>6. QED BY <1>5, JobStep

\* The deadline passes.
LEMMA ExpireIInv == ASSUME IInv, NEW j \in JobIds, Expire(j) PROVE IInv'
<1> DEFINE g == [dr[j] EXCEPT !.expired = TRUE]
<1>1. dr' = [dr EXCEPT ![j] = g] /\ Busy(dr[j]) /\ UNCHANGED <<clock, jobs, cluster, started>>
  BY DEF Expire, Busy
<1>2. dr[j] \in Goroutines /\ Sound(dr[j], jobs[j])
  BY JobFacts
<1>3. /\ g \in Goroutines /\ g.pc = dr[j].pc /\ g.node = dr[j].node
      /\ g.unmanaged = dr[j].unmanaged /\ g.evictable = dr[j].evictable
      /\ g.queue = dr[j].queue /\ g.inflight = dr[j].inflight /\ g.accepted = dr[j].accepted
      /\ g.closed = dr[j].closed /\ g.poller = dr[j].poller /\ g.pending = dr[j].pending
      /\ g.failed = dr[j].failed
  BY <1>2 DEF Goroutines
<1> HIDE DEF g
<1>4. Sound(g, jobs[j])
  BY <1>2, <1>3 DEF Sound, Pipeline, Control, Report, Moving, Busy
<1>5. QED BY <1>1, <1>3, <1>4, GoroutineStep

\* A worker takes a pod off the queue, or drops it once the context is done.
LEMMA WorkerTakeIInv ==
    ASSUME IInv, NEW j \in JobIds, NEW r \in dr[j].queue, WorkerTake(j, r)
    PROVE  IInv'
<1>0. /\ dr[j] \in Goroutines /\ Sound(dr[j], jobs[j]) /\ dr[j].pc = "evicting"
      /\ UNCHANGED <<clock, jobs, cluster, started>>
  BY JobFacts DEF WorkerTake
<1>1. CASE dr' = [dr EXCEPT ![j].queue = @ \ {r}, ![j].failed = TRUE]
  <2> DEFINE g == [dr[j] EXCEPT !.queue = @ \ {r}, !.failed = TRUE]
  <2>1. dr' = [dr EXCEPT ![j] = g]
    BY <1>1
  <2>2. /\ g \in Goroutines /\ g.pc = dr[j].pc /\ g.node = dr[j].node
        /\ g.unmanaged = dr[j].unmanaged /\ g.evictable = dr[j].evictable
        /\ g.queue = dr[j].queue \ {r} /\ g.inflight = dr[j].inflight
        /\ g.accepted = dr[j].accepted /\ g.closed = dr[j].closed
        /\ g.poller = dr[j].poller /\ g.pending = dr[j].pending /\ g.failed = TRUE
    BY <1>0 DEF Goroutines
  <2> HIDE DEF g
  <2>3. Sound(g, jobs[j])
    BY <1>0, <2>2 DEF Sound, Pipeline, Control, Report, Moving, Busy
  <2>4. QED BY <1>0, <2>1, <2>2, <2>3, GoroutineStep DEF Busy
<1>2. CASE dr' = [dr EXCEPT ![j].queue = @ \ {r}, ![j].inflight = @ \cup {r}]
  <2> DEFINE g == [dr[j] EXCEPT !.queue = @ \ {r}, !.inflight = @ \cup {r}]
  <2>1. dr' = [dr EXCEPT ![j] = g]
    BY <1>2
  <2>2. /\ g \in Goroutines /\ g.pc = dr[j].pc /\ g.node = dr[j].node
        /\ g.unmanaged = dr[j].unmanaged /\ g.evictable = dr[j].evictable
        /\ g.queue = dr[j].queue \ {r} /\ g.inflight = dr[j].inflight \cup {r}
        /\ g.accepted = dr[j].accepted /\ g.closed = dr[j].closed
        /\ g.poller = dr[j].poller /\ g.pending = dr[j].pending
        /\ g.failed = dr[j].failed
    BY <1>0 DEF Goroutines
  <2> HIDE DEF g
  <2>3. Sound(g, jobs[j])
    BY <1>0, <2>2 DEF Sound, Pipeline, Control, Report, Moving, Busy
  <2>4. QED BY <1>0, <2>1, <2>2, <2>3, GoroutineStep DEF Busy
<1>3. QED BY <1>1, <1>2 DEF WorkerTake

\* The workers are done: the channel is closed.
LEMMA CloseAcceptedIInv ==
    ASSUME IInv, NEW j \in JobIds, CloseAccepted(j)
    PROVE  IInv'
<1> DEFINE g == [dr[j] EXCEPT !.closed = TRUE]
<1>0. /\ dr[j] \in Goroutines /\ Sound(dr[j], jobs[j]) /\ dr[j].pc = "evicting"
      /\ UNCHANGED <<clock, jobs, cluster, started>>
  BY JobFacts DEF CloseAccepted
<1>1. dr' = [dr EXCEPT ![j] = g]
  BY DEF CloseAccepted
<1>2. /\ g \in Goroutines /\ g.pc = dr[j].pc /\ g.node = dr[j].node
      /\ g.unmanaged = dr[j].unmanaged /\ g.evictable = dr[j].evictable
      /\ g.queue = dr[j].queue /\ g.inflight = dr[j].inflight
      /\ g.accepted = dr[j].accepted /\ g.closed = TRUE /\ g.poller = dr[j].poller
      /\ g.pending = dr[j].pending /\ g.failed = dr[j].failed
  BY <1>0 DEF Goroutines
<1> HIDE DEF g
<1>3. Sound(g, jobs[j])
  BY <1>0, <1>2 DEF Sound, Pipeline, Control, Report, Moving, Busy, Early,
                        CloseAccepted, WorkersDone
<1>4. QED BY <1>0, <1>1, <1>2, <1>3, GoroutineStep DEF Busy

\* The poller receives an accepted pod.
LEMMA PollReceiveIInv ==
    ASSUME IInv, NEW j \in JobIds, NEW r \in dr[j].accepted, PollReceive(j, r)
    PROVE  IInv'
<1> DEFINE g == [dr[j] EXCEPT !.accepted = @ \ {r}, !.pending = @ \cup {r}]
<1>0. /\ dr[j] \in Goroutines /\ Sound(dr[j], jobs[j]) /\ dr[j].pc = "evicting"
      /\ UNCHANGED <<clock, jobs, cluster, started>>
  BY JobFacts DEF PollReceive, Polling
<1>1. dr' = [dr EXCEPT ![j] = g]
  BY DEF PollReceive
<1>2. /\ g \in Goroutines /\ g.pc = dr[j].pc /\ g.node = dr[j].node
      /\ g.unmanaged = dr[j].unmanaged /\ g.evictable = dr[j].evictable
      /\ g.queue = dr[j].queue /\ g.inflight = dr[j].inflight
      /\ g.accepted = dr[j].accepted \ {r} /\ g.closed = dr[j].closed
      /\ g.poller = dr[j].poller /\ g.pending = dr[j].pending \cup {r}
      /\ g.failed = dr[j].failed
  BY <1>0 DEF Goroutines
<1> HIDE DEF g
<1>3. Sound(g, jobs[j])
  BY <1>0, <1>2 DEF Sound, Pipeline, Control, Report, Moving, Busy, PollReceive
<1>4. QED BY <1>0, <1>1, <1>2, <1>3, GoroutineStep DEF Busy

\* The poller finds the channel closed and empty.
LEMMA PollClosedIInv ==
    ASSUME IInv, NEW j \in JobIds, PollClosed(j)
    PROVE  IInv'
<1> DEFINE g == [dr[j] EXCEPT !.poller = "drained"]
<1>0. /\ dr[j] \in Goroutines /\ Sound(dr[j], jobs[j]) /\ dr[j].pc = "evicting"
      /\ UNCHANGED <<clock, jobs, cluster, started>>
  BY JobFacts DEF PollClosed, Polling
<1>1. dr' = [dr EXCEPT ![j] = g]
  BY DEF PollClosed
<1>2. /\ g \in Goroutines /\ g.pc = dr[j].pc /\ g.node = dr[j].node
      /\ g.unmanaged = dr[j].unmanaged /\ g.evictable = dr[j].evictable
      /\ g.queue = dr[j].queue /\ g.inflight = dr[j].inflight
      /\ g.accepted = dr[j].accepted /\ g.closed = dr[j].closed /\ g.poller = "drained"
      /\ g.pending = dr[j].pending /\ g.failed = dr[j].failed
  BY <1>0 DEF Goroutines
<1> HIDE DEF g
<1>3. Sound(g, jobs[j])
  BY <1>0, <1>2 DEF Sound, Pipeline, Control, Report, Moving, Busy, PollClosed
<1>4. QED BY <1>0, <1>1, <1>2, <1>3, GoroutineStep DEF Busy

\* A list error, or the end of the context, ends the poller.
LEMMA PollFailedIInv ==
    ASSUME IInv, NEW j \in JobIds, PollFailed(j)
    PROVE  IInv'
<1> DEFINE g == [dr[j] EXCEPT !.poller = "done", !.failed = TRUE]
<1>0. /\ dr[j] \in Goroutines /\ Sound(dr[j], jobs[j]) /\ dr[j].pc = "evicting"
      /\ UNCHANGED <<clock, jobs, cluster, started>>
  BY JobFacts DEF PollFailed, Polling
<1>1. dr' = [dr EXCEPT ![j] = g]
  BY DEF PollFailed
<1>2. /\ g \in Goroutines /\ g.pc = dr[j].pc /\ g.node = dr[j].node
      /\ g.unmanaged = dr[j].unmanaged /\ g.evictable = dr[j].evictable
      /\ g.queue = dr[j].queue /\ g.inflight = dr[j].inflight
      /\ g.accepted = dr[j].accepted /\ g.closed = dr[j].closed /\ g.poller = "done"
      /\ g.pending = dr[j].pending /\ g.failed = TRUE
  BY <1>0 DEF Goroutines
<1> HIDE DEF g
<1>3. Sound(g, jobs[j])
  BY <1>0, <1>2 DEF Sound, Pipeline, Control, Report, Moving, Busy, Early
<1>4. QED BY <1>0, <1>1, <1>2, <1>3, GoroutineStep DEF Busy

\* The channel is drained and nothing is pending: the poller returns.
LEMMA PollExitIInv ==
    ASSUME IInv, NEW j \in JobIds, PollExit(j)
    PROVE  IInv'
<1> DEFINE g == [dr[j] EXCEPT !.poller = "done"]
<1>0. /\ dr[j] \in Goroutines /\ Sound(dr[j], jobs[j]) /\ dr[j].pc = "evicting"
      /\ UNCHANGED <<clock, jobs, cluster, started>>
  BY JobFacts DEF PollExit, Sound, Control, Goroutines, Early
<1>1. dr' = [dr EXCEPT ![j] = g]
  BY DEF PollExit
<1>2. /\ g \in Goroutines /\ g.pc = dr[j].pc /\ g.node = dr[j].node
      /\ g.unmanaged = dr[j].unmanaged /\ g.evictable = dr[j].evictable
      /\ g.queue = dr[j].queue /\ g.inflight = dr[j].inflight
      /\ g.accepted = dr[j].accepted /\ g.closed = dr[j].closed /\ g.poller = "done"
      /\ g.pending = dr[j].pending /\ g.failed = dr[j].failed
  BY <1>0 DEF Goroutines
<1> HIDE DEF g
<1>3. Sound(g, jobs[j])
  BY <1>0, <1>2 DEF Sound, Pipeline, Control, Report, Moving, Busy, Early, PollExit
<1>4. QED BY <1>0, <1>1, <1>2, <1>3, GoroutineStep DEF Busy

\* An eviction takes effect: the pods stay where they are.
LEMMA EvictionEffect ==
    ASSUME TypeOK, NEW j \in JobIds, NEW n \in Names, EvictionTakesEffect(j, n)
    PROVE  /\ SamePods /\ hits' \subseteq Hit
           /\ \A e \in hits' \ hits : e.job = j /\ e.name = n
<1>1. pods \in [Names -> Pod \cup {NoPod}] /\ hits \subseteq Hit
  BY DEF TypeOK
<1> DEFINE p == [pods[n] EXCEPT !.terminating = TRUE]
           h == [job |-> j, name |-> n, uid |-> pods[n].uid]
<1>2. pods[n] \in Pod /\ pods' = [pods EXCEPT ![n] = p] /\ hits' = hits \cup {h}
  BY <1>1 DEF EvictionTakesEffect
<1>3. p \in Pod /\ p.uid = pods[n].uid /\ p.node = pods[n].node
  BY <1>2 DEF Pod
<1>4. h \in Hit /\ h.job = j /\ h.name = n
  BY <1>2 DEF Hit, Pod
<1> HIDE DEF p, h
<1>5. SamePods
  BY <1>1, <1>2, <1>3, NoJobAssumption DEF SamePods
<1>6. QED BY <1>1, <1>2, <1>4, <1>5

\* What a worker's eviction does, at once or later: the pods stay where they are,
\* and it is on a pod that may be evicted.
LEMMA EvictionStep ==
    ASSUME IInv, NEW j \in JobIds, NEW r \in dr[j].inflight,
           \/ EvictionTakesEffect(j, r.name) /\ late' = late
           \/ /\ UNCHANGED <<pods, hits>>
              /\ late' \in {late, late \cup {[job |-> j, name |-> r.name]}}
    PROVE  /\ SamePods /\ hits' \subseteq Hit /\ late' \subseteq Late
           /\ \A e \in (hits' \cup late') \ (hits \cup late) :
                 e.job = j /\ classifyPod(Attrs[e.name]) = "evict"
<1>1. /\ TypeOK /\ pods \in [Names -> Pod \cup {NoPod}] /\ hits \subseteq Hit
      /\ late \subseteq Late /\ r.name \in Names
  BY JobFacts DEF IInv, TypeOK, Goroutines, Ref
<1>2. r \in dr[j].evictable
  BY JobFacts DEF Sound, Pipeline, Moving
<1>3. classifyPod(Attrs[r.name]) = "evict"
  BY <1>2, JobFacts DEF Anchored
<1>4. CASE /\ UNCHANGED <<pods, hits>>
           /\ late' \in {late, late \cup {[job |-> j, name |-> r.name]}}
  <2> DEFINE l == [job |-> j, name |-> r.name]
  <2>1. l \in Late /\ l.job = j /\ l.name = r.name
    BY <1>1 DEF Late
  <2>2. late' \in {late, late \cup {l}} /\ UNCHANGED <<pods, hits>>
    BY <1>4
  <2> HIDE DEF l
  <2>3. QED BY <1>1, <1>3, <2>1, <2>2 DEF SamePods
<1>5. CASE EvictionTakesEffect(j, r.name) /\ late' = late
  BY <1>1, <1>3, <1>5, EvictionEffect
<1>6. QED BY <1>4, <1>5

\* An eviction is accepted, or its pod is gone.
LEMMA WorkerEvictedIInv ==
    ASSUME IInv, NEW j \in JobIds, NEW r \in dr[j].inflight, WorkerEvicted(j, r)
    PROVE  IInv'
<1> DEFINE g == [dr[j] EXCEPT !.inflight = @ \ {r}, !.accepted = @ \cup {r}]
<1>0. /\ dr[j] \in Goroutines /\ Sound(dr[j], jobs[j]) /\ dr[j].pc = "evicting"
      /\ Busy(dr[j]) /\ jobs[j] \in Job /\ jobs[j] # NoJob
  BY JobFacts DEF Busy
<1>1. /\ dr' = [dr EXCEPT ![j] = g] /\ jobs' = [jobs EXCEPT ![j] = jobs[j]]
      /\ UNCHANGED <<clock, cordoned, lastUid, started>>
  BY JobFacts DEF WorkerEvicted
<1>2. /\ g \in Goroutines /\ g.pc = dr[j].pc /\ g.node = dr[j].node
      /\ g.unmanaged = dr[j].unmanaged /\ g.evictable = dr[j].evictable
      /\ g.queue = dr[j].queue /\ g.inflight = dr[j].inflight \ {r}
      /\ g.accepted = dr[j].accepted \cup {r} /\ g.closed = dr[j].closed
      /\ g.poller = dr[j].poller /\ g.pending = dr[j].pending /\ g.failed = dr[j].failed
  BY <1>0 DEF Goroutines
<1> HIDE DEF g
<1>3. Sound(g, jobs[j])
  BY <1>0, <1>2 DEF Sound, Pipeline, Control, Report, Moving, Busy
<1>4. /\ SamePods /\ hits' \subseteq Hit /\ late' \subseteq Late
      /\ \A e \in (hits' \cup late') \ (hits \cup late) :
            e.job = j /\ classifyPod(Attrs[e.name]) = "evict"
  BY EvictionStep DEF WorkerEvicted
<1>5. StepOf(j, g, jobs[j])
  <2>1. \A e \in jobs[j].evicted : ~Present(e)
    BY <1>0, JobFacts
  <2>2. ~g.unmanaged /\ cordoned' \subseteq Nodes
    BY <1>0, <1>1, <1>2 DEF Sound, Control, IInv, TypeOK
  <2>3. QED BY <1>0, <1>1, <1>2, <1>4, <2>1, <2>2 DEF StepOf
<1>6. QED BY <1>3, <1>5, JobStep

\* An eviction fails, with an effect, without one, or with one to come.
LEMMA WorkerFailedIInv ==
    ASSUME IInv, NEW j \in JobIds, NEW r \in dr[j].inflight, WorkerFailed(j, r)
    PROVE  IInv'
<1> DEFINE g == [dr[j] EXCEPT !.inflight = @ \ {r}, !.failed = TRUE]
<1>0. /\ dr[j] \in Goroutines /\ Sound(dr[j], jobs[j]) /\ dr[j].pc = "evicting"
      /\ Busy(dr[j]) /\ jobs[j] \in Job /\ jobs[j] # NoJob
  BY JobFacts DEF Busy
<1>1. /\ dr' = [dr EXCEPT ![j] = g] /\ jobs' = [jobs EXCEPT ![j] = jobs[j]]
      /\ UNCHANGED <<clock, cordoned, lastUid, started>>
  BY JobFacts DEF WorkerFailed
<1>2. /\ g \in Goroutines /\ g.pc = dr[j].pc /\ g.node = dr[j].node
      /\ g.unmanaged = dr[j].unmanaged /\ g.evictable = dr[j].evictable
      /\ g.queue = dr[j].queue /\ g.inflight = dr[j].inflight \ {r}
      /\ g.accepted = dr[j].accepted /\ g.closed = dr[j].closed /\ g.poller = dr[j].poller
      /\ g.pending = dr[j].pending /\ g.failed = TRUE
  BY <1>0 DEF Goroutines
<1> HIDE DEF g
<1>3. Sound(g, jobs[j])
  BY <1>0, <1>2 DEF Sound, Pipeline, Control, Report, Moving, Busy
<1>4. /\ SamePods /\ hits' \subseteq Hit /\ late' \subseteq Late
      /\ \A e \in (hits' \cup late') \ (hits \cup late) :
            e.job = j /\ classifyPod(Attrs[e.name]) = "evict"
  BY EvictionStep DEF WorkerFailed
<1>5. StepOf(j, g, jobs[j])
  <2>1. \A e \in jobs[j].evicted : ~Present(e)
    BY <1>0, JobFacts
  <2>2. ~g.unmanaged /\ cordoned' \subseteq Nodes
    BY <1>0, <1>1, <1>2 DEF Sound, Control, IInv, TypeOK
  <2>3. QED BY <1>0, <1>1, <1>2, <1>4, <2>1, <2>2 DEF StepOf
<1>6. QED BY <1>3, <1>5, JobStep

-----------------------------------------------------------------------------
(* Steps that also write the record in the registry. *)

\* A job that is under way is in the registry: its update is never lost.
LEMMA UpdateStep ==
    ASSUME IInv, NEW j \in JobIds, NEW job \in Job, Busy(dr[j]), update(j, job)
    PROVE  LET new == [job EXCEPT !.updatedAt = clock]
           IN  /\ new \in Job /\ new.node = job.node /\ new.phase = job.phase
               /\ new.evicted = job.evicted /\ new.remaining = job.remaining
               /\ jobs' = [jobs EXCEPT ![j] = new]
<1>1. jobs[j] # NoJob /\ clock \in Nat
  BY JobFacts
<1>2. QED BY <1>1 DEF update, Job

\* The same, with what the step leaves alone.
LEMMA RegistryStep ==
    ASSUME IInv, NEW j \in JobIds, NEW g \in Goroutines, NEW job \in Job,
           dr' = [dr EXCEPT ![j] = g], update(j, job),
           Busy(dr[j]), g.node = dr[j].node,
           g.pc \in Early => dr[j].pc \in Early,
           g.unmanaged => dr[j].pc \in Early,
           g.evictable = dr[j].evictable \/ \A r \in g.evictable : Anchored(r, dr[j].node),
           \A r \in job.evicted : ~Present(r),
           Pipeline(g), Control(g), Report(g, job),
           cordoned' \subseteq Nodes,
           UNCHANGED <<clock, pods, lastUid, late, hits, started>>
    PROVE  IInv'
<1> DEFINE new == [job EXCEPT !.updatedAt = clock]
<1>1. /\ new \in Job /\ new.node = job.node /\ new.phase = job.phase
      /\ new.evicted = job.evicted /\ new.remaining = job.remaining
      /\ jobs' = [jobs EXCEPT ![j] = new]
  BY UpdateStep
<1> HIDE DEF new
<1>2. Sound(g, new)
  <2>1. new # NoJob /\ job # NoJob
    BY <1>1, NoJobAssumption
  <2>2. Report(g, new)
    BY <1>1, <2>1 DEF Report
  <2>3. QED BY <2>2 DEF Sound
<1>3. SamePods /\ hits \subseteq Hit /\ late \subseteq Late
  BY DEF SamePods, IInv, TypeOK
<1>4. StepOf(j, g, new)
  BY <1>1, <1>3 DEF StepOf
<1>5. QED BY <1>2, <1>4, JobStep

\* A job fails while none of its workers and no poller is at work.
LEMMA FailStep ==
    ASSUME IInv, NEW j \in JobIds, Fail(j), Busy(dr[j]),
           dr[j].queue = {}, dr[j].inflight = {}, dr[j].poller \in {"none", "done"},
           cordoned' \subseteq Nodes, UNCHANGED <<clock, pods, lastUid, late, hits, started>>
    PROVE  IInv'
<1> DEFINE g == [dr[j] EXCEPT !.pc = "done"]
           job == [jobs[j] EXCEPT !.phase = "failed"]
<1>0. /\ dr[j] \in Goroutines /\ Sound(dr[j], jobs[j])
      /\ jobs[j] \in Job /\ jobs[j] # NoJob
      /\ \A r \in jobs[j].evicted : ~Present(r)
  BY JobFacts
<1>1. dr' = [dr EXCEPT ![j] = g] /\ update(j, job)
  BY DEF Fail, failDrain
<1>2. /\ g \in Goroutines /\ g.pc = "done" /\ g.node = dr[j].node
      /\ g.unmanaged = dr[j].unmanaged /\ g.evictable = dr[j].evictable
      /\ g.queue = dr[j].queue /\ g.inflight = dr[j].inflight
      /\ g.accepted = dr[j].accepted /\ g.closed = dr[j].closed /\ g.poller = dr[j].poller
      /\ g.pending = dr[j].pending /\ g.failed = dr[j].failed
  BY <1>0 DEF Goroutines
<1>3. job \in Job /\ job.phase = "failed" /\ job.evicted = jobs[j].evicted
  BY <1>0 DEF Job
<1> HIDE DEF g, job
<1>4. ~g.unmanaged
  BY <1>0, <1>2 DEF Sound, Control, Busy
<1>5. Pipeline(g) /\ Control(g) /\ Report(g, job)
  BY <1>0, <1>2, <1>3, <1>4 DEF Sound, Pipeline, Control, Report, Moving, Busy, Early
<1>6. QED BY <1>0, <1>1, <1>2, <1>3, <1>4, <1>5, RegistryStep DEF Early

\* The job is reported as running.
LEMMA RunStartIInv == ASSUME IInv, NEW j \in JobIds, RunStart(j) PROVE IInv'
<1> DEFINE g == [dr[j] EXCEPT !.pc = "cordon"]
           job == [jobs[j] EXCEPT !.phase = "running"]
<1>0. /\ dr[j] \in Goroutines /\ Sound(dr[j], jobs[j]) /\ dr[j].pc = "start"
      /\ jobs[j] \in Job /\ jobs[j] # NoJob /\ Busy(dr[j])
      /\ \A r \in jobs[j].evicted : ~Present(r)
  BY JobFacts DEF RunStart, Busy
<1>1. /\ dr' = [dr EXCEPT ![j] = g] /\ update(j, job)
      /\ UNCHANGED <<clock, pods, lastUid, late, hits, started>> /\ cordoned' \subseteq Nodes
  BY DEF RunStart, cluster, IInv, TypeOK
<1>2. /\ g \in Goroutines /\ g.pc = "cordon" /\ g.node = dr[j].node
      /\ g.unmanaged = dr[j].unmanaged /\ g.evictable = dr[j].evictable
      /\ g.queue = dr[j].queue /\ g.inflight = dr[j].inflight
      /\ g.accepted = dr[j].accepted /\ g.closed = dr[j].closed /\ g.poller = dr[j].poller
      /\ g.pending = dr[j].pending /\ g.failed = dr[j].failed
  BY <1>0 DEF Goroutines
<1>3. /\ job \in Job /\ job.phase = "running" /\ job.evicted = jobs[j].evicted
      /\ job.node = jobs[j].node
  BY <1>0 DEF Job
<1>4. job # NoJob
  BY <1>3, NoJobAssumption
<1> HIDE DEF g, job
<1>5. ~g.unmanaged
  BY <1>0, <1>2 DEF Sound, Control
<1>6. Pipeline(g) /\ Control(g) /\ Report(g, job)
  BY <1>0, <1>2, <1>3, <1>4, <1>5 DEF Sound, Pipeline, Control, Report, Moving, Busy, Early
<1>7. QED BY <1>0, <1>1, <1>2, <1>3, <1>5, <1>6, RegistryStep DEF Early

\* A job before its list has no goroutines of evictAll.
LEMMA EarlyIdle ==
    ASSUME IInv, NEW j \in JobIds, dr[j].pc \in Early
    PROVE  dr[j].queue = {} /\ dr[j].inflight = {} /\ dr[j].poller = "none"
BY JobFacts DEF Sound, Pipeline, Control, Moving

\* The node is cordoned, or the call fails with or without effect.
LEMMA RunCordonIInv == ASSUME IInv, NEW j \in JobIds, RunCordon(j) PROVE IInv'
<1>0. /\ dr[j] \in Goroutines /\ Sound(dr[j], jobs[j]) /\ dr[j].pc = "cordon"
      /\ jobs[j] \in Job /\ jobs[j] # NoJob /\ Busy(dr[j])
      /\ \A r \in jobs[j].evicted : ~Present(r)
  BY JobFacts DEF RunCordon, Busy
<1>1. dr[j].node \in Nodes
  BY <1>0 DEF Sound, Report, Job
<1>2. /\ UNCHANGED <<clock, pods, lastUid, late, hits, started>>
      /\ cordoned' \in {cordoned, cordoned \cup {dr[j].node}}
  BY DEF RunCordon
<1>3. cordoned' \subseteq Nodes
  BY <1>1, <1>2 DEF IInv, TypeOK
<1>4. CASE Fail(j)
  BY <1>0, <1>2, <1>3, <1>4, EarlyIdle, FailStep DEF Early
<1>5. CASE dr' = [dr EXCEPT ![j].pc = "list"] /\ UNCHANGED jobs
  <2> DEFINE g == [dr[j] EXCEPT !.pc = "list"]
  <2>1. dr' = [dr EXCEPT ![j] = g] /\ jobs' = [jobs EXCEPT ![j] = jobs[j]]
    BY <1>5, JobFacts
  <2>2. /\ g \in Goroutines /\ g.pc = "list" /\ g.node = dr[j].node
        /\ g.unmanaged = dr[j].unmanaged /\ g.evictable = dr[j].evictable
        /\ g.queue = dr[j].queue /\ g.inflight = dr[j].inflight
        /\ g.accepted = dr[j].accepted /\ g.closed = dr[j].closed
        /\ g.poller = dr[j].poller /\ g.pending = dr[j].pending /\ g.failed = dr[j].failed
    BY <1>0 DEF Goroutines
  <2> HIDE DEF g
  <2>3. ~g.unmanaged
    BY <1>0, <2>2 DEF Sound, Control
  <2>4. Sound(g, jobs[j])
    BY <1>0, <2>2, <2>3 DEF Sound, Pipeline, Control, Report, Moving, Busy, Early
  <2>5. SamePods /\ hits \subseteq Hit /\ late \subseteq Late
    BY <1>2 DEF SamePods, IInv, TypeOK
  <2>6. StepOf(j, g, jobs[j])
    BY <1>0, <1>2, <1>3, <2>1, <2>2, <2>3, <2>5 DEF StepOf, Early
  <2>7. QED BY <2>4, <2>6, JobStep
<1>6. QED BY <1>4, <1>5 DEF RunCordon

\* Listing the pods fails.
LEMMA RunListFailedIInv == ASSUME IInv, NEW j \in JobIds, RunListFailed(j) PROVE IInv'
<1>1. dr[j].pc = "list" /\ dr[j].pc \in Early /\ Busy(dr[j]) /\ Fail(j)
  BY DEF RunListFailed, Busy, Early
<1>2. UNCHANGED <<clock, pods, lastUid, late, hits, started>> /\ cordoned' \subseteq Nodes
  BY DEF RunListFailed, cluster, IInv, TypeOK
<1>3. QED BY <1>1, <1>2, EarlyIdle, FailStep

\* What a list finds: finitely many pods, on the node and fit for eviction.
LEMMA ListedPods ==
    ASSUME IInv, NEW nd \in Nodes
    PROVE  LET refs == {RefOf(n) : n \in OnClass(nd, "evict")}
           IN  /\ refs \subseteq Ref /\ IsFiniteSet(refs)
               /\ \A r \in refs : Anchored(r, nd)
<1> DEFINE S == OnClass(nd, "evict")
           refs == {RefOf(n) : n \in S}
           f == [n \in S |-> RefOf(n)]
<1>1. pods \in [Names -> Pod \cup {NoPod}] /\ lastUid \in [Names -> Nat]
  BY DEF IInv, TypeOK
<1>2. \A n \in S : /\ n \in Names /\ pods[n] \in Pod /\ pods[n].node = nd
                   /\ classifyPod(Attrs[n]) = "evict" /\ pods[n].uid <= lastUid[n]
  BY <1>1 DEF OnClass, On, IInv
<1>3. IsFiniteSet(S)
  <2>1. S \in SUBSET Names
    BY DEF OnClass, On
  <2>2. QED BY <2>1, DrainAssumption, FS_Subset
<1>4. f \in Surjection(S, refs)
  BY DEF Surjection
<1>5. IsFiniteSet(refs)
  BY <1>3, <1>4, FS_Surjection
<1>6. \A n \in S : /\ RefOf(n) \in Ref /\ RefOf(n).name = n /\ RefOf(n).uid = pods[n].uid
  BY <1>2 DEF RefOf, Ref, Pod
<1>7. \A n \in S : Anchored(RefOf(n), nd)
  BY <1>2, <1>6 DEF Anchored, Present
<1>8. QED BY <1>5, <1>6, <1>7

\* The pods are listed: the job is refused, or the evictions begin.
LEMMA RunListIInv == ASSUME IInv, NEW j \in JobIds, RunList(j) PROVE IInv'
<1> DEFINE nd == dr[j].node
           refs == {RefOf(n) : n \in OnClass(nd, "evict")}
           old == [jobs[j] EXCEPT !.skipped = OnClass(nd, "skip")]
<1>0. /\ dr[j] \in Goroutines /\ Sound(dr[j], jobs[j]) /\ dr[j].pc = "list"
      /\ jobs[j] \in Job /\ jobs[j] # NoJob /\ Busy(dr[j]) /\ dr[j].pc \in Early
  BY JobFacts DEF RunList, Busy, Early
<1>1. /\ dr[j].node \in Nodes /\ dr[j].evictable = {} /\ jobs[j].evicted = {}
      /\ dr[j].queue = {} /\ dr[j].inflight = {} /\ dr[j].accepted = {}
      /\ dr[j].pending = {} /\ dr[j].closed = FALSE /\ dr[j].poller = "none"
      /\ dr[j].unmanaged = FALSE
  <2>1. dr[j].evictable = {} /\ dr[j].poller = "none" /\ ~dr[j].closed /\ ~dr[j].unmanaged
    BY <1>0 DEF Sound, Control
  <2>2. dr[j].node \in Nodes /\ jobs[j].evicted = {}
    BY <1>0, <2>1 DEF Sound, Report, Job
  <2>3. dr[j].queue = {} /\ dr[j].inflight = {} /\ dr[j].accepted = {} /\ dr[j].pending = {}
    BY <1>0, <2>1 DEF Sound, Pipeline, Moving
  <2>4. QED BY <1>0, <2>1, <2>2, <2>3 DEF Goroutines
<1>2. refs \subseteq Ref /\ IsFiniteSet(refs) /\ \A r \in refs : Anchored(r, dr[j].node)
  BY <1>1, ListedPods
<1>3. OnClass(nd, "skip") \in SUBSET Names
  BY DEF OnClass, On
<1>4. /\ old \in Job /\ old.node = jobs[j].node /\ old.phase = jobs[j].phase
      /\ old.evicted = {}
  BY <1>0, <1>1, <1>3 DEF Job
<1>5. UNCHANGED <<clock, pods, lastUid, late, hits, started>> /\ cordoned' \subseteq Nodes
  BY DEF RunList, cluster, IInv, TypeOK
<1>6. CASE Refused(j)
  <2> DEFINE g == [dr[j] EXCEPT !.pc = "done", !.unmanaged = TRUE]
             job == [old EXCEPT !.phase = "failed"]
  <2>1. dr' = [dr EXCEPT ![j] = g] /\ update(j, job)
    BY <1>6 DEF RunList
  <2>2. /\ g \in Goroutines /\ g.pc = "done" /\ g.node = dr[j].node /\ g.unmanaged = TRUE
        /\ g.evictable = {} /\ g.queue = {} /\ g.inflight = {} /\ g.accepted = {}
        /\ g.closed = FALSE /\ g.poller = "none" /\ g.pending = {}
    BY <1>0, <1>1 DEF Goroutines
  <2>3. job \in Job /\ job.phase = "failed" /\ job.evicted = {}
    BY <1>4 DEF Job
  <2> HIDE DEF g, job, old
  <2>4. Pipeline(g) /\ Control(g) /\ Report(g, job)
    BY <2>2, <2>3, FS_EmptySet DEF Pipeline, Control, Report, Moving, Busy, Early
  <2>5. QED BY <1>0, <1>1, <1>5, <2>1, <2>2, <2>3, <2>4, RegistryStep DEF Early
<1>7. CASE ~Refused(j)
  <2> DEFINE g == [dr[j] EXCEPT !.pc = "evicting", !.poller = "open", !.unmanaged = FALSE,
                                !.evictable = refs, !.queue = refs]
             job == [old EXCEPT !.remaining = Cardinality(refs)]
  <2>0. (OnClass(nd, "block") # {}) = FALSE
    BY <1>7 DEF Refused
  <2>1. dr' = [dr EXCEPT ![j] = g] /\ update(j, job)
    BY <1>7, <2>0 DEF RunList
  <2>2. /\ g \in Goroutines /\ g.pc = "evicting" /\ g.node = dr[j].node
        /\ g.unmanaged = FALSE /\ g.evictable = refs /\ g.queue = refs /\ g.inflight = {}
        /\ g.accepted = {} /\ g.closed = FALSE /\ g.poller = "open" /\ g.pending = {}
    BY <1>0, <1>1, <1>2 DEF Goroutines
  <2>3. /\ job \in Job /\ job.node = jobs[j].node /\ job.phase = jobs[j].phase
        /\ job.evicted = {} /\ job.remaining = Cardinality(refs)
    <3>1. Cardinality(refs) \in Nat
      BY <1>2, FS_CardinalityType
    <3>2. QED BY <1>4, <3>1 DEF Job
  <2>4. jobs[j].node = dr[j].node /\ jobs[j].phase \in {"pending", "running"} /\ job # NoJob
    BY <1>0, <2>3, NoJobAssumption DEF Sound, Report
  <2> HIDE DEF g, job, old, refs
  <2>5. Pipeline(g) /\ Control(g)
    BY <1>2, <2>2 DEF Pipeline, Control, Moving, Early
  <2>6. Report(g, job)
    <3>1. g.evictable \ job.evicted = refs
      BY <2>2, <2>3
    <3>2. QED BY <2>2, <2>3, <2>4, <3>1 DEF Report, Moving, Busy
  <2>7. QED BY <1>0, <1>2, <1>5, <2>1, <2>2, <2>3, <2>5, <2>6, RegistryStep DEF Early
<1>8. QED BY <1>6, <1>7

\* The poller records the pods it finds gone.
LEMMA PollTickIInv == ASSUME IInv, NEW j \in JobIds, PollTick(j) PROVE IInv'
<1> DEFINE gone == Gone(j)
           g == [dr[j] EXCEPT !.pending = @ \ gone]
           job == [jobs[j] EXCEPT !.evicted = @ \cup gone,
                                  !.remaining = RemainingAfter(@, gone)]
           left == dr[j].evictable \ jobs[j].evicted
<1>0. /\ dr[j] \in Goroutines /\ Sound(dr[j], jobs[j]) /\ dr[j].pc = "evicting"
      /\ jobs[j] \in Job /\ jobs[j] # NoJob /\ Busy(dr[j])
      /\ \A r \in dr[j].evictable : Anchored(r, dr[j].node)
      /\ \A r \in jobs[j].evicted : ~Present(r)
  BY JobFacts DEF PollTick, Busy
<1>1. gone \subseteq dr[j].pending /\ gone \subseteq dr[j].evictable /\ gone \subseteq Ref
  BY <1>0 DEF Gone, Sound, Pipeline, Moving, Goroutines
<1>2. \A r \in gone : ~Present(r)
  <2> SUFFICES ASSUME NEW r \in gone, Present(r) PROVE FALSE
    OBVIOUS
  <2>1. r \in Ref /\ r.name \in Names /\ r = [name |-> r.name, uid |-> r.uid]
    BY <1>1 DEF Ref
  <2>2. pods[r.name] # NoPod /\ pods[r.name].node = dr[j].node /\ pods[r.name].uid = r.uid
    BY <1>0, <1>1 DEF Anchored, Present
  <2>3. r.name \in On(dr[j].node) /\ RefOf(r.name) = r
    BY <2>1, <2>2 DEF On, RefOf
  <2>4. r \in listNodePods(dr[j].node)
    BY <2>3 DEF listNodePods
  <2>5. QED BY <2>4 DEF Gone
<1>3. /\ IsFiniteSet(left) /\ gone \subseteq left /\ jobs[j].remaining = Cardinality(left)
      /\ jobs[j].evicted \subseteq dr[j].evictable
  <2>1. IsFiniteSet(dr[j].evictable) /\ left \in SUBSET dr[j].evictable
    BY <1>0 DEF Sound, Control
  <2>2. IsFiniteSet(left)
    BY <2>1, FS_Subset
  <2>3. gone \cap jobs[j].evicted = {}
    BY <1>0, <1>1 DEF Sound, Report, Moving
  <2>4. QED BY <1>0, <1>1, <2>2, <2>3 DEF Sound, Report
<1>4. /\ RemainingAfter(jobs[j].remaining, gone) = Cardinality(left \ gone)
      /\ RemainingAfter(jobs[j].remaining, gone) \in Nat
  <2>1. left \cap gone = gone
    BY <1>3
  <2>2. /\ IsFiniteSet(left \ gone)
        /\ Cardinality(left \ gone) = Cardinality(left) - Cardinality(left \cap gone)
    BY <1>3, FS_Difference
  <2>3. Cardinality(left \ gone) \in Nat
    BY <2>2, FS_CardinalityType
  <2>4. IsFiniteSet(gone)
    BY <1>3, FS_Subset
  <2>5. Cardinality(gone) \in Nat /\ Cardinality(left) \in Nat
    BY <1>3, <2>4, FS_CardinalityType
  <2>6. Cardinality(left \ gone) = Cardinality(left) - Cardinality(gone)
    BY <2>1, <2>2
  <2>7. jobs[j].remaining = Cardinality(left)
    BY <1>3
  <2> HIDE DEF left, gone, g, job
  <2>8. QED BY <2>3, <2>5, <2>6, <2>7 DEF RemainingAfter, AtLeastZero
<1>5. /\ dr' = [dr EXCEPT ![j] = g] /\ update(j, job)
      /\ UNCHANGED <<clock, pods, lastUid, late, hits, started>> /\ cordoned' \subseteq Nodes
  BY DEF PollTick, cluster, IInv, TypeOK
<1> HIDE DEF gone
<1>6. /\ g \in Goroutines /\ g.pc = dr[j].pc /\ g.node = dr[j].node
      /\ g.unmanaged = dr[j].unmanaged /\ g.evictable = dr[j].evictable
      /\ g.queue = dr[j].queue /\ g.inflight = dr[j].inflight
      /\ g.accepted = dr[j].accepted /\ g.closed = dr[j].closed
      /\ g.poller = dr[j].poller /\ g.pending = dr[j].pending \ gone
      /\ g.failed = dr[j].failed
  BY <1>0 DEF Goroutines
<1>7. /\ job \in Job /\ job.node = jobs[j].node /\ job.phase = jobs[j].phase
      /\ job.evicted = jobs[j].evicted \cup gone
      /\ job.remaining = Cardinality(left \ gone)
  BY <1>0, <1>1, <1>4 DEF Job
<1>8. job # NoJob
  BY <1>7, NoJobAssumption
<1>9. g.evictable \ job.evicted = left \ gone
  BY <1>6, <1>7
<1> HIDE DEF g, job, left
<1>10. Pipeline(g) /\ Control(g)
  BY <1>0, <1>6 DEF Sound, Pipeline, Control, Moving, Early
<1>11. Report(g, job)
  <2>1. /\ job.evicted \subseteq g.evictable /\ Moving(g) \cap job.evicted = {}
        /\ g.failed \/ g.evictable \subseteq Moving(g) \cup job.evicted
    BY <1>0, <1>1, <1>3, <1>6, <1>7 DEF Sound, Pipeline, Report, Moving
  <2>2. job.node = g.node /\ job.phase \in {"pending", "running"}
    BY <1>0, <1>6, <1>7 DEF Sound, Report
  <2>3. QED BY <1>0, <1>6, <1>7, <1>8, <1>9, <2>1, <2>2 DEF Report
<1>12. ~g.unmanaged /\ \A r \in job.evicted : ~Present(r)
  BY <1>0, <1>2, <1>6, <1>7 DEF Sound, Control
<1>13. QED BY <1>0, <1>5, <1>6, <1>7, <1>10, <1>11, <1>12, RegistryStep DEF Early

\* evictAll returns: without a failure every listed pod is recorded as gone.
LEMMA RunFinishIInv == ASSUME IInv, NEW j \in JobIds, RunFinish(j) PROVE IInv'
<1>0. /\ dr[j] \in Goroutines /\ Sound(dr[j], jobs[j]) /\ dr[j].pc = "evicting"
      /\ jobs[j] \in Job /\ jobs[j] # NoJob /\ Busy(dr[j])
      /\ \A r \in jobs[j].evicted : ~Present(r)
  BY JobFacts DEF RunFinish, Busy
<1>1. UNCHANGED <<clock, pods, lastUid, late, hits, started>> /\ cordoned' \subseteq Nodes
  BY DEF RunFinish, cluster, IInv, TypeOK
<1>2. dr[j].poller = "done" /\ dr[j].queue = {} /\ dr[j].inflight = {}
  BY <1>0 DEF RunFinish, EvictAllReturns, Sound, Pipeline
<1>3. CASE dr[j].failed
  BY <1>0, <1>1, <1>2, <1>3, FailStep DEF RunFinish
<1>4. CASE ~dr[j].failed
  <2> DEFINE g == [dr[j] EXCEPT !.pc = "done"]
             job == [jobs[j] EXCEPT !.phase = "succeeded", !.remaining = 0]
  <2>1. dr' = [dr EXCEPT ![j] = g] /\ update(j, job)
    BY <1>4 DEF RunFinish
  <2>2. jobs[j].evicted = dr[j].evictable
    <3>1. Moving(dr[j]) = {}
      BY <1>0, <1>2, <1>4 DEF Sound, Pipeline, Moving
    <3>2. QED BY <1>0, <1>4, <3>1 DEF Sound, Report
  <2>3. /\ g \in Goroutines /\ g.pc = "done" /\ g.node = dr[j].node
        /\ g.unmanaged = dr[j].unmanaged /\ g.evictable = dr[j].evictable
        /\ g.queue = dr[j].queue /\ g.inflight = dr[j].inflight
        /\ g.accepted = dr[j].accepted /\ g.closed = dr[j].closed
        /\ g.poller = dr[j].poller /\ g.pending = dr[j].pending /\ g.failed = dr[j].failed
    BY <1>0 DEF Goroutines
  <2>4. job \in Job /\ job.phase = "succeeded" /\ job.evicted = jobs[j].evicted
    BY <1>0 DEF Job
  <2> HIDE DEF g, job
  <2>5. ~g.unmanaged
    BY <1>0, <2>3 DEF Sound, Control
  <2>6. Pipeline(g) /\ Control(g) /\ Report(g, job)
    BY <1>0, <1>2, <2>2, <2>3, <2>4, <2>5
       DEF Sound, Pipeline, Control, Report, Moving, Busy, Early
  <2>7. QED BY <1>0, <1>1, <2>1, <2>3, <2>4, <2>5, <2>6, RegistryStep DEF Early
<1>5. QED BY <1>3, <1>4

-----------------------------------------------------------------------------
(* The rest of the world. *)

\* What happens to pods outside the gateway brings no pod back: only a pod of a
\* newer uid can appear.
LEMMA WorldStep ==
    ASSUME IInv, UNCHANGED <<jobs, dr, started>>, TypeOK',
           \A e \in hits' \cup late' : HitInv(e),
           \A n \in Names : pods'[n] # NoPod => pods'[n].uid <= lastUid'[n],
           \A n \in Names : lastUid[n] <= lastUid'[n],
           \A r \in Ref : r.uid <= lastUid[r.name] /\ Present(r)'
                          => Present(r) /\ pods'[r.name].node = pods[r.name].node
    PROVE  IInv'
<1>1. TypeOK
  BY DEF IInv
<1>2. ASSUME NEW j \in JobIds PROVE JobInv(j)'
  <2>1. /\ JobInv(j) /\ dr[j] \in Goroutines /\ dr[j].evictable \subseteq Ref
        /\ jobs[j] # NoJob => jobs[j].evicted \subseteq dr[j].evictable
    BY <1>1 DEF IInv, TypeOK, Goroutines, JobInv, Sound, Report
  <2>2. Sound(dr[j], jobs[j])' /\ (j \notin started => dr[j].pc = "none")'
    BY <2>1 DEF JobInv
  <2>3. \A r \in dr[j].evictable : r \in Ref /\ r.name \in Names /\ r.uid \in Nat
                                   /\ Anchored(r, dr[j].node)
    BY <2>1 DEF JobInv, Ref
  <2>4. (\A r \in dr[j].evictable : Anchored(r, dr[j].node))'
    <3>1. ASSUME NEW r \in dr[j].evictable
          PROVE  /\ r.uid <= lastUid'[r.name] /\ classifyPod(Attrs[r.name]) = "evict"
                 /\ Present(r)' => pods'[r.name].node = dr[j].node
      <4>1. r \in Ref /\ r.name \in Names /\ r.uid \in Nat /\ Anchored(r, dr[j].node)
        BY <2>3
      <4>2. lastUid[r.name] \in Nat /\ lastUid'[r.name] \in Nat /\ r.uid <= lastUid[r.name]
        BY <1>1, <4>1 DEF TypeOK, Anchored
      <4>3. r.uid <= lastUid'[r.name]
        BY <4>1, <4>2
      <4>4. QED BY <4>1, <4>2, <4>3 DEF Anchored
    <3>2. QED BY <3>1 DEF Anchored
  <2>5. (jobs[j] # NoJob => \A r \in jobs[j].evicted : ~Present(r))'
    BY <2>1, <2>3 DEF JobInv, Anchored
  <2>6. QED BY <2>2, <2>4, <2>5 DEF JobInv
<1>3. ASSUME NEW e \in hits' \cup late' PROVE HitInv(e)'
  BY DEF HitInv
<1>4. OneDrainPerNode'
  BY DEF IInv, OneDrainPerNode, Active
<1>5. QED BY <1>2, <1>3, <1>4 DEF IInv

\* Nothing that a pod or its uid depends on changes: the clock, a cordon, nothing.
LEMMA QuietStep ==
    ASSUME IInv, UNCHANGED <<jobs, dr, pods, lastUid, late, started, hits>>,
           clock' \in Nat, cordoned' \subseteq Nodes
    PROVE  IInv'
<1>1. TypeOK' /\ lastUid \in [Names -> Nat]
  BY DEF IInv, TypeOK
<1>2. \A n \in Names : pods'[n] # NoPod => pods'[n].uid <= lastUid'[n]
  BY DEF IInv
<1>3. \A n \in Names : lastUid[n] <= lastUid'[n]
  BY <1>1
<1>4. \A r \in Ref : Present(r)' => Present(r) /\ pods'[r.name].node = pods[r.name].node
  BY DEF Present
<1>5. \A e \in hits' \cup late' : HitInv(e)
  BY DEF IInv
<1>6. QED BY <1>1, <1>2, <1>3, <1>4, <1>5, WorldStep

\* A pod goes.
LEMMA PodGoneIInv == ASSUME IInv, NEW n \in Names, PodGone(n) PROVE IInv'
<1>1. TypeOK /\ TypeOK' /\ lastUid \in [Names -> Nat]
  BY DEF IInv, TypeOK, PodGone
<1>2. \A m \in Names : pods'[m] = NoPod \/ pods'[m] = pods[m]
  BY <1>1 DEF PodGone, TypeOK
<1>3. \A m \in Names : pods'[m] # NoPod => pods'[m].uid <= lastUid'[m]
  BY <1>2 DEF IInv, PodGone
<1>4. \A m \in Names : lastUid[m] <= lastUid'[m]
  BY <1>1 DEF PodGone
<1>5. \A r \in Ref : Present(r)' => Present(r) /\ pods'[r.name].node = pods[r.name].node
  BY <1>2 DEF Present, Ref
<1>6. \A e \in hits' \cup late' : HitInv(e)
  BY DEF IInv, PodGone
<1>7. QED BY <1>1, <1>3, <1>4, <1>5, <1>6, WorldStep DEF PodGone

\* A pod is recreated: its uid is new, so it is none of the pods ever listed.
LEMMA PodRecreatedIInv ==
    ASSUME IInv, NEW n \in Names, NEW nd \in Nodes, PodRecreated(n, nd)
    PROVE  IInv'
<1> DEFINE p == [uid |-> lastUid[n] + 1, node |-> nd, terminating |-> FALSE]
<1>0. TypeOK /\ lastUid \in [Names -> Nat]
  BY DEF IInv, TypeOK
<1>1. p \in Pod /\ p # NoPod /\ p.uid = lastUid[n] + 1
  <2>1. p \in Pod /\ p.uid = lastUid[n] + 1
    BY <1>0 DEF Pod
  <2> HIDE DEF p
  <2>2. QED BY <2>1, NoJobAssumption
<1>2. /\ pods' = [pods EXCEPT ![n] = p] /\ lastUid' = [lastUid EXCEPT ![n] = @ + 1]
      /\ UNCHANGED <<clock, jobs, dr, cordoned, late, started, hits>>
  BY DEF PodRecreated
<1> HIDE DEF p
<1>3. TypeOK'
  BY <1>0, <1>1, <1>2 DEF TypeOK
<1>4. /\ \A m \in Names : m # n => pods'[m] = pods[m] /\ lastUid'[m] = lastUid[m]
      /\ pods'[n] = p /\ lastUid'[n] = lastUid[n] + 1
  BY <1>0, <1>2 DEF TypeOK
<1>5. \A m \in Names : pods'[m] # NoPod => pods'[m].uid <= lastUid'[m]
  <2> TAKE m \in Names
  <2>1. CASE m = n
    BY <2>1, <1>0, <1>1, <1>4
  <2>2. CASE m # n
    BY <2>2, <1>4 DEF IInv
  <2>3. QED BY <2>1, <2>2
<1>6. \A m \in Names : lastUid[m] <= lastUid'[m]
  BY <1>0, <1>4
<1>7. ASSUME NEW r \in Ref, r.uid <= lastUid[r.name], Present(r)'
      PROVE  Present(r) /\ pods'[r.name].node = pods[r.name].node
  <2>1. r.name \in Names /\ r.uid \in Nat /\ pods'[r.name].uid = r.uid
    BY <1>7 DEF Ref, Present
  <2>2. r.name # n
    BY <2>1, <1>0, <1>1, <1>4, <1>7
  <2>3. QED BY <2>1, <2>2, <1>4, <1>7 DEF Present
<1>8. \A e \in hits' \cup late' : HitInv(e)
  BY <1>2 DEF IInv
<1>9. QED BY <1>2, <1>3, <1>5, <1>6, <1>7, <1>8, WorldStep

\* An eviction is carried out whose sender has given up.
LEMMA LateEvictionIInv == ASSUME IInv, NEW l \in late, LateEviction(l) PROVE IInv'
<1>1. TypeOK /\ l.job \in JobIds /\ l.name \in Names /\ HitInv(l)
  BY DEF IInv, TypeOK, Late
<1>2. /\ EvictionTakesEffect(l.job, l.name) /\ late' \subseteq late
      /\ UNCHANGED <<clock, jobs, dr, cordoned, lastUid, started>>
  BY DEF LateEviction
<1>3. /\ SamePods /\ hits' \subseteq Hit
      /\ \A e \in hits' \ hits : e.job = l.job /\ e.name = l.name
  BY <1>1, <1>2, EvictionEffect
<1>4. TypeOK'
  BY <1>1, <1>2, <1>3 DEF TypeOK, SamePods
<1>5. ASSUME NEW e \in hits' \cup late' PROVE HitInv(e)
  <2>1. CASE e \in hits \cup late
    BY <2>1 DEF IInv
  <2>2. CASE e \notin hits \cup late
    BY <1>1, <1>2, <1>3, <2>2 DEF HitInv
  <2>3. QED BY <2>1, <2>2
<1>6. \A n \in Names : pods'[n] # NoPod => pods'[n].uid <= lastUid'[n]
  BY <1>2, <1>3 DEF IInv, SamePods
<1>7. \A n \in Names : lastUid[n] <= lastUid'[n]
  BY <1>1, <1>2 DEF TypeOK
<1>8. \A r \in Ref : Present(r)' => Present(r) /\ pods'[r.name].node = pods[r.name].node
  BY <1>3 DEF SamePods, Present, Ref
<1>9. QED BY <1>2, <1>4, <1>5, <1>6, <1>7, <1>8, WorldStep

\* The gateway restarts.
LEMMA RestartIInv == ASSUME IInv, Restart PROVE IInv'
<1>1. /\ dr' = [j \in JobIds |-> NoGoroutines] /\ jobs' = [j \in JobIds |-> NoJob]
      /\ UNCHANGED <<clock, pods, cordoned, lastUid, started, hits>>
      /\ late' = late \cup {l \in Late : \E r \in dr[l.job].inflight : r.name = l.name}
  BY DEF Restart
<1>2. /\ NoGoroutines \in Goroutines /\ NoGoroutines.pc = "none"
      /\ NoGoroutines.unmanaged = FALSE /\ NoGoroutines.evictable = {}
      /\ NoGoroutines.queue = {} /\ NoGoroutines.inflight = {}
      /\ NoGoroutines.accepted = {} /\ NoGoroutines.closed = FALSE
      /\ NoGoroutines.poller = "none" /\ NoGoroutines.pending = {}
  BY DEF NoGoroutines, Goroutines
<1>3. Sound(NoGoroutines, NoJob)
  BY <1>2, FS_EmptySet
     DEF Sound, Pipeline, Control, Report, Moving, Busy, Early
<1>4. TypeOK'
  BY <1>1, <1>2 DEF IInv, TypeOK
<1>5. ASSUME NEW j \in JobIds PROVE JobInv(j)'
  <2>1. dr'[j] = NoGoroutines /\ jobs'[j] = NoJob
    BY <1>1
  <2>2. Sound(dr[j], jobs[j])'
    BY <2>1, <1>3
  <2>3. (\A r \in dr[j].evictable : Anchored(r, dr[j].node))'
    BY <2>1, <1>2
  <2>4. QED BY <2>1, <2>2, <2>3, <1>2 DEF JobInv
<1>6. \A n \in Names : pods'[n] # NoPod => pods'[n].uid <= lastUid'[n]
  BY <1>1 DEF IInv
<1>7. ASSUME NEW e \in hits' \cup late' PROVE HitInv(e)'
  <2>1. CASE e \in hits \cup late
    <3>1. e.job \in JobIds /\ HitInv(e)
      BY <2>1 DEF IInv, TypeOK, Hit, Late
    <3>2. QED BY <3>1, <1>1, <1>2 DEF HitInv
  <2>2. CASE e \notin hits \cup late
    <3>1. PICK r \in dr[e.job].inflight : r.name = e.name
      BY <1>1, <2>2
    <3>2. e.job \in JobIds
      BY <1>1, <2>2 DEF Late
    <3>3. r \in dr[e.job].evictable /\ dr[e.job].pc = "evicting"
      BY <3>1, <3>2, JobFacts DEF Sound, Pipeline, Moving
    <3>4. classifyPod(Attrs[e.name]) = "evict"
      BY <3>1, <3>2, <3>3, JobFacts DEF Anchored
    <3>5. e.job \in started
      BY <3>2, <3>3 DEF IInv, JobInv
    <3>6. QED BY <3>2, <3>4, <3>5, <1>1, <1>2 DEF HitInv
  <2>3. QED BY <2>1, <2>2
<1>8. OneDrainPerNode'
  BY <1>1, <1>2 DEF OneDrainPerNode, Active
<1>9. QED BY <1>4, <1>5, <1>6, <1>7, <1>8 DEF IInv

\* A drain is started on a node that no unfinished job names.
LEMMA StartDrainIInv ==
    ASSUME IInv, NEW nd \in Nodes, NEW j \in JobIds, StartDrain(nd, j)
    PROVE  IInv'
<1> DEFINE g == [NoGoroutines EXCEPT !.pc = "start", !.node = nd]
           job == [node |-> nd, phase |-> "pending", evicted |-> {}, skipped |-> {},
                   remaining |-> 0, updatedAt |-> clock]
<1>0. TypeOK
  BY DEF IInv
<1>1. /\ dr' = [dr EXCEPT ![j] = g] /\ jobs' = [pruneDrainJobs EXCEPT ![j] = job]
      /\ started' = started \cup {j} /\ j \notin started /\ Unfinished(nd) = {}
      /\ UNCHANGED <<clock, pods, cordoned, lastUid, late, hits>>
  BY DEF StartDrain, MayStart, cluster
<1>2. /\ g \in Goroutines /\ g.pc = "start" /\ g.node = nd /\ g.unmanaged = FALSE
      /\ g.evictable = {} /\ g.queue = {} /\ g.inflight = {} /\ g.accepted = {}
      /\ g.closed = FALSE /\ g.poller = "none" /\ g.pending = {}
  BY DEF NoGoroutines, Goroutines
<1>3. job \in Job /\ job.node = nd /\ job.phase = "pending" /\ job.evicted = {}
  BY <1>0 DEF Job, TypeOK
<1> HIDE DEF g, job
<1>4. job # NoJob
  BY <1>3, NoJobAssumption
<1>5. Sound(g, job)
  BY <1>2, <1>3, <1>4, FS_EmptySet
     DEF Sound, Pipeline, Control, Report, Moving, Busy, Early
<1>6. /\ dr'[j] = g /\ jobs'[j] = job
      /\ \A i \in JobIds : i # j => dr'[i] = dr[i] /\ jobs'[i] = pruneDrainJobs[i]
  BY <1>0, <1>1 DEF TypeOK, pruneDrainJobs
<1>7. \A i \in JobIds : /\ pruneDrainJobs[i] \in Job \cup {NoJob}
                        /\ \/ pruneDrainJobs[i] = jobs[i]
                           \/ pruneDrainJobs[i] = NoJob /\ drainFinished(jobs[i])
  BY <1>0 DEF pruneDrainJobs, Prunable, TypeOK
<1>8. TypeOK'
  <2>1. jobs' \in [JobIds -> Job \cup {NoJob}]
    <3>1. pruneDrainJobs \in [JobIds -> Job \cup {NoJob}]
      BY <1>0 DEF pruneDrainJobs, TypeOK
    <3>2. QED BY <1>1, <1>3, <3>1
  <2>2. QED BY <1>0, <1>1, <1>2, <2>1 DEF TypeOK
<1>9. ASSUME NEW i \in JobIds PROVE JobInv(i)'
  <2>0. \A r : Present(r)' = Present(r)
    BY <1>1 DEF Present
  <2>1. CASE i = j
    <3>1. Sound(dr[i], jobs[i])'
      BY <2>1, <1>5, <1>6
    <3>2. (\A r \in dr[i].evictable : Anchored(r, dr[i].node))'
      BY <2>1, <1>2, <1>6
    <3>3. (\A r \in jobs[i].evicted : ~Present(r))'
      BY <2>1, <1>3, <1>6
    <3>4. QED BY <2>1, <3>1, <3>2, <3>3, <1>1 DEF JobInv
  <2>2. CASE i # j
    <3>1. JobInv(i) /\ dr'[i] = dr[i] /\ jobs'[i] = pruneDrainJobs[i]
      BY <2>2, <1>6 DEF IInv
    <3>2. Sound(dr[i], jobs[i])'
      <4>1. CASE jobs'[i] = jobs[i]
        BY <3>1, <4>1 DEF JobInv
      <4>2. CASE jobs'[i] = NoJob /\ drainFinished(jobs[i])
        <5>1. ~Busy(dr[i])
          BY <3>1, <4>2 DEF JobInv, Sound, Report, drainFinished
        <5>2. Report(dr[i], NoJob)
          BY <5>1 DEF Report, Busy
        <5>3. QED BY <3>1, <4>2, <5>2 DEF JobInv, Sound
      <4>3. QED BY <3>1, <4>1, <4>2, <1>7
    <3>3. (\A r \in dr[i].evictable : Anchored(r, dr[i].node))'
      BY <3>1, <1>1, <2>0 DEF JobInv, Anchored
    <3>4. (jobs[i] # NoJob => \A r \in jobs[i].evicted : ~Present(r))'
      BY <3>1, <1>7, <2>0 DEF JobInv
    <3>5. QED BY <3>1, <3>2, <3>3, <3>4, <1>1 DEF JobInv
  <2>3. QED BY <2>1, <2>2
<1>10. \A n \in Names : pods'[n] # NoPod => pods'[n].uid <= lastUid'[n]
  BY <1>1 DEF IInv
<1>11. ASSUME NEW e \in hits' \cup late' PROVE HitInv(e)'
  <2>1. HitInv(e) /\ e.job \in JobIds /\ e.job # j
    BY <1>0, <1>1 DEF IInv, TypeOK, Hit, Late, HitInv
  <2>2. QED BY <2>1, <1>1, <1>6 DEF HitInv
<1>12. OneDrainPerNode'
  <2>1. ASSUME NEW i \in JobIds, i # j, Active(i)' PROVE dr'[i].node # nd
    <3>1. Busy(dr[i]) /\ dr'[i] = dr[i]
      BY <2>1, <1>6 DEF Active, Busy
    <3>2. jobs[i] # NoJob /\ jobs[i].node = dr[i].node /\ ~drainFinished(jobs[i])
      BY <3>1 DEF IInv, JobInv, Sound, Report, drainFinished
    <3>3. QED BY <3>1, <3>2, <1>1 DEF Unfinished
  <2>2. \A i \in JobIds : i # j => (Active(i)' <=> Active(i)) /\ dr'[i].node = dr[i].node
    BY <1>6 DEF Active
  <2>3. dr'[j].node = nd
    BY <1>2, <1>6
  <2>4. QED BY <2>1, <2>2, <2>3 DEF IInv, OneDrainPerNode
<1>13. QED BY <1>8, <1>9, <1>10, <1>11, <1>12 DEF IInv

-----------------------------------------------------------------------------
(* The invariant and what it implies. *)

\* Init establishes the invariant.
LEMMA InitIInv == Init => IInv
<1> SUFFICES ASSUME Init PROVE IInv
  OBVIOUS
<1>1. /\ NoGoroutines \in Goroutines /\ NoGoroutines.pc = "none"
      /\ NoGoroutines.unmanaged = FALSE /\ NoGoroutines.evictable = {}
      /\ NoGoroutines.queue = {} /\ NoGoroutines.inflight = {}
      /\ NoGoroutines.accepted = {} /\ NoGoroutines.closed = FALSE
      /\ NoGoroutines.poller = "none" /\ NoGoroutines.pending = {}
  BY DEF NoGoroutines, Goroutines
<1>2. Sound(NoGoroutines, NoJob)
  BY <1>1, FS_EmptySet
     DEF Sound, Pipeline, Control, Report, Moving, Busy, Early
<1>3. \A n \in Names : pods[n] \in Pod /\ pods[n].uid = 0
  BY DrainAssumption DEF Init, Pod
<1>4. TypeOK
  BY <1>1, <1>3 DEF Init, TypeOK
<1>5. \A j \in JobIds : dr[j] = NoGoroutines /\ jobs[j] = NoJob
  BY DEF Init
<1>6. \A j \in JobIds : JobInv(j)
  BY <1>1, <1>2, <1>5 DEF JobInv
<1>7. \A n \in Names : pods[n] # NoPod => pods[n].uid <= lastUid[n]
  BY <1>3 DEF Init
<1>8. OneDrainPerNode
  BY <1>1, <1>5 DEF OneDrainPerNode, Active
<1>9. QED BY <1>4, <1>6, <1>7, <1>8 DEF IInv, Init

\* Every step preserves it.
LEMMA NextIInv == IInv /\ [Next]_vars => IInv'
<1> SUFFICES ASSUME IInv, [Next]_vars PROVE IInv'
  OBVIOUS
<1>1. CASE \E nd \in Nodes, j \in JobIds : StartDrain(nd, j)
  BY <1>1, StartDrainIInv
<1>2. ASSUME NEW j \in JobIds, OwnStep(j) PROVE IInv'
  BY <1>2, ExpireIInv, RunStartIInv, RunCordonIInv, RunListIInv, RunListFailedIInv,
     WorkerTakeIInv, WorkerFailedIInv, CloseAcceptedIInv, PollReceiveIInv,
     PollClosedIInv, PollFailedIInv, PollExitIInv, RunFinishIInv DEF OwnStep
<1>3. ASSUME NEW j \in JobIds, ClusterStep(j) PROVE IInv'
  BY <1>3, WorkerEvictedIInv, WorkerFailedIInv, PollTickIInv DEF ClusterStep
<1>4. CASE Tick
  <2>1. clock' \in Nat /\ cordoned' \subseteq Nodes
    BY <1>4 DEF IInv, TypeOK, Tick, cluster
  <2>2. QED BY <1>4, <2>1, QuietStep DEF Tick, cluster
<1>5. CASE \E nd \in Nodes : SetCordon(nd)
  <2>1. clock' \in Nat /\ cordoned' \subseteq Nodes
    BY <1>5 DEF IInv, TypeOK, SetCordon
  <2>2. QED BY <1>5, <2>1, QuietStep DEF SetCordon
<1>6. CASE World
  BY <1>4, <1>5, <1>6, RestartIInv, PodGoneIInv, PodRecreatedIInv, LateEvictionIInv DEF World
<1>7. CASE UNCHANGED vars
  <2>1. clock' \in Nat /\ cordoned' \subseteq Nodes
    BY <1>7 DEF IInv, TypeOK, vars
  <2>2. QED BY <1>7, <2>1, QuietStep DEF vars
<1>8. QED BY <1>1, <1>2, <1>3, <1>6, <1>7 DEF Next

\* The inductive invariant holds in every reachable state.
THEOREM Invariance == Spec => []IInv
BY InitIInv, NextIInv, PTL DEF Spec

\* No goroutine and no registry entry ever leaves its type: remaining never
\* becomes negative and an update never writes to a pruned job.
THEOREM TypeCorrect == Spec => []TypeOK
<1>1. IInv => TypeOK
  BY DEF IInv
<1>2. QED BY <1>1, Invariance, PTL

\* At most one drain works on a node, however StartDrain calls, finishes, prunes
\* and restarts interleave: a job under way is always in the registry, unfinished
\* and under its node, where StartDrain looks for it.
THEOREM OneDrainPerNodeHolds == Spec => []OneDrainPerNode
<1>1. IInv => OneDrainPerNode
  BY DEF IInv
<1>2. QED BY <1>1, Invariance, PTL

\* A drain reported as succeeded recorded every pod it listed, and each is gone.
THEOREM SucceededMeansGoneHolds == Spec => []SucceededMeansGone
<1>1. IInv => SucceededMeansGone
  BY DEF IInv, JobInv, Sound, Report, SucceededMeansGone
<1>2. QED BY <1>1, Invariance, PTL

\* A pod is recorded as evicted only when it is gone for good: the poller matches
\* by uid, and a replacement never bears the uid of a pod that was listed.
THEOREM RecordedIsGoneHolds == Spec => []RecordedIsGone
<1>1. IInv => RecordedIsGone
  BY DEF IInv, JobInv, RecordedIsGone
<1>2. QED BY <1>1, Invariance, PTL

\* The reported count is the number of listed pods not yet recorded, for any
\* number of workers: the clamp at zero never hides a miscount.
THEOREM RemainingIsExactHolds == Spec => []RemainingIsExact
<1>1. IInv => RemainingIsExact
  BY DEF IInv, JobInv, Sound, Report, Busy, RemainingIsExact
<1>2. QED BY <1>1, Invariance, PTL

\* Once a job has an outcome no worker and no poller of it is at work.
THEOREM NoStragglersHolds == Spec => []NoStragglers
<1>1. IInv => NoStragglers
  BY DEF IInv, JobInv, Sound, Control, NoStragglers
<1>2. QED BY <1>1, Invariance, PTL

\* Only pods fit for eviction are evicted, and a job that met an unmanaged pod
\* evicts nothing, also when a pod was replaced between the list and the eviction.
THEOREM SparesUnmanagedHolds == Spec => []SparesUnmanaged
<1>1. IInv => SparesUnmanaged
  BY DEF IInv, HitInv, SparesUnmanaged
<1>2. QED BY <1>1, Invariance, PTL
=============================================================================
