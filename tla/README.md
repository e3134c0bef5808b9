# ClusterOrbit: a TLA+ verification project

ClusterOrbit shows Kubernetes clusters on a phone. A Go gateway
(`src/app/gateway`) talks to the clusters and offers a small HTTP API with
snapshots, events and five guarded mutations (scale, restart, cordon, uncordon,
drain); a Flutter app (`src/app/mobile`) shows what it finds there, from a local
cache first. This project models the parts of both that keep state across
concurrent steps, checks them with TLC on small instances, and proves the most
important properties with TLAPS for every instance.

## 1. Inventory

| Component | State | Operations | What is hard | What makes it correct |
|---|---|---|---|---|
| Approval store and handlers (`api/approval.go`, `approval_http.go`) | requests by id behind a mutex | Park, Get, List, Approve, Reject, Complete; lazy expiry and sweep | each handler takes the lock several times and runs the mutation outside it; the deadline is on the wall clock; panics; restarts | nothing gated runs without a second person, nothing runs twice, a refusal is final, an outcome is audited and kept |
| Mutation handlers and policies (`api/handlers.go`, `policy.go`, `validate.go`) | none | validation, ScalePolicy, NodePolicy, op-classes | a drain cordons first, so it has to pass every gate a cordon has to pass | the gates agree with each other |
| Rate limiter (`api/ratelimit.go`) | token buckets by key behind a mutex | Allow, with refill, age eviction, forced eviction | the map at its cap, fractions of a token, forgetting a bucket | bounded memory, no key gets more than its burst and rate, a patient client is served |
| Node drain (`kubebackend/drain.go`) | job registry behind a mutex; per job a goroutine, eviction workers, a poller, a channel, a deadline | StartDrain, DrainStatus, runDrain, evictAll, evictPod, awaitPodsGone | goroutines, the deadline and the cluster interleave; evictions are by name; a 429 can last for ever | one drain per node, success means gone, no goroutine outlives the outcome, every drain ends |
| Reads (`kubebackend/backend.go`, `transform.go`) | none between calls; eight goroutines and an error channel per snapshot | LoadSnapshot, LoadEvents, the transformation | the lists are read one by one, from a watch cache, while the cluster changes; any may fail | links, alerts and health are those of the listed objects, a failed list is never left out, the newest events are shown |
| Mutations of the backend (`backend.go`, `rest_client.go`, `multi.go`) | the registered clusters | scale, restart, cordon; routing by cluster id | a call that failed may have been applied, or be applied later | the status tells what happened, on the cluster that was named |
| Kubeconfig (`kubeconfig.go`) | none | path choice, parse, resolve one context or all | entries that refer to missing or broken ones | exactly the usable contexts are served, each with its own server and credentials |
| Gateway process (`cmd/clusterorbit-gateway/main.go`) | configuration | start, serve, graceful stop | some thirty settings, each of which can be misspelled; requests in flight at a stop | a control that is set is on; an unusable configuration is refused |
| Cluster session controller (`cluster_session_controller.dart`) | list, selection, snapshot, flags, two generation counters | bootstrap, retry, refresh, cycleCluster, dispose | every call awaits several times and answers arrive in any order, after a switch or a dispose | no cluster under another's name, the user's switch wins, no spinner without an owner, cached data is flagged |
| Entity events controller (`entity_events_controller.dart`) | events of the entity shown, flags, a generation, a timer | load, poll, refresh, dispose | polls overlap; a fetch reads the panel's connection and cluster late | only the entity's own events are shown and cached, loading ends |
| Snapshot store (`snapshot_store.dart`) | sqlite tables per connection | save, load, delete | several transactions per operation | a cached entry is what was saved under its key |
| Detail panel, drain dialog, root gate, screens, connections | widgets' state | poll loops, one mutation at a time | answers after the widget has gone | not modelled, section 6 |

How they interact: a mutation handler asks the policies, then either parks a
request in the approval store or calls the backend; the handler of an approval
calls the backend itself. A drain is a backend call that returns a job id, and the
job goes on in goroutines of its own. All of the gateway's state is in memory, so
a restart loses it, while what reached the cluster stays. On the phone, the
controllers call a connection (the gateway or a cluster directly) and a store, and
share nothing with each other but the store.

## 2. Modules

| Module | Models | State in the code |
|---|---|---|
| `GatewayPolicy` | the gates of a mutation, as operators | `ScalePolicy`, `NodePolicy`, op-classes (constants) |
| `Kubeconfig` | from a file to the clusters served, as operators | `Document`, `ResolvedCluster`, `MultiClusterBackend.profiles` |
| `GatewayConfig` | what `main` makes of the environment, as operators | the fields of `api.Server` |
| `Gateway` | the process: boot, requests, API servers, shutdown; composes `GatewayConfig`, `Kubeconfig` and `GatewayPolicy` | `proc`, `grace` = where `main` is; `stage`, `left`, `status` = the handler of each request; `effect` = what the API server did; `audit` = the log, `unwritten` = the entries lost on the way to it |
| `Topology` | `transform.go`, as operators | `rawLists`, `ClusterSnapshot` |
| `ClusterReads` | snapshot and event requests over a changing cluster | `fetch`, `errCh` = LoadSnapshot's goroutines and channel |
| `Approvals` | store and handlers | `reqs` = `ApprovalStore.reqs`; `hs` = where each handler goroutine is, with its locals; `clock` = the wall clock |
| `TwoPersonFlow` | what the flow promises, abstractly | per request: phase, requester, approver, number of runs |
| `ApprovalsProofs`, `FlowProofs` | proofs about `Approvals`, and that it implements `TwoPersonFlow` | |
| `RateLimiter`, `RateLimiterProofs` | the limiter, and proofs about it | `buckets`, `lastEvict` |
| `Drain` | registry, goroutines, and the cluster they touch | `jobs` = `drainJobs`; `dr` = the goroutines and the channel of each job; `pods`, `cordoned` = the cluster; `late` = evictions given up on that may still take effect |
| `DrainProofs`, `SessionProofs`, `EventsProofs`, `GatewayProofs`, `ReadsProofs` | proofs about `Drain`, `ClusterSession`, `EntityEvents`, `Gateway` and `ClusterReads` | |
| `ClusterSession` | the session controller with its cache | the private fields of the controller; `loads` = the async calls in flight |
| `EntityEvents` | the events controller with its cache | likewise; `fetches` |
| `MC...` | the instances TLC checks | |

The grain of atomicity follows the code. In `Approvals` one action is what a
handler does under one hold of the store lock, or its call of the backend; an
approval is three lock holds (`ApproveLookup`, `Approve`, `Complete`) with
`executePending` in between. In `Drain` one action is what a goroutine does
between two API calls or channel operations; an API call is one action with its
effect, and a call that fails has taken effect, never will, or does so later
(`late`, `LateEviction`). In the two controllers one
action is what runs between two awaits: Dart runs it without interruption. In
`ClusterReads` one action is the end of one list call, or a send on the channel. In
`Gateway` a request passes the gates in one action (they share no state), and then
the API server's work, its reply, the audit entry and the answer are one action
each, so that a timeout, a signal or a kill can fall between any two.

Variables marked "History" in the modules (`issued`, `runs`, `execs`, `audited`,
`hits`, `allowance`, `grantedAt`, `answer`, `chosen`, and `unwritten` in `Gateway`) record what the
outside world saw, and no action's guard reads them, with one exception: `issued`
and `started` keep a random id from being given out twice.

### Abstractions

- Ids of requests and jobs (96 and 128 random bits) are never reused.
- The wall clock of the approval store may be stepped in both directions
  (`UnixMilli` has no monotonic reading), anywhere between 0 and `MaxTime`, between
  two actions and inside one: where the store reads the clock again under one lock
  hold, to stamp a record it has checked or for the next record of a sweep, the
  first reading is `clock` and a later one `clock'` (a sweep's check of each record
  is either). `Park`'s two readings before the lock are one: nothing compares the
  stamp of a pending record. The limiter and the drain registry see a clock that
  does not go back, read once in an action.
- A mutation is the record a handler has after decoding: whether the id is valid,
  its kind, its namespace, its target. Texts and JSON are left out; status codes are
  kept in `Gateway` and `ClusterReads`.
- A setting is its raw value: a trimmed word, the list of its parts, a number, unset,
  or set to something that is no number. A byte field of a kubeconfig is what can be
  told of it: absent, not base64, PEM or not; a file reference is what is found there.
  `strings.ToLower` is a constant, `ToLower`: in the run it lowers the words with
  capitals that occur there, and the proofs take any operator. A list of names is
  the set of them; the list of tokens is the set of places of the
  candidates that went into it, since its length counts.
- An error that `main` answers with `log.Fatal` is the value `Err`; an operation of
  `Kubeconfig` that may fail is the set of its results.
- Token fingerprints of distinct tokens differ (they are 48 bits of a SHA-256).
- Time in `Gateway` runs in units of ten seconds, and only while a call or a shutdown
  is timed. The limiter may refuse any request when there is one. A path that names
  no mutation or no target (404) is not a call of the model.
- A backend call can panic, in `Gateway` before it sends anything or while it waits;
  `recoverMiddleware` answers 500. Redirects of an API server are not modelled.
- `audit` in `Gateway` may be off, and a write may fail, which the sink ignores
  (`main.go:429`). In `Approvals` an audit entry is what a handler hands to the sink.
- The objects of a list are a set of records with the fields that decide links, health
  and alerts; labels and selectors are sets of pairs, and a label that is not there
  reads as the empty value (`Match`), as in `transform.go:612`. The reference `View`
  wants the pair itself, as Kubernetes does. The API server may answer a list
  with any state of the cluster so far (`resourceVersion=0`).
- Tokens are integers, `Cost` of them to a request; float rounding is left out.
- What `classifyPod` reads of a pod does not change during a run. Anybody may cordon
  or uncordon a node at any time (`SetCordon`), a cordon carried out late included.
- In `ClusterSession` a snapshot is the cluster it is of and when it was asked for,
  not what it shows: the gateway reads with `resourceVersion=0`
  (`backend.go:103-105`), so a later answer can show an earlier state, and no
  property of the controller could say otherwise. In `EntityEvents` a list of events
  is a version of the cluster: `LoadEvents` reads without `resourceVersion`, so an
  answer is at least as new as its request. A `ClusterProfile` has no `==`, so it is its id and the
  list it came from.
- The session's refresh is offered only while nothing is loading, as by the shell
  and its timer.
- `saveProfiles` is one action with the outcomes of its two transactions: only one
  list save can be in flight, and nobody reads the list before the next start.

## 3. Runs

| Run | Instance | Question |
|---|---|---|
| `approvals_store` | 2 handlers, 2 requests, panics | Do the safety properties survive every interleaving of two handlers over two requests, with sweeps, expiry, panics, restarts and clock steps, also within a lock hold? |
| `approvals_live` | 2 handlers, 1 request, 2 clusters, with and without tokens | Does the flow implement `TwoPersonFlow`, does the ownership check still hold when it is used, do the gates of cordon hold for drain too, does nothing gated run while nobody can be told apart, and does every approved request resolve if nothing panics? |
| `limiter` | 3 keys, a cap of 2, 6 ticks | Memory, quota and service, through age eviction and forced eviction. |
| `drain_evict` | 1 job, 3 pods, 2 workers | Is a job's report true through failures, the deadline, replaced pods, a restart, and evictions carried out late? |
| `drain_jobs` | 2 jobs, 2 nodes, 3 kinds of pod, fairness | Registry, refusal over unmanaged pods, and termination. |
| `drain_replaced` | 1 pod | Violation: a replacement is evicted (finding 1). |
| `snapshot` | 2 clusters of 2 states, 8 lists, 2 failures; 251 event lists, 6 queries; fairness | Is a snapshot what the lists say, and does it stay right for what did not change when they are torn? Is the feed the newest events? Does every read end? |
| `gateway` | 213 environments, 24 calls, 1 request, fairness | Does every setting take effect, does a mutation land where it was named, do status and audit log tell the truth about it, with panics and lost audit writes, and does every call and every shutdown end? |
| `shutdown` | 2 requests, 1 environment | Violation: requests in flight are lost (finding 3). |
| `session` | 3 loads, 2 clusters, 3 lists, 3 generations, 2 times | What is on screen while answers arrive in any order, and that they do not overtake each other there. |
| `session_empty` | a server that lists nothing | Violation: cached data on screen as if live (finding 2). |
| `events` | 3 fetches, 2 clusters, 2 entities, fairness | What the panel shows and caches, and that loading ends. |

Why the bounds are enough. Two handlers are all that can meet at one request in
one step, and two requests let a sweep drop one while the other executes; `TTL = 1`,
`MinRetention = 1` and `MaxTime = 2` let a request be approved in time, expire, and
outlive its retention. The proofs remove these bounds for the safety properties.
The limiter's clock passes `EvictAfter` twice; a token is one and a half
ticks' refill, so fractions of tokens matter. Three pods and two workers leave one
pod queued while two are in flight, which a cancellation has to flush; one
replacement per name suffices for a stale name. Three loads are a superseded
bootstrap, a superseded switch or refresh, and the current one; a list in another
order and a list that lost a cluster tell ids from positions. Three fetches are
two overlapping polls and one of an entity that has been left.

The environments of `gateway` are a working one and what each single setting, or two
that interact (tokens and approvals, both rates, the TLS files, the node lists), can
make of it; settings that do not interact meet in one `Server` but in different
gates. The kubeconfigs spoil one entry of a working file at a time. One request is
enough there because requests share only the limiter and the stores, which have
modules of their own; `shutdown` has two, since `Shutdown` waits for all. `CallTime =
3` and `ShutdownTime = 2` are the 30 s and 20 s of the code. The clusters of
`snapshot` change in one step that touches four lists, so each mix of old and new
lists is a torn snapshot; one has two namespaces with the same names and labels, the
other Jobs, crash loops and unscheduled pods; a label and a selector of the empty
value are among them, as far as `NeverBlank` allows (section 4). `DefaultLimit` is 2
instead of 5, so
that lists of three events are cut.

Symmetry is used only in runs without temporal liveness properties. The largest runs
are `drain_evict` (3,143,640 distinct states), `drain_jobs` (934,076) and `session`
(804,826). `CHECK_DEADLOCK FALSE` is set for the two controllers, which rest once disposed, and
for the gateway, whose process ends.

### Fairness

- `Approvals!FairSpec`: a handler that can go on does. The store's lock is held for
  short sections only, and each backend call returns because `RestClient` has a
  30 s timeout (`rest_client.go:76`). Nothing is assumed of clients and the clock.
- `Drain!FairSpec`: goroutines run, API calls return (same timeout), and the
  deadline fires (5 minutes, `backend.go:68`). Not assumed: that an eviction is
  ever accepted, or that an evicted pod ever goes. `DrainEnds` rests on the
  deadline alone.
- `ClusterReads!FairSpec`: list calls return (same timeout), goroutines and the
  handler run. Nothing is assumed of the number of failures.
- `Gateway!FairSpec`: time passes, the client timeout and the shutdown timeout fire,
  and a handler that has its reply goes on. Nothing is assumed of API servers: they
  may never answer.
- `EntityEvents!FairSpec`: every await ends; connections have timeouts.

For the session no liveness is checked; `BusyHasOwner` is the safety half: the busy
flags always belong to a current load in flight, which takes them down when it
resumes, whatever its answer.

## 4. Findings

1. `drain_replaced`: evictions carry no UID precondition, so a pod recreated under a
   listed name is evicted, also on another node. The poller does tell the two apart
   (`RecordedIsGone` holds); the eviction does not.
2. `session_empty`: an empty live list behind a cached snapshot leaves that snapshot
   on screen with the busy flag down and no stale error.
3. `shutdown`: `main` waits 20 s for requests in flight (`main.go:117`), but a handler
   may wait 30 s for its API server (`rest_client.go:76`). After 20 s the process ends
   with the mutation sent, the client unanswered and nothing in the audit log, although
   `main.go:94-96` says that requests and audit writer get to finish.

Observed while modelling, without a run. A panic in an approved backend call unwinds
`handleApprove` past `Complete`: the request stays "approved", which `approval.go:21`
calls transient, until a restart (`ApprovedResolves` therefore excludes panics; the
safety properties include them). An approve attempt that ends in 404 writes no audit
entry, against `approval_http.go:102`. A signal ends the drains running in the
background. Lists torn by a rollout can lose a workload's link to its node and raise
"Service has no backing workloads" for a moment; `SnapshotIsFaithful` promises nothing
for a namespace that changes while it is read. The stamp of an approval is a later
reading than its check, so an approval can be dated at or after the deadline;
`ApprovedInTime` speaks of the reading that was checked. With a clock stepped back, one
sweep can expire a request and forget it at once, so its client may never see
"expired" (`Forget` in `TwoPersonFlow`). Of two overlapping polls in `EntityEvents` the first answer
clears the refresh badge of both, and an older answer can replace a newer one; an
older snapshot can be the last one written to the session's cache; `saveProfiles`
is two transactions.

Exceptions. Three properties are false of the code in a case that they therefore name
and exempt; each case is in the model, so that the rest is checked beside it.
- `SettingsTakeEffect`: a client CA without certificate and key is not looked at
  (`main.go:368-370`), and the gateway serves plain HTTP to anybody, although
  `src/app/gateway/README.md:44` says of it "Enable mTLS — clients must present a cert
  signed by this CA". Every other setting that is half set is refused.
- `AnsweredIsAudited`: a mutation whose backend call panics is answered 500 by
  `recoverMiddleware` (`handlers.go:102-113`), past its audit call, although it may
  have been applied; an entry that cannot be written is dropped (`main.go:429`) and
  the client answered all the same; and 401 and 429 come from middleware that does
  not audit. Against that, `src/README.md:32` promises a log "of every mutation",
  `src/app/gateway/README.md:3` "for every mutation", and `handlers.go:59` says that
  the sink "records every mutation request (success or failure)".
- `SnapshotIsFaithful`: a service that selects the empty value of a label is linked to
  pods that lack the label, and raises no "Service has no backing workloads", since
  `labels[k] != v` (`transform.go:612`) does not tell an absent label from an empty
  one. Kubernetes does.

## 5. Proofs

`ApprovalsProofs`, for every set of ids, handlers, identities, clusters and
mutations, every policy, TTL and retention: `TypeOK`, `TwoPersonRule`,
`RunsAtMostOnce`, `RefusedNeverRuns`, `ApprovedIsHeld`, `OwnershipHolds`,
`ApprovedInTime` (an action property), `OutcomeAudited`. None is inductive by itself. The inductive
invariant `IInv` adds
- for each handler (`HandlerInv`), what it knows at its place: a handler that is
  executing holds (`Holds`) a copy equal to the stored record, which is approved
  by somebody other than its requester, and the request has not run yet; after it,
  exactly once, and audited;
- that no two handlers execute one request (`OneHolder`): `Approve` leaves
  "pending", and nothing returns there;
- for each request (`RequestInv`), how often it has run, given its phase.

`TwoPersonRule` also says that nothing gated runs without tokens; this half has an
inductive invariant of its own (`AuthInv`): without tokens no handler gets past the
gate of `handleApprove`, so none is ever approving or executing. `IInv` gives the
other half (`SecondPerson`).

The argument is one lemma per action. The actions that only expire and sweep
(`GetApproval`, `ListApprovals`, lookups, refusals) share one lemma (`QuietStep`)
on what such an operation may do to a record (`Settles`): expire a pending one, or
drop a resolved one. Since it never touches an approved one, `Holds` survives.

`RateLimiterProofs`, for every finite set of keys and all parameters: `TypeOK` and
`BoundedMemory`; `PatientClientServed` where `Capacity >= Cost`; `QuotaHolds` where
`Lossless` (`Capacity <= Rate * EvictAfter`). The invariants relate a bucket to the
time since the key's last grant (`KeyInv`) and to the ideal bucket
(`LevelMatches`). The two assumptions are configuration: `NewRateLimiter` accepts
every positive burst (`ratelimit.go:41`), and a burst below one token denies every
request; a burst that takes longer than ten minutes to refill is handed back early
by the age eviction. The run's instance satisfies both.

`FlowProofs`, from the same invariant and for the same constants: `DrainGuardedAsCordon`
and `ImplementsFlow`. The first needs what `IInv` leaves out (`GateInv`): a record is
parked only after the policy let its mutation through, and without an approver. The
policy that lets a drain through lets a cordon through (`DrainPolicy`), and the gate
that parks a cordon parks a drain (`DrainParks`); so a drain that ran was vetted, and
where cordon is gated it was parked and approved. For the refinement every step of
`Approvals` is first given one of a few shapes (`NextShape`: parked, granted, resolved,
ran, completed, only settled, restarted), and each shape is shown to move each request
by one step of `TwoPersonFlow` or to keep it; an action that lets many requests expire
at once moves many, which `TwoPersonFlow` allows.

`DrainProofs`, for every set of nodes, jobs and pods, any number of workers, any
retention and any number of replacements: `TypeOK`, `OneDrainPerNode`,
`SucceededMeansGone`, `RecordedIsGone`, `RemainingIsExact`, `NoStragglers`,
`SparesUnmanaged`. The invariant follows each listed pod through the queue, the
workers, the channel and the poller (`Pipeline`): it is in one place at a time, and
nothing follows a close. A late eviction is one of a pod that was listed as evictable
(`HitInv` speaks of `hits` and `late` alike), and all it can do is mark the pod that
has the name. `Report` ties the goroutines to the record: what is neither
on its way nor recorded means that the job has failed, so a job that succeeds has
recorded everything. `Anchored` says what makes a recorded pod stay gone: uids only
grow, so the poller that saw another uid under the name saw a replacement. Assumed:
pod names are finitely many.

`SessionProofs`, for every set of clusters, every set of lists the server can answer
with and any number of loads: `TypeOK`, `ShownIsSelected`, `SelectedIsListed`,
`SwitchWins`, `BusyHasOwner`, the action property `NeverOvertaken`, and `StaleIsFlagged`
where the server never answers with an empty list (`<<>> \notin Lists`); with one it is
false, finding 2. At most one load is current, and while it is in flight it owns the
screen (`Owner`): the invariant says, for each place it can be at, what the screen
shows, and that the busy flags are its own. A load that is not current changes the
screen only where a switch overtook a bootstrap, and then it replaces the selected
profile by one with the same id. For `NeverOvertaken` the invariant says that what is on screen was
asked for no later than what the current load awaits (`asked`).

`EventsProofs`, for every set of clusters and entities and any number of fetches:
`TypeOK`, `ShownIsLoaded`, `CachedUnderOwnKey`. A fetch of the current generation is
for what the panel shows (`Sound`), and generations only grow, so one that was
overtaken never becomes current again. That is why a fetch may take its cluster, and
later the profile it saves under, from the screen.

`GatewayProofs`, for every set of requests, raw settings and calls, and both times:
`StatusTellsEffect`, `AnsweredIsAudited`, `ApprovalsCanResolve`, `SettingsTakeEffect`,
`LandsWhereNamed`. The lemmas on `GatewayConfig` say what a configuration that did not fail holds:
`TokensFacts` (the tokens kept are the ones set, each once; the first occurrence of a
token is kept because the order of places is well-founded), `TwoTokens`,
`NumberFacts`, `ScalePolicyFacts`, `NodePolicyFacts`, `ApprovalPolicyFacts`,
`LimiterFacts`, `TLSFacts`. The invariant says for each request (`Standing`) by what
right it is where it is: what took effect or was parked has passed every gate of the
configuration the process booted with; what runs inline is not one of the gated
operations; a status, once known, says of the mutation only what no later step
revokes (`Told`: a late effect of a failed, timed-out or panicked call meets no status
but 502 or 500); and a handler that is past its audit call is in the log, or in
`unwritten`, or was answered by middleware. One lemma per action; those that
end the process share one (`BystandersIInv`). Assumed of the settings, as raw strings
are: words and tokens are strings, rates are numbers, unset or garbled
(`GatewayAssumption`); TLC evaluates it.

`LandsWhereNamed` has an invariant of its own beside `IInv`: the configuration is that
of the settings the process booted with, and what was sent went to the server, with
the token, of the profile `Route` finds (`Delivery`). The rest is about the kubeconfig,
as it is read from the file: `Resolve` joins the entries its context names, and at most
one result comes out (`ResolveFacts`); `ResolveAll` makes a list of such
(`ResolveAllFacts`); `NewMultiClusterBackend` passes over an id it has, so no two
profiles share one, although a kubeconfig may name a context twice (`RegisterFacts`);
so every profile says what the first context of its name says (`Named`). Assumed: the
contexts of a kubeconfig are a list of records of strings.

`ReadsProofs`, for every history of every cluster, any interleaving of list calls,
failures and changes: `SnapshotIsFaithful`, where no object has two owners of the kinds
that count (`Owned`). Kubernetes lets an object have several owners, of which at most
one is its controller; of several the code follows the first, and the reference
`Runs` any, so the hypothesis is needed; the run's histories satisfy it (`MCSinglyOwned`).
`NeverBlank`, part of the property, is what makes `Match` agree with the reference.
Three parts. `ShowsView`: what `transformSnapshot` makes of eight lists, whatever they
hold, is their `View`; the owner walk is `PodRuns` (`FirstOwner` finds the one owner
that counts), health `ItemFacts`, services `ServiceFacts`. `ViewWithin`: owners,
selectors and ailments do not reach beyond a namespace, so lists that agree on it have
the same view of it; lists of which each is of some state so far agree on a namespace
that was quiet. `IInv`: an error that was met is on its way or counted, so a load with
none has listed everything (`Listed`), and its answer is made of those lists.

The same module has `FeedIsNewest`, for every set of event lists, queries and limits.
An answer with events is the feed of its log and its query (`Fed`); the rest is about
`Selection` (the positions it keeps, in order and each once: `SelectionFacts`), the
insertion sort (`Insert` puts an event behind those as new as it and before the older
ones, so the list stays in order and ties stay in list order: `InsertFacts`,
`SortFacts`) and the cut to the limit, which leaves out only what is no newer than all
that is shown (`FeedFacts`). Assumed: an event's uid is its place in the API server's
list (`EventsAssumption`), which is how the model tells events apart; the code does not
read it. The time of an event is that of the code's own `eventFromItem`: which of its
three timestamps counts is not judged, only that the feed is ordered by it.

These two theorems say what a loop over a list computes. The induction it takes is
made from well-foundedness of `<` on the naturals, by the least number for which a
claim fails (`Upto`), since the induction theorems of the library cannot be cited
here; that a recursive function exists, which is needed before its equation may be
used, is proved in the same way (`Recursion`): for each length there is a function of
that length.

## 6. Only model-checked, and not modelled

Only TLC: liveness (`ApprovedResolves`, `DrainEnds`, `BusyEnds`, `LoadEnds`,
`CallEnds`), which is out of the prover's reach. Every invariant and every action
property of the passing runs, and the refinement of `TwoPersonFlow`, are proved,
under the assumptions of section 5.

Not modelled: splitting and escaping of URL paths, decoding of bodies, the DNS-1123
rules character by character (an id is valid or not); TLS and HTTP plumbing,
redirects included; the fixture data of the sample backend; environment labels and
start-up text; rendering, layout and theme; the Dart twins of `transform.go` and `kubeconfig.go`; the detail
panel and the drain dialog, which show the job record that `Drain` models. Each
statement of the snapshot store is one SQL transaction of an embedded database; only
what the controllers see of it is modelled. See `PROJECT.json` for each component.

## 7. Plan

Done: the modules of section 2, and the proofs of section 5. Left:

- The writes that can come last (section 4): an order between the saves of one session
  would make "the cache is never older than the screen was" a property.
