---------------------------- MODULE EntityEvents ----------------------------
(***************************************************************************)
(* The mobile app's EntityEventsController: the events of the entity its   *)
(* detail panel shows, from the cache first, then live, then polled.  As   *)
(* in ClusterSession, what a fetch does between two awaits is one action   *)
(* and its answer is chosen when it resumes.  Polls do not wait for each   *)
(* other, and a fetch reads the panel's connection, cluster and store when *)
(* it needs them, not when its load began.                                 *)
(***************************************************************************)
EXTENDS Integers

CONSTANTS
    Clusters,       \* cluster ids; also the profile ids of the cache
    Refs,           \* entities: kind, name and namespace
    Fetches,        \* fetches that can be in flight at once
    MaxGen,         \* bound on the entities loaded
    MaxVersion,     \* bound on new events
    None

ASSUME EventsAssumption == MaxGen \in Nat /\ MaxVersion \in Nat

VARIABLES
    gen,                        \* _generation
    target,                     \* what load was given; None: not supported
    events,                     \* _events
    isLoading, isRefreshing,
    error,                      \* whether _error is set
    polling,                    \* _pollTimer is running
    disposed,
    cache,                      \* the store's event lists
    fetches,                    \* the fetches in flight
    version                     \* the cluster's own event history

panel == <<target, events, isLoading, isRefreshing, error>>
vars  == <<gen, panel, polling, disposed, cache, fetches, version>>

Key == [cluster : Clusters, ref : Refs]

\* stored: a store and a profile id were given.
Target == [key : Key, stored : BOOLEAN]

Events == [key : Key, version : Nat]

Fetch == [pc : {"idle", "cache", "fetch", "save"}, gen : Nat, key : Key \cup {None},
          since : Nat, data : Events \cup {None}]

ASSUME NoneAssumption == None \notin Key \cup Target \cup Events

Done == [pc |-> "idle", gen |-> 0, key |-> None, since |-> 0, data |-> None]

TypeOK ==
    /\ gen \in Nat /\ version \in Nat
    /\ target \in Target \cup {None}
    /\ events \in Events \cup {None}
    /\ isLoading \in BOOLEAN /\ isRefreshing \in BOOLEAN /\ error \in BOOLEAN
    /\ polling \in BOOLEAN /\ disposed \in BOOLEAN
    /\ cache \in [Key -> Events \cup {None}]
    /\ fetches \in [Fetches -> Fetch]

Init ==
    /\ gen = 0 /\ version = 0
    /\ target = None /\ events = None
    /\ isLoading = FALSE /\ isRefreshing = FALSE /\ error = FALSE
    /\ polling = FALSE /\ disposed = FALSE
    /\ cache \in {[k \in Key |-> None], [k \in Key |-> [key |-> k, version |-> 0]]}
    /\ fetches = [f \in Fetches |-> Done]

-----------------------------------------------------------------------------
isCurrent_AnyGen(g) == ~disposed /\ target # None
isCurrent(g) == ~disposed /\ g = gen

Resume(f, fetch) == fetches' = [fetches EXCEPT ![f] = fetch]
Finish(f) == Resume(f, Done)

\* _refreshLive, up to its await: the entity is the caller's, the cluster is the
\* one on screen by now.
Fetching(g, key) ==
    [Done EXCEPT !.pc = "fetch", !.gen = g, !.since = version,
                 !.key = [cluster |-> target.key.cluster, ref |-> key.ref]]

\* A new entity: everything of the previous one is dropped.
load(f, t) ==
    /\ gen < MaxGen /\ ~disposed
    /\ fetches[f] = Done
    /\ gen' = gen + 1
    /\ target' = t
    /\ events' = None
    /\ isRefreshing' = FALSE /\ error' = FALSE
    /\ isLoading' = (t # None)
    /\ polling' = (t # None)
    /\ IF t = None THEN UNCHANGED fetches
       ELSE Resume(f, [Done EXCEPT !.pc = IF t.stored THEN "cache" ELSE "fetch",
                                   !.gen = gen + 1, !.key = t.key, !.since = version])
    /\ UNCHANGED <<disposed, cache, version>>

\* The timer, and the refresh button, which is disabled while one is under way.
Poll(f) ==
    /\ polling /\ ~disposed
    /\ fetches[f] = Done
    /\ isRefreshing' = (isRefreshing \/ events # None)
    /\ Resume(f, Fetching(gen, target.key))
    /\ UNCHANGED <<gen, target, events, isLoading, error, polling, disposed, cache, version>>

refresh(f) ==
    /\ target # None /\ ~disposed /\ ~isLoading /\ ~isRefreshing
    /\ fetches[f] = Done
    /\ isRefreshing' = (events # None)
    /\ Resume(f, Fetching(gen, target.key))
    /\ UNCHANGED <<gen, target, events, isLoading, error, polling, disposed, cache, version>>

-----------------------------------------------------------------------------
(* _loadCachedThenLive. *)

CacheHit(f) ==
    LET fetch == fetches[f] IN
    /\ fetch.pc = "cache"
    /\ cache[fetch.key] # None
    /\ isCurrent(fetch.gen)
    /\ events' = cache[fetch.key]
    /\ isLoading' = FALSE /\ isRefreshing' = TRUE /\ error' = FALSE
    /\ Resume(f, Fetching(fetch.gen, fetch.key))
    /\ UNCHANGED <<gen, target, polling, disposed, cache, version>>

\* No entry, or too old a one.
CacheMiss(f) ==
    LET fetch == fetches[f] IN
    /\ fetch.pc = "cache"
    /\ isCurrent(fetch.gen)
    /\ isRefreshing' = (isRefreshing \/ events # None)
    /\ Resume(f, Fetching(fetch.gen, fetch.key))
    /\ UNCHANGED <<gen, target, events, isLoading, error, polling, disposed, cache, version>>

CacheLate(f) ==
    /\ fetches[f].pc = "cache"
    /\ ~isCurrent(fetches[f].gen)
    /\ Finish(f)
    /\ UNCHANGED <<gen, panel, polling, disposed, cache, version>>

\* A read error goes on to the live fetch, also when the load is superseded.
CacheFailed(f) ==
    LET fetch == fetches[f] IN
    /\ fetch.pc = "cache"
    /\ isRefreshing' = (isRefreshing \/ (isCurrent(fetch.gen) /\ events # None))
    /\ IF target = None THEN Finish(f) ELSE Resume(f, Fetching(fetch.gen, fetch.key))
    /\ UNCHANGED <<gen, target, events, isLoading, error, polling, disposed, cache, version>>

-----------------------------------------------------------------------------
(* _refreshLive, from its first await on. *)

Apply(data) ==
    /\ events' = data
    /\ isLoading' = FALSE /\ isRefreshing' = FALSE /\ error' = FALSE

MaySave_Late(g) == isCurrent(g) \/ (target # None /\ target.stored)
MaySave(g) == isCurrent(g)

\* The answer is saved first, under the profile on screen, and then shown.
Fetched(f, data) ==
    LET fetch == fetches[f] IN
    /\ fetch.pc = "fetch"
    /\ IF ~MaySave(fetch.gen)
       THEN Finish(f) /\ UNCHANGED <<events, isLoading, isRefreshing, error>>
       ELSE IF target.stored
       THEN /\ Resume(f, [fetch EXCEPT !.pc = "save", !.data = data,
                                       !.key = [cluster |-> target.key.cluster, ref |-> @.ref]])
            /\ UNCHANGED <<events, isLoading, isRefreshing, error>>
       ELSE Apply(data) /\ Finish(f)
    /\ UNCHANGED <<gen, target, polling, disposed, cache, version>>

Saved(f) ==
    LET fetch == fetches[f] IN
    /\ fetch.pc = "save"
    /\ cache' \in {cache, [cache EXCEPT ![fetch.key] = fetch.data]}
    /\ IF isCurrent(fetch.gen)
       THEN Apply(fetch.data)
       ELSE UNCHANGED <<events, isLoading, isRefreshing, error>>
    /\ Finish(f)
    /\ UNCHANGED <<gen, target, polling, disposed, version>>

Failure_StillLoading ==
    /\ isLoading' = isLoading /\ isRefreshing' = FALSE
    /\ error' = (error \/ events = None)
\* The first load's failure is an error; later ones keep the events shown.
Failure ==
    /\ isLoading' = FALSE /\ isRefreshing' = FALSE
    /\ error' = (error \/ events = None)

FetchFailed(f) ==
    /\ fetches[f].pc = "fetch"
    /\ IF isCurrent(fetches[f].gen)
       THEN Failure
       ELSE UNCHANGED <<isLoading, isRefreshing, error>>
    /\ Finish(f)
    /\ UNCHANGED <<gen, target, events, polling, disposed, cache, version>>

-----------------------------------------------------------------------------
\* The panel goes away: the timer stops, fetches in flight go on.
dispose ==
    /\ ~disposed
    /\ disposed' = TRUE /\ polling' = FALSE
    /\ UNCHANGED <<gen, panel, cache, fetches, version>>

Advance ==
    /\ version < MaxVersion
    /\ version' = version + 1
    /\ UNCHANGED <<gen, panel, polling, disposed, cache, fetches>>

Answers(key, since) == [key : {key}, version : since..version]

Resumed(f) ==
    \/ CacheHit(f) \/ CacheMiss(f) \/ CacheLate(f) \/ CacheFailed(f)
    \/ /\ fetches[f].pc = "fetch"
       /\ \E data \in Answers(fetches[f].key, fetches[f].since) : Fetched(f, data)
    \/ FetchFailed(f)
    \/ Saved(f)

Next ==
    \/ \E f \in Fetches : \/ Resumed(f) \/ Poll(f) \/ refresh(f)
                          \/ \E t \in Target \cup {None} : load(f, t)
    \/ dispose
    \/ Advance

Spec == Init /\ [][Next]_vars

\* Every await ends: the connections give up after a timeout, the store's calls
\* return.
FairSpec == Spec /\ \A f \in Fetches : WF_vars(Resumed(f))

-----------------------------------------------------------------------------
(* Properties. *)

\* The events on screen are those of the entity, on the cluster, the panel shows.
ShownIsLoaded == events # None => target # None /\ events.key = target.key

\* Events are cached under the entity and cluster they were fetched for, although
\* the fetch's cluster and the save's profile are read at different times.
CachedUnderOwnKey == \A k \in Key : cache[k] # None => cache[k].key = k

\* No spinner or refresh badge stays for ever: whatever fetch is superseded, late
\* or failing, the current one takes both down.
BusyEnds == isLoading \/ isRefreshing ~> disposed \/ (~isLoading /\ ~isRefreshing)
=============================================================================
