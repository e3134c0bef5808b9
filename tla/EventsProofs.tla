---------------------------- MODULE EventsProofs ----------------------------
(***************************************************************************)
(* Proofs about EntityEvents for every set of clusters and entities and    *)
(* any number of fetches in flight.                                        *)
(*                                                                         *)
(* A fetch takes its entity from its caller and its cluster, and later the *)
(* profile it saves under, from what is on screen by then.  The invariant  *)
(* says why this is sound: a fetch of the current generation is for what   *)
(* the panel shows (Sound), and one of an earlier generation never         *)
(* becomes current again, since generations only grow.                     *)
(***************************************************************************)
EXTENDS EntityEvents, TLAPS

\* What a fetch in flight is for, and what it brings.
Sound(fetch) ==
    fetch.pc # "idle" =>
        /\ fetch.gen <= gen
        /\ fetch.key \in Key
        /\ fetch.gen = gen => target # None /\ fetch.key = target.key
        /\ fetch.pc = "save" => fetch.data \in Events /\ fetch.data.key = fetch.key

IInv ==
    /\ TypeOK
    /\ polling => target # None
    /\ \A f \in Fetches : Sound(fetches[f])
    /\ ShownIsLoaded
    /\ CachedUnderOwnKey

\* A fetch that is over.
LEMMA DoneFacts == Done \in Fetch /\ Done.pc = "idle" /\ Sound(Done)
<1>1. Done \in Fetch /\ Done.pc = "idle"
  BY DEF Done, Fetch
<1>2. QED BY <1>1 DEF Sound

\* What a fetch is for once it goes to the server: it is of the caller's
\* generation, and of the panel's entity if that is the current one.
LEMMA FetchingFacts ==
    ASSUME IInv, NEW g \in Nat, NEW key \in Key, g <= gen, target # None,
           g = gen => key = target.key
    PROVE  Fetching(g, key) \in Fetch /\ Sound(Fetching(g, key))
<1> DEFINE k == [cluster |-> target.key.cluster, ref |-> key.ref]
           n == Fetching(g, key)
<1>1. target \in Target /\ target.key \in Key /\ version \in Nat
  BY DEF IInv, TypeOK, Target
<1>2. k \in Key
  BY <1>1 DEF Key
<1>3. g = gen => k = target.key
  BY <1>1 DEF Key
<1> HIDE DEF k
<1>4. n \in Fetch /\ n.pc = "fetch" /\ n.gen = g /\ n.key = k
  BY <1>1, <1>2 DEF Fetching, Done, Fetch, k
<1> HIDE DEF n
<1>5. Sound(n)
  BY <1>2, <1>3, <1>4 DEF Sound
<1>6. QED BY <1>4, <1>5 DEF n

\* A step of one fetch that keeps what the panel is of: the others go on.
LEMMA FetchStep ==
    ASSUME IInv, NEW f \in Fetches, NEW n \in Fetch, Sound(n), Resume(f, n),
           UNCHANGED <<gen, target, polling, disposed, version>>,
           isLoading' \in BOOLEAN, isRefreshing' \in BOOLEAN, error' \in BOOLEAN,
           events' \in Events \cup {None},
           events' # None => target # None /\ events'.key = target.key,
           \/ cache' = cache
           \/ \E k \in Key, d \in Events : d.key = k /\ cache' = [cache EXCEPT ![k] = d]
    PROVE  IInv'
<1>1. fetches' = [fetches EXCEPT ![f] = n] /\ fetches \in [Fetches -> Fetch] /\ TypeOK
  BY DEF Resume, IInv, TypeOK
<1>2. cache' \in [Key -> Events \cup {None}] /\ CachedUnderOwnKey'
  BY <1>1 DEF IInv, TypeOK, CachedUnderOwnKey
<1>3. TypeOK'
  BY <1>1, <1>2 DEF TypeOK
<1>4. \A h \in Fetches : Sound(fetches'[h])
  BY <1>1 DEF IInv
<1>5. (\A h \in Fetches : Sound(fetches[h]))'
  BY <1>4 DEF Sound
<1>6. ShownIsLoaded'
  BY DEF ShownIsLoaded
<1>7. QED BY <1>2, <1>3, <1>5, <1>6 DEF IInv

\* What the invariant says of a fetch in flight.
LEMMA InFlight ==
    ASSUME IInv, NEW f \in Fetches, fetches[f].pc # "idle"
    PROVE  /\ fetches[f] \in Fetch /\ Sound(fetches[f])
           /\ fetches[f].gen \in Nat /\ fetches[f].gen <= gen /\ fetches[f].key \in Key
           /\ isCurrent(fetches[f].gen) => target # None /\ fetches[f].key = target.key
           /\ TypeOK
<1>1. fetches[f] \in Fetch /\ Sound(fetches[f]) /\ TypeOK
  BY DEF IInv, TypeOK
<1>2. QED BY <1>1 DEF Sound, Fetch, isCurrent

\* load drops everything of the previous entity.
LEMMA LoadIInv ==
    ASSUME IInv, NEW f \in Fetches, NEW t \in Target \cup {None}, load(f, t)
    PROVE  IInv'
<1>1. TypeOK /\ gen \in Nat /\ gen' = gen + 1 /\ target' = t
  BY DEF IInv, TypeOK, load
<1>0. /\ isLoading' \in BOOLEAN /\ isRefreshing' \in BOOLEAN /\ error' \in BOOLEAN
      /\ polling' \in BOOLEAN
  BY DEF load
<1>2. ASSUME NEW fetch \in Fetch, Sound(fetch) PROVE Sound(fetch)'
  <2>1. fetch.gen \in Nat
    BY DEF Fetch
  <2>2. fetch.pc # "idle" => fetch.gen <= gen' /\ fetch.gen # gen'
    BY <1>1, <1>2, <2>1 DEF Sound
  <2>3. QED BY <1>2, <2>2 DEF Sound
<1>3. CASE t = None
  <2>1. fetches' = fetches
    BY <1>3 DEF load
  <2>2. (\A h \in Fetches : Sound(fetches[h]))'
    BY <1>2, <2>1 DEF IInv, TypeOK
  <2>3. TypeOK'
    BY <1>0, <1>1, <2>1 DEF TypeOK, load
  <2>4. QED BY <1>3, <2>2, <2>3 DEF IInv, load, ShownIsLoaded, CachedUnderOwnKey
<1>4. CASE t # None
  <2> DEFINE p == IF t.stored THEN "cache" ELSE "fetch"
             N == [pc |-> p, gen |-> gen + 1, key |-> t.key, since |-> version,
                   data |-> None]
  <2>1. fetches' = [fetches EXCEPT ![f] = N]
    BY <1>4 DEF load, Resume, Done
  <2>2. t \in Target /\ t.key \in Key /\ p \in {"cache", "fetch"} /\ version \in Nat
    BY <1>1, <1>4 DEF Target, TypeOK
  <2> HIDE DEF p
  <2>3. N \in Fetch /\ N.pc = p /\ N.gen = gen + 1 /\ N.key = t.key
    BY <1>1, <2>2 DEF Fetch
  <2> HIDE DEF N
  <2>4. PICK n \in Fetch : n = N
    BY <2>3
  <2>5. n.pc \in {"cache", "fetch"} /\ n.gen = gen' /\ n.gen <= gen' /\ n.key = t.key
    BY <1>1, <2>2, <2>3, <2>4
  <2>6. Sound(n)'
    BY <1>1, <1>4, <2>2, <2>5 DEF Sound
  <2>7. \A h \in Fetches : fetches'[h] = n \/ (fetches'[h] = fetches[h] /\ fetches[h] \in Fetch)
    BY <1>1, <2>1, <2>4 DEF TypeOK
  <2>8. (\A h \in Fetches : Sound(fetches[h]))'
    <3> SUFFICES ASSUME NEW h \in Fetches PROVE Sound(fetches[h])'
      OBVIOUS
    <3>1. CASE fetches'[h] = n
      BY <2>6, <3>1 DEF Sound
    <3>2. CASE fetches'[h] = fetches[h] /\ fetches[h] \in Fetch
      <4>1. PICK o \in Fetch : o = fetches[h]
        BY <3>2
      <4>2. Sound(o)'
        BY <4>1, <1>2 DEF IInv
      <4>3. QED BY <3>2, <4>1, <4>2 DEF Sound
    <3>3. QED BY <2>7, <3>1, <3>2
  <2>9. TypeOK'
    BY <1>0, <1>1, <2>1, <2>3 DEF TypeOK, load
  <2>10. QED BY <1>1, <1>4, <2>8, <2>9 DEF IInv, load, ShownIsLoaded, CachedUnderOwnKey
<1>5. QED BY <1>3, <1>4

\* A poll, or the refresh button.
LEMMA PollIInv ==
    ASSUME IInv, NEW f \in Fetches, Poll(f) \/ refresh(f)
    PROVE  IInv'
<1>1. target # None /\ gen \in Nat /\ target.key \in Key /\ TypeOK
  BY DEF IInv, TypeOK, Target, Poll, refresh
<1>2. Fetching(gen, target.key) \in Fetch /\ Sound(Fetching(gen, target.key))
  BY <1>1, FetchingFacts
<1>3. /\ Resume(f, Fetching(gen, target.key)) /\ isRefreshing' \in BOOLEAN
      /\ UNCHANGED <<gen, target, events, isLoading, error, polling, disposed, cache, version>>
  BY <1>1 DEF Poll, refresh, TypeOK
<1>4. QED BY <1>1, <1>2, <1>3, FetchStep DEF TypeOK, IInv, ShownIsLoaded

\* The cache answers, in time or late, or its read fails.
LEMMA CacheIInv ==
    ASSUME IInv, NEW f \in Fetches,
           CacheHit(f) \/ CacheMiss(f) \/ CacheLate(f) \/ CacheFailed(f)
    PROVE  IInv'
<1> DEFINE n == Fetching(fetches[f].gen, fetches[f].key)
<1>0. fetches[f].pc = "cache"
  BY DEF CacheHit, CacheMiss, CacheLate, CacheFailed
<1>1. /\ TypeOK /\ fetches[f].gen \in Nat /\ fetches[f].gen <= gen /\ fetches[f].key \in Key
      /\ isCurrent(fetches[f].gen) => target # None /\ fetches[f].key = target.key
      /\ fetches[f].gen = gen => fetches[f].key = target.key
  BY <1>0, InFlight DEF Sound
<1>2. target # None => n \in Fetch /\ Sound(n)
  BY <1>1, FetchingFacts
<1> HIDE DEF n
<1>3. CASE CacheHit(f)
  <2>1. /\ target # None /\ fetches[f].key = target.key
        /\ events' = cache[fetches[f].key] /\ cache[fetches[f].key] # None
    BY <1>1, <1>3 DEF CacheHit
  <2>2. events' \in Events \cup {None} /\ events'.key = target.key
    BY <1>1, <2>1 DEF IInv, TypeOK, CachedUnderOwnKey
  <2>3. Resume(f, n) /\ UNCHANGED <<gen, target, polling, disposed, version, cache>>
    BY <1>3 DEF CacheHit, n
  <2>4. isLoading' \in BOOLEAN /\ isRefreshing' \in BOOLEAN /\ error' \in BOOLEAN
    BY <1>3 DEF CacheHit
  <2>5. QED BY <1>2, <2>1, <2>2, <2>3, <2>4, FetchStep
<1>4. CASE CacheMiss(f)
  <2>1. target # None /\ Resume(f, n) /\ isRefreshing' \in BOOLEAN
        /\ UNCHANGED <<gen, target, events, isLoading, error, polling, disposed, cache, version>>
    BY <1>1, <1>4 DEF CacheMiss, TypeOK, n
  <2>2. QED BY <1>1, <1>2, <2>1, FetchStep DEF TypeOK, IInv, ShownIsLoaded
<1>5. CASE CacheLate(f)
  <2>1. Resume(f, Done) /\ UNCHANGED <<gen, panel, polling, disposed, cache, version>>
    BY <1>5 DEF CacheLate, Finish
  <2>2. QED BY <1>1, <2>1, DoneFacts, FetchStep DEF TypeOK, IInv, ShownIsLoaded, panel
<1>6. CASE CacheFailed(f)
  <2>1. /\ isRefreshing' \in BOOLEAN
        /\ UNCHANGED <<gen, target, events, isLoading, error, polling, disposed, cache, version>>
    BY <1>1, <1>6 DEF CacheFailed, TypeOK
  <2>2. CASE target = None
    BY <1>1, <1>6, <2>1, <2>2, DoneFacts, FetchStep
       DEF CacheFailed, Finish, TypeOK, IInv, ShownIsLoaded
  <2>3. CASE target # None
    <3>1. Resume(f, n)
      BY <1>6, <2>3 DEF CacheFailed, n
    <3>2. QED BY <1>1, <1>2, <2>1, <2>3, <3>1, FetchStep DEF TypeOK, IInv, ShownIsLoaded
  <2>4. QED BY <2>2, <2>3
<1>7. QED BY <1>3, <1>4, <1>5, <1>6

\* The server answers: the answer is saved first, or shown, or comes too late.
LEMMA FetchedIInv ==
    ASSUME IInv, NEW f \in Fetches, fetches[f].pc = "fetch",
           NEW data \in Answers(fetches[f].key, fetches[f].since), Fetched(f, data)
    PROVE  IInv'
<1> DEFINE fetch == fetches[f]
<1>1. /\ TypeOK /\ fetch \in Fetch /\ Sound(fetch) /\ fetch.key \in Key
      /\ isCurrent(fetch.gen) => target # None /\ fetch.key = target.key
  BY InFlight
<1>2. data \in Events /\ data.key = fetch.key
  BY <1>1 DEF Answers, Events, Fetch, TypeOK
<1>3. UNCHANGED <<gen, target, polling, disposed, cache, version>>
  BY DEF Fetched
<1>4. CASE ~isCurrent(fetch.gen)
  BY <1>1, <1>3, <1>4, DoneFacts, FetchStep
     DEF Fetched, MaySave, Finish, TypeOK, IInv, ShownIsLoaded
<1>5. CASE isCurrent(fetch.gen) /\ target.stored
  <2> DEFINE k == [cluster |-> target.key.cluster, ref |-> fetch.key.ref]
             n == [fetch EXCEPT !.pc = "save", !.data = data, !.key = k]
  <2>1. k = fetch.key
    BY <1>1, <1>5 DEF Key
  <2>2. Resume(f, n) /\ UNCHANGED <<events, isLoading, isRefreshing, error>>
    BY <1>5 DEF Fetched, MaySave
  <2> HIDE DEF k
  <2>3. /\ n \in Fetch /\ n.pc = "save" /\ n.gen = fetch.gen /\ n.key = fetch.key
        /\ n.data = data
    BY <1>1, <1>2, <2>1 DEF Fetch
  <2> HIDE DEF n
  <2>4. Sound(n)
    BY <1>1, <1>2, <2>3 DEF Sound
  <2>5. QED BY <1>1, <1>3, <2>2, <2>3, <2>4, FetchStep DEF TypeOK, IInv, ShownIsLoaded
<1>6. CASE isCurrent(fetch.gen) /\ ~target.stored
  BY <1>1, <1>2, <1>3, <1>6, DoneFacts, FetchStep DEF Fetched, MaySave, Finish, Apply
<1>7. QED BY <1>4, <1>5, <1>6

\* The save is over: the cache has the answer or not, and the panel shows it if
\* it is still of the entity.
LEMMA SavedIInv == ASSUME IInv, NEW f \in Fetches, Saved(f) PROVE IInv'
<1> DEFINE fetch == fetches[f]
<1>0. fetch.pc = "save" /\ UNCHANGED <<gen, target, polling, disposed, version>>
  BY DEF Saved
<1>1. /\ TypeOK /\ fetch.key \in Key
      /\ isCurrent(fetch.gen) => target # None /\ fetch.key = target.key
      /\ fetch.data \in Events /\ fetch.data.key = fetch.key
  BY <1>0, InFlight DEF Sound
<1>2. \/ cache' = cache
      \/ \E k \in Key, d \in Events : d.key = k /\ cache' = [cache EXCEPT ![k] = d]
  BY <1>1 DEF Saved
<1>3. CASE isCurrent(fetch.gen)
  BY <1>0, <1>1, <1>2, <1>3, DoneFacts, FetchStep DEF Saved, Finish, Apply
<1>4. CASE ~isCurrent(fetch.gen)
  BY <1>0, <1>1, <1>2, <1>4, DoneFacts, FetchStep DEF Saved, Finish, TypeOK, IInv, ShownIsLoaded
<1>5. QED BY <1>3, <1>4

\* The fetch fails.
LEMMA FetchFailedIInv == ASSUME IInv, NEW f \in Fetches, FetchFailed(f) PROVE IInv'
<1>1. TypeOK
  BY DEF IInv
<1>2. isLoading' \in BOOLEAN /\ isRefreshing' \in BOOLEAN /\ error' \in BOOLEAN
  BY <1>1 DEF FetchFailed, Failure, TypeOK
<1>3. QED BY <1>1, <1>2, DoneFacts, FetchStep
     DEF FetchFailed, Finish, TypeOK, IInv, ShownIsLoaded

\* Init establishes the invariant.
LEMMA InitIInv == Init => IInv
<1> SUFFICES ASSUME Init PROVE IInv
  OBVIOUS
<1>1. \A k \in Key : [key |-> k, version |-> 0] \in Events
  BY DEF Events
<1>2. cache \in [Key -> Events \cup {None}] /\ CachedUnderOwnKey
  BY <1>1 DEF Init, CachedUnderOwnKey
<1>3. TypeOK
  BY <1>2, DoneFacts DEF Init, TypeOK
<1>4. \A f \in Fetches : Sound(fetches[f])
  BY DoneFacts DEF Init
<1>5. QED BY <1>2, <1>3, <1>4 DEF IInv, Init, ShownIsLoaded

\* Every step preserves it.
LEMMA NextIInv == IInv /\ [Next]_vars => IInv'
<1> SUFFICES ASSUME IInv, [Next]_vars PROVE IInv'
  OBVIOUS
<1>1. ASSUME NEW f \in Fetches, Resumed(f) PROVE IInv'
  BY <1>1, CacheIInv, FetchedIInv, FetchFailedIInv, SavedIInv DEF Resumed
<1>2. CASE dispose \/ Advance \/ UNCHANGED vars
  <2>1. /\ UNCHANGED <<gen, target, events, cache, fetches>>
        /\ polling' => polling
    BY <1>2 DEF dispose, Advance, vars, panel
  <2>2. TypeOK'
    <3>1. TypeOK /\ polling' \in BOOLEAN /\ disposed' \in BOOLEAN
      BY <1>2 DEF IInv, TypeOK, dispose, Advance, vars
    <3>2. version' \in Nat
      BY <1>2, <3>1 DEF TypeOK, dispose, Advance, vars
    <3>3. QED BY <1>2, <2>1, <3>1, <3>2 DEF TypeOK, dispose, Advance, vars, panel
  <2>3. (\A f \in Fetches : Sound(fetches[f]))'
    BY <2>1 DEF IInv, Sound
  <2>4. QED BY <2>1, <2>2, <2>3 DEF IInv, ShownIsLoaded, CachedUnderOwnKey
<1>3. QED BY <1>1, <1>2, LoadIInv, PollIInv DEF Next

\* The inductive invariant holds in every reachable state.
THEOREM Invariance == Spec => []IInv
BY InitIInv, NextIInv, PTL DEF Spec

\* The panel's variables, its cache and its fetches keep their types: a fetch
\* always has an entity, and never reads a cluster off an empty panel.
THEOREM TypeCorrect == Spec => []TypeOK
<1>1. IInv => TypeOK
  BY DEF IInv
<1>2. QED BY <1>1, Invariance, PTL

\* The events on screen are always those of the entity, on the cluster, the panel
\* shows, for any number of overlapping loads, polls and late answers.
THEOREM ShownIsLoadedHolds == Spec => []ShownIsLoaded
<1>1. IInv => ShownIsLoaded
  BY DEF IInv
<1>2. QED BY <1>1, Invariance, PTL

\* No event list is ever cached under another entity's or cluster's key.
THEOREM CachedUnderOwnKeyHolds == Spec => []CachedUnderOwnKey
<1>1. IInv => CachedUnderOwnKey
  BY DEF IInv
<1>2. QED BY <1>1, Invariance, PTL
=============================================================================
