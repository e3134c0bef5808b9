--------------------------- MODULE ClusterSession ---------------------------
(***************************************************************************)
(* The mobile app's ClusterSessionController: bootstrap, refresh, retry    *)
(* and cycleCluster as asynchronous loads over one connection and one      *)
(* snapshot store.  What a load does between two awaits is one action, and *)
(* the answer it awaited is chosen when it resumes.                        *)
(*                                                                         *)
(* A snapshot is the cluster it is of, and when it was asked for.  What it *)
(* says is the server's affair: a gateway reads from the API server's      *)
(* cache (resourceVersion=0), so a later answer may show an earlier state. *)
(* _lastRefreshedAt is set and cleared with the snapshot.  A               *)
(* ClusterProfile has no ==, so a profile is its id and the list instance  *)
(* it is from.                                                             *)
(***************************************************************************)
EXTENDS Integers, Sequences

CONSTANTS
    Clusters,       \* cluster ids
    Lists,          \* the cluster lists listClusters can answer with
    Loads,          \* loads that can be in flight at once
    MaxGen,         \* bound on bootstraps and switches
    MaxTime,        \* bound on the ticks between requests
    None

ASSUME SessionAssumption ==
    /\ Lists \subseteq Seq(Clusters)
    /\ MaxGen \in Nat /\ MaxTime \in Nat

VARIABLES
    gen, bootGen,               \* _generation, _bootstrapGeneration
    clusters,                   \* _clusters
    selected, snapshot,         \* _selectedCluster, _snapshot
    loadError, staleError,      \* whether _loadError, _staleError are set
    isLoading, isRefreshing, disposed,
    cachedList, cachedSnap,     \* the store's profiles and snapshots
    loads,                      \* the loads in flight
    now,                        \* a clock, which puts requests in order
    (* History. *)
    chosen                      \* the cluster the last switch chose

screen == <<clusters, selected, snapshot, loadError, staleError, isLoading, isRefreshing>>
cache  == <<cachedList, cachedSnap>>
vars   == <<gen, bootGen, screen, disposed, cache, loads, now, chosen>>

Profile == [id : Clusters, from : {"cache", "live"}, boot : Nat]

\* asked: when its request was sent; live: fetched by this session, not read from
\* the cache.
Snapshot == [cluster : Clusters, asked : Nat, live : BOOLEAN]

\* list: the cluster list to adopt; shown: cacheShown; asked: when the awaited
\* request was sent; snap: the snapshot to persist.
Load == [pc : {"idle", "profiles", "cache", "list", "snapshot", "refresh",
               "saveList", "saveSnapshot"},
         gen : Nat, boot : Nat, target : Profile \cup {None}, list : Seq(Profile),
         shown : BOOLEAN, asked : Nat, snap : Snapshot \cup {None}]

ASSUME NoneAssumption == None \notin Profile /\ None \notin Snapshot

Done == [pc |-> "idle", gen |-> 0, boot |-> 0, target |-> None, list |-> <<>>,
         shown |-> FALSE, asked |-> 0, snap |-> None]

TypeOK ==
    /\ gen \in Nat /\ bootGen \in Nat /\ now \in Nat
    /\ clusters \in Seq(Profile)
    /\ selected \in Profile \cup {None}
    /\ snapshot \in Snapshot \cup {None}
    /\ loadError \in BOOLEAN /\ staleError \in BOOLEAN
    /\ isLoading \in BOOLEAN /\ isRefreshing \in BOOLEAN /\ disposed \in BOOLEAN
    /\ cachedList \in Seq(Clusters)
    /\ cachedSnap \in [Clusters -> Snapshot \cup {None}]
    /\ loads \in [Loads -> Load]
    /\ chosen \in Clusters \cup {None}

Booting(g, boot) == [Done EXCEPT !.pc = "profiles", !.gen = g, !.boot = boot]

\* The shell's initState: a new controller and its first bootstrap, up to its
\* first await.  The cache holds what an earlier session left.
Init ==
    /\ gen = 1 /\ bootGen = 1 /\ now = 0
    /\ clusters = <<>> /\ selected = None /\ snapshot = None
    /\ loadError = FALSE /\ staleError = FALSE
    /\ isLoading = TRUE /\ isRefreshing = FALSE /\ disposed = FALSE
    /\ cachedList \in Lists \cup {<<>>}
    /\ \E old \in SUBSET Clusters :
          cachedSnap = [c \in Clusters |-> IF c \in old
                                           THEN [cluster |-> c, asked |-> 0, live |-> FALSE]
                                           ELSE None]
    /\ \E p \in Loads : loads = [l \in Loads |-> IF l = p THEN Booting(1, 1) ELSE Done]
    /\ chosen = None

-----------------------------------------------------------------------------
isCurrent(g) == ~disposed /\ g = gen

\* The profiles of a list read or fetched by one bootstrap.
Instances(ids, from, boot) ==
    [i \in 1..Len(ids) |-> [id |-> ids[i], from |-> from, boot |-> boot]]

Holds(list, id) == \E i \in 1..Len(list) : list[i].id = id

First(list, id) == list[CHOOSE i \in 1..Len(list) :
                           list[i].id = id /\ \A j \in 1..(i - 1) : list[j].id # id]

listed_Target(list, target) == target
\* _listed: the target's instance in a list.
listed(list, target) == IF Holds(list, target.id) THEN First(list, target.id) ELSE target

\* indexWhere is -1 if the selected cluster is not listed.
IndexOf(list, id) == IF Holds(list, id)
                     THEN CHOOSE i \in 1..Len(list) :
                             list[i].id = id /\ \A j \in 1..(i - 1) : list[j].id # id
                     ELSE 0

NextCluster == clusters[(IndexOf(clusters, selected.id) % Len(clusters)) + 1]

\* The snapshot a load's request is answered with.
Answer(load) == [cluster |-> load.target.id, asked |-> load.asked, live |-> TRUE]

Resume(p, load) == loads' = [loads EXCEPT ![p] = load]
Finish(p) == Resume(p, Done)

failed_AsLoadError(shown) ==
    /\ loadError' = TRUE /\ staleError' = staleError
    /\ isLoading' = FALSE /\ isRefreshing' = FALSE
failed_StillRefreshing(shown) ==
    /\ loadError' = (loadError \/ ~shown) /\ staleError' = (staleError \/ shown)
    /\ isLoading' = FALSE /\ isRefreshing' = isRefreshing
\* _fail, for a load that is current.
failed(shown) ==
    /\ loadError' = (loadError \/ ~shown) /\ staleError' = (staleError \/ shown)
    /\ isLoading' = FALSE /\ isRefreshing' = FALSE

\* A snapshot goes on screen.
Show(target, list, snap) ==
    /\ clusters' = list
    /\ selected' = listed(list, target)
    /\ snapshot' = snap
    /\ loadError' = FALSE /\ staleError' = FALSE
    /\ isLoading' = FALSE

-----------------------------------------------------------------------------
(* bootstrap, and _activate, which cycleCluster shares. *)

\* loadProfiles: nothing if there is none, it is too old, or the read fails.
ProfilesLoaded(p) ==
    LET load == loads[p]
        list == Instances(cachedList, "cache", load.boot) IN
    /\ load.pc = "profiles"
    /\ \/ /\ cachedList # <<>>
          /\ Resume(p, [load EXCEPT !.pc = "cache", !.target = list[1], !.list = list])
       \/ Resume(p, [load EXCEPT !.pc = "list", !.asked = now])
    /\ UNCHANGED <<gen, bootGen, screen, disposed, cache, now, chosen>>

\* After _showCached: bootstrap lists the clusters, cycleCluster activates.
AfterCache(load, shown) ==
    IF load.list # <<>>
    THEN [load EXCEPT !.pc = "list", !.shown = shown, !.asked = now,
                      !.target = None, !.list = <<>>]
    ELSE [load EXCEPT !.pc = "snapshot", !.shown = shown, !.asked = now]

CacheHit(p) ==
    LET load == loads[p] IN
    /\ load.pc = "cache"
    /\ cachedSnap[load.target.id] # None
    /\ isCurrent(load.gen)
    /\ Show(load.target, IF load.list # <<>> THEN load.list ELSE clusters,
            [cachedSnap[load.target.id] EXCEPT !.live = FALSE])
    /\ isRefreshing' = TRUE
    /\ Resume(p, AfterCache(load, TRUE))
    /\ UNCHANGED <<gen, bootGen, disposed, cache, now, chosen>>

\* No entry, too old an entry, a read error, or a superseded load.
CacheMiss(p) ==
    /\ loads[p].pc = "cache"
    /\ Resume(p, AfterCache(loads[p], FALSE))
    /\ UNCHANGED <<gen, bootGen, screen, disposed, cache, now, chosen>>

ListFailed(p) ==
    LET load == loads[p] IN
    /\ load.pc = "list"
    /\ IF isCurrent(load.gen)
       THEN failed(load.shown)
       ELSE UNCHANGED <<loadError, staleError, isLoading, isRefreshing>>
    /\ Finish(p)
    /\ UNCHANGED <<gen, bootGen, clusters, selected, snapshot, disposed, cache, now, chosen>>

Adopts(list) == selected # None /\ Holds(list, selected.id)

Adopted_First(list) == list[1]
\* _adoptClusters: the selected cluster's instance in the newer list.
Adopted(list) == First(list, selected.id)

ListLoaded(p, ids) ==
    LET load == loads[p]
        list == Instances(ids, "live", load.boot) IN
    /\ load.pc = "list"
    /\ \/ /\ isCurrent(load.gen)
          /\ IF ids = <<>>
             THEN /\ isLoading' = FALSE /\ isRefreshing' = FALSE
                  /\ Finish(p)
             ELSE /\ Resume(p, [load EXCEPT !.pc = "snapshot", !.asked = now,
                                            !.target = list[1], !.list = list])
                  /\ UNCHANGED <<isLoading, isRefreshing>>
          /\ UNCHANGED <<clusters, selected>>
       \/ /\ ~isCurrent(load.gen)
          /\ IF ~disposed /\ load.boot = bootGen /\ Adopts(list)
             THEN /\ clusters' = list
                  /\ selected' = Adopted(list)
                  /\ Resume(p, [load EXCEPT !.pc = "saveList", !.list = list])
             ELSE /\ Finish(p)
                  /\ UNCHANGED <<clusters, selected>>
          /\ UNCHANGED <<isLoading, isRefreshing>>
    /\ UNCHANGED <<gen, bootGen, snapshot, loadError, staleError, disposed, cache, now, chosen>>

\* _activate's fetch.
ActivateFailed(p) ==
    LET load == loads[p] IN
    /\ load.pc = "snapshot"
    /\ IF isCurrent(load.gen)
       THEN /\ failed(load.shown)
            /\ IF load.list # <<>> /\ ~load.shown
               THEN clusters' = load.list /\ selected' = load.target
               ELSE UNCHANGED <<clusters, selected>>
       ELSE UNCHANGED <<clusters, selected, loadError, staleError, isLoading, isRefreshing>>
    /\ Finish(p)
    /\ UNCHANGED <<gen, bootGen, snapshot, disposed, cache, now, chosen>>

Activated(p, snap) ==
    LET load == loads[p] IN
    /\ load.pc = "snapshot"
    /\ IF isCurrent(load.gen)
       THEN /\ Show(load.target, IF load.list # <<>> THEN load.list ELSE clusters, snap)
            /\ isRefreshing' = FALSE
            /\ Resume(p, [load EXCEPT !.pc = IF load.list # <<>> THEN "saveList"
                                             ELSE "saveSnapshot", !.snap = snap])
       ELSE Finish(p) /\ UNCHANGED screen
    /\ UNCHANGED <<gen, bootGen, disposed, cache, now, chosen>>

-----------------------------------------------------------------------------
(* _persist, and the save of _adoptClusters. *)

Ids(list) == [i \in 1..Len(list) |-> list[i].id]

\* deleteProfiles of the ids that list does not name: the others keep their order.
deleteGone(list) ==
    LET kept == {i \in 1..Len(cachedList) : Holds(list, cachedList[i])} IN
    \E n \in 0..Len(cachedList) : \E at \in [1..n -> kept] :
        /\ \A i, j \in 1..n : i < j => at[i] < at[j]
        /\ \A i \in kept : \E j \in 1..n : at[j] = i
        /\ cachedList' = [j \in 1..n |-> cachedList[at[j]]]

\* ScopedSnapshotStore.saveProfiles deletes the profiles that left the list, then
\* saves the list; either write can fail, and then no snapshot is saved.
SaveList(p) ==
    LET load == loads[p] IN
    /\ load.pc = "saveList"
    /\ \/ /\ cachedList' = Ids(load.list)
          /\ IF load.snap = None THEN Finish(p)
             ELSE Resume(p, [load EXCEPT !.pc = "saveSnapshot"])
       \/ /\ cachedList' = cachedList \/ deleteGone(load.list)
          /\ Finish(p)
    /\ UNCHANGED <<gen, bootGen, screen, disposed, cachedSnap, now, chosen>>

SaveSnapshot(p) ==
    LET snap == loads[p].snap IN
    /\ loads[p].pc = "saveSnapshot"
    /\ cachedSnap' \in {cachedSnap, [cachedSnap EXCEPT ![snap.cluster] = snap]}
    /\ Finish(p)
    /\ UNCHANGED <<gen, bootGen, screen, disposed, cachedList, now, chosen>>

-----------------------------------------------------------------------------
(* refresh, retry, cycleCluster and dispose.  The shell offers a refresh only  *)
(* while nothing is loading, as the auto-refresh timer does.                   *)

MayRefresh_Overlap == ~isLoading /\ ~disposed
MayRefresh == ~isLoading /\ ~isRefreshing /\ ~disposed

Refresh(p) ==
    /\ MayRefresh
    /\ selected # None
    /\ loads[p] = Done
    /\ isRefreshing' = TRUE
    /\ Resume(p, [Done EXCEPT !.pc = "refresh", !.gen = gen, !.target = selected,
                              !.asked = now])
    /\ UNCHANGED <<gen, bootGen, clusters, selected, snapshot, loadError, staleError, isLoading,
                   disposed, cache, now, chosen>>

\* With no cluster selected: bootstrap again.
retry(p) ==
    /\ MayRefresh
    /\ selected = None
    /\ gen < MaxGen
    /\ loads[p] = Done
    /\ gen' = gen + 1
    /\ bootGen' = bootGen + 1
    /\ Resume(p, Booting(gen + 1, bootGen + 1))
    /\ chosen' = None
    /\ loadError' = FALSE /\ staleError' = FALSE
    /\ isLoading' = TRUE
    /\ UNCHANGED <<clusters, selected, snapshot, isRefreshing, disposed, cache, now>>

isStale_Unchecked(load) == disposed \/ selected = None
\* The check a refresh makes when its snapshot arrives.
isStale(load) == ~isCurrent(load.gen) \/ selected = None \/ selected.id # load.target.id

RefreshFailed(p) ==
    /\ loads[p].pc = "refresh"
    /\ isRefreshing' = (isRefreshing /\ isStale(loads[p]))
    /\ Finish(p)
    /\ UNCHANGED <<gen, bootGen, clusters, selected, snapshot, loadError, staleError, isLoading,
                   disposed, cache, now, chosen>>

Refreshed(p, snap) ==
    LET load == loads[p] IN
    /\ load.pc = "refresh"
    /\ IF isStale(load)
       THEN /\ Finish(p)
            /\ UNCHANGED <<snapshot, loadError, staleError, isRefreshing>>
       ELSE /\ snapshot' = snap
            /\ loadError' = FALSE /\ staleError' = FALSE /\ isRefreshing' = FALSE
            /\ Resume(p, [load EXCEPT !.pc = "saveSnapshot", !.snap = snap])
    /\ UNCHANGED <<gen, bootGen, clusters, selected, isLoading, disposed, cache, now, chosen>>

cycleCluster(p) ==
    /\ Len(clusters) >= 2 /\ ~isLoading /\ selected # None /\ ~disposed
    /\ gen < MaxGen
    /\ loads[p] = Done
    /\ gen' = gen + 1
    /\ selected' = NextCluster
    /\ snapshot' = None
    /\ loadError' = FALSE /\ staleError' = FALSE
    /\ isLoading' = TRUE
    /\ Resume(p, [Done EXCEPT !.pc = "cache", !.gen = gen + 1, !.target = NextCluster])
    /\ chosen' = NextCluster.id
    /\ UNCHANGED <<bootGen, clusters, isRefreshing, disposed, cache, now>>

\* The shell goes away; loads in flight go on.
dispose ==
    /\ ~disposed
    /\ disposed' = TRUE
    /\ UNCHANGED <<gen, bootGen, screen, cache, loads, now, chosen>>

\* Time passes between two requests.
Tick ==
    /\ now < MaxTime
    /\ now' = now + 1
    /\ UNCHANGED <<gen, bootGen, screen, disposed, cache, loads, chosen>>

-----------------------------------------------------------------------------
\* A load resumes with the answer it awaited.
Resumed(p) ==
    \/ ProfilesLoaded(p) \/ CacheHit(p) \/ CacheMiss(p)
    \/ ListFailed(p) \/ \E ids \in Lists : ListLoaded(p, ids)
    \/ ActivateFailed(p) \/ RefreshFailed(p)
    \/ /\ loads[p].pc \in {"snapshot", "refresh"}
       /\ Activated(p, Answer(loads[p])) \/ Refreshed(p, Answer(loads[p]))
    \/ SaveList(p) \/ SaveSnapshot(p)

Called(p) == Refresh(p) \/ retry(p) \/ cycleCluster(p)

Next == (\E p \in Loads : Resumed(p) \/ Called(p)) \/ dispose \/ Tick

Spec == Init /\ [][Next]_vars

-----------------------------------------------------------------------------
(* Properties. *)

\* No snapshot of one cluster is on screen under another's name, although
\* responses for earlier selections keep arriving.
ShownIsSelected == snapshot # None => selected # None /\ snapshot.cluster = selected.id

\* The selected profile is an entry of the list on screen, also after a live list
\* replaced the cached one the selection was made from.
SelectedIsListed == selected # None => \E i \in 1..Len(clusters) : clusters[i] = selected

\* The cluster the user switched to stays selected, whatever the bootstrap it
\* overtook comes back with.
SwitchWins == chosen # None => selected # None /\ selected.id = chosen

\* A spinner or refresh badge on screen belongs to a load in flight that is
\* current and so will take it down.
BusyHasOwner ==
    (isLoading \/ isRefreshing) /\ ~disposed =>
        \E p \in Loads : loads[p].gen = gen /\
            loads[p].pc \in {"profiles", "cache", "list", "snapshot", "refresh"}

\* A cached snapshot that no fetch is under way for is flagged as stale.
StaleIsFlagged ==
    snapshot # None /\ ~snapshot.live /\ ~isRefreshing => staleError

\* The answer to an earlier request never replaces the answer to a later one, nor
\* a cached snapshot a live one, while a cluster stays on screen.
NeverOvertaken ==
    [][snapshot # None /\ snapshot' # None /\ snapshot'.cluster = snapshot.cluster
          => /\ snapshot'.asked >= snapshot.asked
             /\ snapshot.live => snapshot'.live]_vars
=============================================================================
