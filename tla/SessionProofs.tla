---------------------------- MODULE SessionProofs ----------------------------
(***************************************************************************)
(* Proofs about ClusterSession for every set of clusters, every set of     *)
(* lists the server can answer with and any number of loads in flight.     *)
(*                                                                         *)
(* At most one load is current, and while it is in flight it owns the      *)
(* screen: the invariant says what the screen can show meanwhile (Owner).  *)
(* A load that is not current changes the screen in one way only, when a   *)
(* bootstrap that a switch overtook brings the live list, and then it      *)
(* replaces the selected profile by one with the same id.                  *)
(***************************************************************************)
EXTENDS ClusterSession, TLAPS, WellFoundedInduction, NaturalsInduction

\* A load whose answer the screen waits for, if the load is of the current
\* generation.
Awaits(l) == l.pc \in {"profiles", "cache", "list", "snapshot", "refresh"}
Current(l) == l.gen = gen /\ Awaits(l)

\* A load of bootstrap, as opposed to one of cycleCluster or refresh.
Boots(l) == l.pc \in {"profiles", "list"} \/ l.list # <<>>

CachedIsFlagged == snapshot # None /\ ~snapshot.live => staleError

\* What every load in flight carries.
Sound(l) ==
    /\ l.gen <= gen
    /\ l.pc \in {"profiles", "cache", "refresh"} => ~l.shown
    /\ l.pc \in {"cache", "snapshot", "refresh"} => l.target \in Profile
    /\ l.pc \in {"cache", "snapshot"} /\ l.list # <<>> => l.target = l.list[1]
    /\ l.pc \in {"profiles", "list", "refresh"} => l.list = <<>>
    /\ l.pc = "saveSnapshot" => l.snap # None
    /\ l.snap # None => l.snap.asked <= now
    /\ l.pc \in {"snapshot", "refresh"} => l.asked <= now

\* What the screen shows while a current load is in flight.
Owner(l) ==
    /\ isLoading \/ isRefreshing
    /\ l.pc # "refresh" /\ ~l.shown => snapshot = None /\ isLoading
    /\ l.shown => isRefreshing
    /\ Boots(l) => chosen = None /\ (~l.shown => selected = None)
    /\ ~Boots(l) => selected # None /\ selected.id = l.target.id
    /\ l.pc = "refresh" => /\ isRefreshing /\ ~isLoading
                           /\ <<>> \notin Lists => CachedIsFlagged
    /\ l.pc \in {"snapshot", "refresh"} /\ snapshot # None => snapshot.asked <= l.asked

LoadsInv ==
    /\ \A p \in Loads : Sound(loads[p]) /\ (Current(loads[p]) => Owner(loads[p]))
    /\ \A p, q \in Loads : Current(loads[p]) /\ Current(loads[q]) => p = q

CacheInv ==
    \A c \in Clusters : cachedSnap[c] # None =>
        cachedSnap[c].cluster = c /\ cachedSnap[c].asked <= now

ScreenInv ==
    /\ snapshot # None => snapshot.asked <= now
    /\ ShownIsSelected
    /\ SelectedIsListed
    /\ SwitchWins
    /\ BusyHasOwner
    /\ <<>> \notin Lists => StaleIsFlagged

IInv == TypeOK /\ LoadsInv /\ CacheInv /\ ScreenInv

-----------------------------------------------------------------------------
(* Lists. *)

\* The first place of an id in a list that holds it.
LEMMA FirstIndex ==
    ASSUME NEW list \in Seq(Profile), NEW id, Holds(list, id)
    PROVE  \E i \in 1..Len(list) : list[i].id = id /\ \A j \in 1..(i - 1) : list[j].id # id
<1> DEFINE T == {i \in 1..Len(list) : list[i].id = id}
<1>1. T \subseteq Nat /\ T # {}
  BY DEF Holds
<1>2. PICK i \in T : \A j \in T : ~(<<j, i>> \in OpToRel(<, Nat))
  <2> HIDE DEF T
  <2>1. QED BY <1>1, WFMin, NatLessThanWellFounded, Zenon
<1>3. i \in 1..Len(list) /\ list[i].id = id /\ i \in Nat
  BY <1>1
<1>4. \A j \in T : ~(j < i)
  <2> SUFFICES ASSUME NEW j \in T, j < i PROVE FALSE
    OBVIOUS
  <2>1. <<j, i>> \in OpToRel(<, Nat)
    BY <1>1, <1>3 DEF OpToRel
  <2>2. QED BY <1>2, <2>1
<1>5. \A j \in 1..(i - 1) : list[j].id # id
  BY <1>3, <1>4
<1>6. QED BY <1>3, <1>5

\* First and IndexOf find it.
LEMMA FirstFacts ==
    ASSUME NEW list \in Seq(Profile), NEW id, Holds(list, id)
    PROVE  /\ First(list, id) \in Profile /\ First(list, id).id = id
           /\ \E i \in 1..Len(list) : list[i] = First(list, id)
           /\ IndexOf(list, id) \in 1..Len(list)
<1> DEFINE P(i) == list[i].id = id /\ \A j \in 1..(i - 1) : list[j].id # id
           k == CHOOSE i \in 1..Len(list) : P(i)
<1>1. \E i \in 1..Len(list) : P(i)
  BY FirstIndex
<1>2. k \in 1..Len(list) /\ list[k].id = id
  BY <1>1
<1>3. First(list, id) = list[k] /\ IndexOf(list, id) = k
  BY DEF First, IndexOf
<1> HIDE DEF k
<1>4. list[k] \in Profile
  BY <1>2
<1>5. QED BY <1>2, <1>3, <1>4

\* A profile that Show selects is listed and has the target's id.
LEMMA ListedFacts ==
    ASSUME NEW list \in Seq(Profile), NEW target \in Profile, Holds(list, target.id)
    PROVE  /\ listed(list, target) \in Profile
           /\ listed(list, target).id = target.id
           /\ \E i \in 1..Len(list) : list[i] = listed(list, target)
  BY FirstFacts DEF listed

\* The profiles of an answered or stored list.
LEMMA InstancesFacts ==
    ASSUME NEW ids \in Seq(Clusters), NEW from \in {"cache", "live"}, NEW boot \in Nat
    PROVE  /\ Instances(ids, from, boot) \in Seq(Profile)
           /\ Len(Instances(ids, from, boot)) = Len(ids)
           /\ ids # <<>> => /\ Instances(ids, from, boot) # <<>>
                            /\ Instances(ids, from, boot)[1] \in Profile
<1>1. \A i \in 1..Len(ids) : ids[i] \in Clusters
  OBVIOUS
<1>2. Len(ids) \in Nat /\ (ids # <<>> => 1 \in 1..Len(ids))
  OBVIOUS
<1>3. Instances(ids, from, boot) \in Seq(Profile) /\ Len(Instances(ids, from, boot)) = Len(ids)
  BY <1>1, <1>2 DEF Instances, Profile
<1>4. QED BY <1>2, <1>3
-----------------------------------------------------------------------------
(* What a step of one load leaves to show. *)

\* A load that is over.
LEMMA DoneFacts == Done \in Load /\ Done.pc = "idle" /\ Done.gen = 0 /\ Done.snap = None
                   /\ Done.list = <<>> /\ Done.shown = FALSE
  BY DEF Done, Load

\* It is sound and owns nothing.
LEMMA DoneSound ==
    ASSUME gen \in Nat
    PROVE  Sound(Done) /\ ~Current(Done)
<1>1. 0 <= gen
  OBVIOUS
<1>2. QED BY <1>1, DoneFacts DEF Sound, Current, Awaits

\* What the invariant says of a load in flight.
LEMMA InFlight ==
    ASSUME IInv, NEW p \in Loads
    PROVE  /\ loads[p] \in Load /\ Sound(loads[p]) /\ loads[p].gen <= gen
           /\ loads[p].gen \in Nat /\ loads[p].boot \in Nat /\ loads[p].asked \in Nat
           /\ loads[p].list \in Seq(Profile) /\ loads[p].shown \in BOOLEAN
           /\ loads[p].snap \in Snapshot \cup {None} /\ loads[p].target \in Profile \cup {None}
           /\ Current(loads[p]) => Owner(loads[p])
           /\ TypeOK
<1>1. loads[p] \in Load /\ Sound(loads[p]) /\ TypeOK /\ (Current(loads[p]) => Owner(loads[p]))
  BY DEF IInv, TypeOK, LoadsInv
<1>2. loads[p].gen <= gen
  BY <1>1 DEF Sound
<1> DEFINE l == loads[p]
<1>3. l \in Load
  BY <1>1
<1> HIDE DEF l
<1>4. /\ l.gen \in Nat /\ l.boot \in Nat /\ l.asked \in Nat
      /\ l.list \in Seq(Profile) /\ l.shown \in BOOLEAN
      /\ l.snap \in Snapshot \cup {None} /\ l.target \in Profile \cup {None}
  BY <1>3 DEF Load
<1>5. QED BY <1>1, <1>2, <1>4 DEF l

\* A step of the one load that is current when it ends, if any is.
LEMMA LoadsAlone ==
    ASSUME IInv, NEW p \in Loads, NEW n \in Load, Resume(p, n),
           now' = now, gen' \in Nat, gen <= gen',
           \A q \in Loads : q # p => ~(loads[q].gen = gen' /\ Awaits(loads[q])),
           Sound(n)', Current(n)' => Owner(n)'
    PROVE  loads' \in [Loads -> Load] /\ LoadsInv'
<1>1. loads \in [Loads -> Load] /\ gen \in Nat /\ now \in Nat
  BY DEF IInv, TypeOK
<1>2. /\ loads' \in [Loads -> Load] /\ loads'[p] = n
      /\ \A q \in Loads : q # p => loads'[q] = loads[q]
  BY <1>1 DEF Resume
<1>3. ASSUME NEW q \in Loads, q # p
      PROVE  Sound(loads[q])' /\ ~Current(loads[q])'
  <2>1. loads'[q] = loads[q] /\ Sound(loads[q]) /\ loads[q].gen \in Nat
    BY <1>2, <1>3, InFlight
  <2>2. PICK l \in Load : l = loads[q] /\ l = loads'[q]
    BY <2>1, <1>1
  <2>3. Sound(l) /\ l.gen \in Nat /\ l.gen <= gen /\ l.gen <= gen'
    BY <2>1, <2>2, <1>1 DEF Sound
  <2>4. Sound(l)'
    BY <2>3 DEF Sound
  <2>5. ~(l.gen = gen' /\ Awaits(l))
    BY <1>3, <2>2
  <2>6. QED BY <2>2, <2>4, <2>5 DEF Sound, Current, Awaits
<1>4. Sound(loads[p])' /\ (Current(loads[p])' => Owner(loads[p])')
  BY <1>2 DEF Sound, Current, Awaits, Owner, Boots, CachedIsFlagged
<1>5. QED BY <1>2, <1>3, <1>4 DEF LoadsInv

\* A step of a load that is not current when it ends, and that keeps what the
\* others own.
LEMMA LoadsBeside ==
    ASSUME IInv, NEW p \in Loads, NEW n \in Load, Resume(p, n),
           UNCHANGED <<gen, now, snapshot, staleError, isLoading, isRefreshing, chosen>>,
           \/ selected' = selected
           \/ selected # None /\ selected' # None /\ selected'.id = selected.id,
           Sound(n), ~Current(n)
    PROVE  loads' \in [Loads -> Load] /\ LoadsInv'
<1>1. loads \in [Loads -> Load]
  BY DEF IInv, TypeOK
<1>2. /\ loads' \in [Loads -> Load] /\ loads'[p] = n
      /\ \A q \in Loads : q # p => loads'[q] = loads[q]
  BY <1>1 DEF Resume
<1>3. ASSUME NEW q \in Loads, q # p
      PROVE  Sound(loads[q])' /\ (Current(loads[q])' => Current(loads[q]) /\ Owner(loads[q])')
  <2>1. PICK l \in Load : l = loads[q] /\ l = loads'[q]
    BY <1>1, <1>2, <1>3
  <2>2. Sound(l) /\ (Current(l) => Owner(l))
    BY <2>1, InFlight
  <2>3. Sound(l)' /\ (Current(l)' => Current(l))
    BY <2>2 DEF Sound, Current
  <2>4. Owner(l) => Owner(l)'
    BY DEF Owner, CachedIsFlagged
  <2>5. Current(l)' => Owner(l)'
    BY <2>2, <2>3, <2>4
  <2>6. QED
    BY <2>1, <2>3, <2>5 DEF Sound, Current, Awaits, Owner, Boots, CachedIsFlagged
<1>4. Sound(loads[p])' /\ ~Current(loads[p])'
  BY <1>2 DEF Sound, Current, Awaits
<1>5. \A q, r \in Loads : Current(loads[q])' /\ Current(loads[r])' => q = r
  BY <1>3, <1>4 DEF IInv, LoadsInv
<1>6. QED BY <1>2, <1>3, <1>4, <1>5 DEF LoadsInv

\* The load that owns the screen takes a step, or one takes it over.
LEMMA Alone ==
    ASSUME IInv, NEW p \in Loads, NEW n \in Load, Resume(p, n),
           UNCHANGED <<disposed, cache, now>>,
           gen' \in Nat, gen <= gen', bootGen' \in Nat,
           \A q \in Loads : q # p => ~(loads[q].gen = gen' /\ Awaits(loads[q])),
           Sound(n)', Current(n)' => Owner(n)',
           clusters' \in Seq(Profile),
           selected' \in Profile \cup {None},
           snapshot' \in Snapshot \cup {None},
           loadError' \in BOOLEAN, staleError' \in BOOLEAN,
           isLoading' \in BOOLEAN, isRefreshing' \in BOOLEAN,
           chosen' \in Clusters \cup {None},
           snapshot' # None => snapshot'.asked <= now,
           ShownIsSelected', SelectedIsListed', SwitchWins',
           isLoading' \/ isRefreshing' => Current(n)',
           <<>> \notin Lists => StaleIsFlagged'
    PROVE  IInv'
<1>1. TypeOK /\ loads' \in [Loads -> Load] /\ LoadsInv'
  BY LoadsAlone DEF IInv
<1>2. TypeOK' /\ CacheInv'
  BY <1>1 DEF IInv, TypeOK, CacheInv, cache
<1>3. BusyHasOwner'
  <2>1. loads'[p] = n
    BY <1>1 DEF Resume, TypeOK
  <2>2. QED BY <2>1 DEF BusyHasOwner, Current, Awaits
<1>4. ScreenInv'
  BY <1>3 DEF ScreenInv
<1>5. QED BY <1>1, <1>2, <1>4 DEF IInv

\* A step that leaves the screen alone: one of a load that is not current, or one
\* that goes on owning the screen.
LEMMA Quietly ==
    ASSUME IInv, NEW p \in Loads, NEW n \in Load, Resume(p, n),
           UNCHANGED <<gen, bootGen, screen, disposed, now, chosen>>,
           Sound(n),
           Current(n) => Current(loads[p]) /\ Owner(n),
           Current(loads[p]) /\ ~disposed => Current(n),
           cachedList' \in Seq(Clusters),
           cachedSnap' \in [Clusters -> Snapshot \cup {None}],
           CacheInv'
    PROVE  IInv'
<1>1. TypeOK /\ ScreenInv /\ gen \in Nat /\ now \in Nat
  BY DEF IInv, TypeOK
<1>2. UNCHANGED <<clusters, selected, snapshot, loadError, staleError, isLoading, isRefreshing>>
  BY DEF screen
<1>3. loads' \in [Loads -> Load] /\ LoadsInv'
  <2>1. CASE Current(n)
    <3>1. Sound(n)' /\ (Current(n)' => Owner(n)')
      BY <1>2, <2>1 DEF Sound, Current, Owner, CachedIsFlagged
    <3>2. \A q \in Loads : q # p => ~(loads[q].gen = gen' /\ Awaits(loads[q]))
      BY <2>1 DEF IInv, LoadsInv, Current
    <3>3. gen' = gen /\ now' = now
      OBVIOUS
    <3>4. QED BY <1>1, <3>1, <3>2, <3>3, LoadsAlone
  <2>2. CASE ~Current(n)
    BY <1>2, <2>2, LoadsBeside
  <2>3. QED BY <2>1, <2>2
<1>4. TypeOK'
  BY <1>1, <1>2, <1>3 DEF TypeOK
<1>5. BusyHasOwner'
  <2> SUFFICES ASSUME (isLoading \/ isRefreshing) /\ ~disposed
               PROVE  \E q \in Loads : Current(loads'[q])
    BY <1>2 DEF BusyHasOwner, Current, Awaits
  <2>1. PICK q \in Loads : Current(loads[q])
    BY <1>1 DEF ScreenInv, BusyHasOwner, Current, Awaits
  <2>2. CASE q = p
    <3>1. loads'[p] = n /\ Current(n)
      BY <1>1, <2>1, <2>2 DEF Resume, TypeOK
    <3>2. QED BY <3>1
  <2>3. CASE q # p
    <3>1. loads'[q] = loads[q]
      BY <1>1, <2>3 DEF Resume, TypeOK
    <3>2. QED BY <2>1, <3>1
  <2>4. QED BY <2>2, <2>3
<1>6. ScreenInv'
  BY <1>1, <1>2, <1>5 DEF ScreenInv, ShownIsSelected, SelectedIsListed, SwitchWins,
        StaleIsFlagged
<1>7. QED BY <1>3, <1>4, <1>6 DEF IInv

\* A load that is not current ends without a trace on screen.
LEMMA Drops ==
    ASSUME IInv, NEW p \in Loads, Finish(p),
           UNCHANGED <<gen, bootGen, screen, disposed, cache, now, chosen>>,
           disposed \/ ~Current(loads[p])
    PROVE  IInv'
<1>1. Done \in Load /\ Sound(Done) /\ ~Current(Done) /\ Resume(p, Done)
  BY DoneFacts, DoneSound DEF IInv, TypeOK, Finish
<1>2. cachedList' \in Seq(Clusters) /\ cachedSnap' \in [Clusters -> Snapshot \cup {None}] /\ CacheInv'
  BY DEF IInv, TypeOK, CacheInv, cache
<1> HIDE DEF IInv
<1>3. PICK n \in Load : n = Done
  BY <1>1
<1>4. Resume(p, n) /\ Sound(n) /\ ~Current(n)
  BY <1>1, <1>3
<1>5. QED BY <1>2, <1>4, Quietly

-----------------------------------------------------------------------------
(* The steps. *)

LEMMA ProfilesLoadedIInv ==
    ASSUME IInv, NEW p \in Loads, ProfilesLoaded(p)
    PROVE  IInv'
<1> DEFINE l == loads[p]
           list == Instances(cachedList, "cache", l.boot)
<1>1. /\ TypeOK /\ l \in Load /\ Sound(l) /\ l.gen <= gen /\ l.boot \in Nat
      /\ (Current(l) => Owner(l)) /\ l.pc = "profiles"
  BY InFlight DEF ProfilesLoaded
<1>2. /\ UNCHANGED <<gen, bootGen, screen, disposed, now, chosen>> /\ cache' = cache
      /\ cachedList \in Seq(Clusters) /\ now \in Nat
  BY <1>1 DEF ProfilesLoaded, TypeOK
<1>3. cachedList' \in Seq(Clusters) /\ cachedSnap' \in [Clusters -> Snapshot \cup {None}] /\ CacheInv'
  BY <1>2 DEF IInv, TypeOK, CacheInv, cache
<1>4. CASE /\ cachedList # <<>>
           /\ Resume(p, [l EXCEPT !.pc = "cache", !.target = list[1], !.list = list])
  <2>1. list \in Seq(Profile) /\ list # <<>> /\ list[1] \in Profile
    BY <1>1, <1>2, <1>4, InstancesFacts
  <2> HIDE DEF list, l
  <2> DEFINE N == [l EXCEPT !.pc = "cache", !.target = list[1], !.list = list]
  <2>2. /\ N \in Load /\ N.pc = "cache" /\ N.gen = l.gen /\ N.target = list[1] /\ N.list = list
        /\ N.shown = l.shown /\ N.snap = l.snap /\ N.asked = l.asked
    BY <1>1, <2>1 DEF Load
  <2> HIDE DEF N
  <2>3. PICK n \in Load : n = N
    BY <2>2
  <2>4. Resume(p, n)
    BY <1>4, <2>3 DEF N
  <2>5. Sound(n)
    BY <1>1, <2>1, <2>2, <2>3 DEF Sound
  <2>6. Current(n) <=> Current(l)
    BY <1>1, <2>2, <2>3 DEF Current, Awaits
  <2>7. Owner(l) => Owner(n)
    BY <1>1, <2>1, <2>2, <2>3 DEF Owner, Boots, Sound
  <2>8. Current(n) => Current(loads[p]) /\ Owner(n)
    BY <1>1, <2>6, <2>7 DEF l
  <2>9. Current(loads[p]) => Current(n)
    BY <2>6 DEF l
  <2>10. QED BY <1>2, <1>3, <2>4, <2>5, <2>8, <2>9, Quietly
<1>5. CASE Resume(p, [l EXCEPT !.pc = "list", !.asked = now])
  <2> HIDE DEF list, l
  <2> DEFINE N == [l EXCEPT !.pc = "list", !.asked = now]
  <2>2. /\ N \in Load /\ N.pc = "list" /\ N.gen = l.gen /\ N.target = l.target /\ N.list = l.list
        /\ N.shown = l.shown /\ N.snap = l.snap /\ N.asked = now
    BY <1>1, <1>2 DEF Load
  <2> HIDE DEF N
  <2>3. PICK n \in Load : n = N
    BY <2>2
  <2>4. Resume(p, n)
    BY <1>5, <2>3 DEF N
  <2>5. Sound(n)
    BY <1>1, <2>2, <2>3 DEF Sound
  <2>6. Current(n) <=> Current(l)
    BY <1>1, <2>2, <2>3 DEF Current, Awaits
  <2>7. Owner(l) => Owner(n)
    BY <1>1, <2>2, <2>3 DEF Owner, Boots, Sound
  <2>8. Current(n) => Current(loads[p]) /\ Owner(n)
    BY <1>1, <2>6, <2>7 DEF l
  <2>9. Current(loads[p]) => Current(n)
    BY <2>6 DEF l
  <2>10. QED BY <1>2, <1>3, <2>4, <2>5, <2>8, <2>9, Quietly
<1>6. QED BY <1>4, <1>5 DEF ProfilesLoaded

\* No other load is current beside one that is.
LEMMA OnlyOne ==
    ASSUME IInv, NEW p \in Loads, Current(loads[p])
    PROVE  \A q \in Loads : q # p => ~(loads[q].gen = gen /\ Awaits(loads[q]))
  BY DEF IInv, LoadsInv, Current

\* The load that a cache read leaves.
LEMMA AfterCacheFacts ==
    ASSUME NEW l \in Load, Sound(l), l.pc = "cache", now \in Nat, NEW shown \in BOOLEAN
    PROVE  LET n == AfterCache(l, shown) IN
           /\ n \in Load /\ n.gen = l.gen /\ n.shown = shown /\ n.asked = now
           /\ n.pc \in {"list", "snapshot"} /\ n.list = <<>>
           /\ n.pc = "snapshot" => n.target = l.target
           /\ n.pc = "list" <=> l.list # <<>>
           /\ Sound(n)
<1> DEFINE A == [l EXCEPT !.pc = "list", !.shown = shown, !.asked = now,
                          !.target = None, !.list = <<>>]
           B == [l EXCEPT !.pc = "snapshot", !.shown = shown, !.asked = now]
           n == AfterCache(l, shown)
<1>1. CASE l.list # <<>>
  <2>1. PICK none, empty : none = None /\ empty = <<>>
    OBVIOUS
  <2> DEFINE C == [l EXCEPT !.pc = "list", !.shown = shown, !.asked = now,
                            !.target = none, !.list = empty]
  <2>2. none \in Profile \cup {None} /\ empty \in Seq(Profile)
    BY <2>1
  <2>3. /\ C \in Load /\ C.gen = l.gen /\ C.shown = shown /\ C.asked = now
        /\ C.pc = "list" /\ C.list = empty /\ C.snap = l.snap
    BY <2>2 DEF Load
  <2>4. /\ A \in Load /\ A.gen = l.gen /\ A.shown = shown /\ A.asked = now
        /\ A.pc = "list" /\ A.list = <<>> /\ A.snap = l.snap
    BY <2>1, <2>3
  <2>5. n = A
    BY <1>1 DEF AfterCache
  <2> HIDE DEF A, n
  <2>6. Sound(n)
    BY <2>4, <2>5 DEF Sound
  <2>7. QED BY <1>1, <2>4, <2>5, <2>6 DEF n
<1>2. CASE l.list = <<>>
  <2>1. /\ B \in Load /\ B.gen = l.gen /\ B.shown = shown /\ B.asked = now
        /\ B.pc = "snapshot" /\ B.list = <<>> /\ B.snap = l.snap /\ B.target = l.target
    BY <1>2 DEF Load
  <2>2. n = B
    BY <1>2 DEF AfterCache
  <2> HIDE DEF B, n
  <2>3. Sound(n)
    BY <2>1, <2>2 DEF Sound
  <2>4. QED BY <1>2, <2>1, <2>2, <2>3 DEF n
<1>3. QED BY <1>1, <1>2

LEMMA CacheMissIInv ==
    ASSUME IInv, NEW p \in Loads, CacheMiss(p)
    PROVE  IInv'
<1> DEFINE l == loads[p]
<1>1. /\ TypeOK /\ l \in Load /\ Sound(l)
      /\ (Current(l) => Owner(l)) /\ l.pc = "cache" /\ ~l.shown /\ now \in Nat
  BY InFlight DEF CacheMiss, Sound, TypeOK
<1>2. /\ UNCHANGED <<gen, bootGen, screen, disposed, now, chosen>> /\ cache' = cache
      /\ Resume(p, AfterCache(l, FALSE))
  BY DEF CacheMiss
<1>3. cachedList' \in Seq(Clusters) /\ cachedSnap' \in [Clusters -> Snapshot \cup {None}] /\ CacheInv'
  BY <1>2 DEF IInv, TypeOK, CacheInv, cache
<1> HIDE DEF l
<1>4. PICK n \in Load : n = AfterCache(l, FALSE)
  BY <1>1, AfterCacheFacts
<1>5. /\ Resume(p, n) /\ n.gen = l.gen /\ ~n.shown /\ n.asked = now
      /\ n.pc \in {"list", "snapshot"} /\ n.list = <<>>
      /\ n.pc = "snapshot" => n.target = l.target
      /\ n.pc = "list" <=> l.list # <<>>
      /\ Sound(n)
  BY <1>1, <1>2, <1>4, AfterCacheFacts
<1>6. Current(n) <=> Current(l)
  BY <1>1, <1>5 DEF Current, Awaits
<1>7. Owner(l) => Owner(n)
  BY <1>1, <1>5 DEF Owner, Boots
<1>8. Current(n) => Current(loads[p]) /\ Owner(n)
  BY <1>1, <1>6, <1>7 DEF l
<1>9. Current(loads[p]) => Current(n)
  BY <1>6 DEF l
<1>10. QED BY <1>2, <1>3, <1>5, <1>8, <1>9, Quietly

\* The list that a load in _showCached or _activate puts on screen.
Listing(l) == IF l.list # <<>> THEN l.list ELSE clusters

\* A current load puts its target on screen, with a snapshot of it.
LEMMA ShowFacts ==
    ASSUME IInv, NEW p \in Loads, Current(loads[p]), loads[p].pc \in {"cache", "snapshot"},
           NEW snap \in Snapshot, snap.cluster = loads[p].target.id,
           Show(loads[p].target, Listing(loads[p]), snap), chosen' = chosen
    PROVE  /\ clusters' \in Seq(Profile)
           /\ selected' \in Profile /\ selected'.id = loads[p].target.id /\ selected' # None
           /\ ShownIsSelected' /\ SelectedIsListed' /\ SwitchWins'
<1>1. /\ TypeOK /\ Sound(loads[p]) /\ loads[p].list \in Seq(Profile) /\ Owner(loads[p])
      /\ SelectedIsListed /\ SwitchWins
  BY InFlight DEF IInv, ScreenInv
<1>2. PICK l \in Load : l = loads[p]
  BY InFlight
<1>3. /\ l.pc \in {"cache", "snapshot"} /\ Sound(l) /\ l.list \in Seq(Profile) /\ Owner(l)
      /\ l.target \in Profile
  BY <1>1, <1>2 DEF Sound
<1>4. PICK list : list = Listing(l)
  OBVIOUS
<1>5. list \in Seq(Profile)
  BY <1>1, <1>3, <1>4 DEF Listing, TypeOK
<1>6. Holds(list, l.target.id)
  <2>1. CASE l.list # <<>>
    <3>1. list = l.list /\ l.target = list[1] /\ 1 \in 1..Len(list)
      BY <1>3, <1>4, <2>1 DEF Sound, Listing
    <3>2. QED BY <3>1 DEF Holds
  <2>2. CASE l.list = <<>>
    <3>1. list = clusters /\ selected # None /\ selected.id = l.target.id
      BY <1>3, <1>4, <2>2 DEF Listing, Owner, Boots
    <3>2. QED BY <1>1, <3>1 DEF Holds, SelectedIsListed
  <2>3. QED BY <2>1, <2>2
<1>7. clusters' = list /\ selected' = listed(list, l.target) /\ snapshot' = snap
  BY <1>2, <1>4 DEF Show
<1>8. /\ selected' \in Profile /\ selected'.id = l.target.id
      /\ \E i \in 1..Len(list) : list[i] = selected'
  BY <1>3, <1>5, <1>6, <1>7, ListedFacts
<1>9. selected' # None
  BY <1>8, NoneAssumption
<1>10. SwitchWins'
  BY <1>1, <1>3, <1>8, <1>9 DEF SwitchWins, Owner
<1>11. QED
  BY <1>2, <1>5, <1>7, <1>8, <1>9, <1>10 DEF ShownIsSelected, SelectedIsListed

LEMMA CacheHitIInv ==
    ASSUME IInv, NEW p \in Loads, CacheHit(p)
    PROVE  IInv'
<1> DEFINE l == loads[p]
           old == cachedSnap[l.target.id]
           snap == [old EXCEPT !.live = FALSE]
<1>1. /\ TypeOK /\ l \in Load /\ Sound(l) /\ gen \in Nat /\ bootGen \in Nat
      /\ l.pc = "cache" /\ now \in Nat /\ l.target \in Profile
  BY InFlight DEF CacheHit, Sound, TypeOK
<1>2. /\ UNCHANGED <<gen, bootGen, disposed, cache, now, chosen>>
      /\ Resume(p, AfterCache(l, TRUE)) /\ old # None /\ isCurrent(l.gen)
      /\ Show(l.target, Listing(l), snap) /\ isRefreshing' = TRUE
  BY DEF CacheHit, Listing
<1>3. Current(l) /\ Owner(l)
  BY <1>1, <1>2, InFlight DEF isCurrent, Current, Awaits
<1>4. old \in Snapshot /\ old.cluster = l.target.id /\ old.asked <= now
  BY <1>1, <1>2 DEF IInv, TypeOK, CacheInv, Profile
<1> HIDE DEF l, old
<1>5. snap \in Snapshot /\ snap.cluster = l.target.id /\ snap.asked <= now
  BY <1>4 DEF Snapshot
<1> HIDE DEF snap
<1>6. /\ clusters' \in Seq(Profile)
      /\ selected' \in Profile /\ selected'.id = l.target.id /\ selected' # None
      /\ ShownIsSelected' /\ SelectedIsListed' /\ SwitchWins'
  <2>1. PICK s \in Snapshot : s = snap
    BY <1>5
  <2>2. QED BY <1>1, <1>2, <1>3, <1>5, <2>1, ShowFacts DEF l
<1>7. /\ loadError' = FALSE /\ staleError' = FALSE /\ isLoading' = FALSE
      /\ snapshot' = snap /\ snapshot' \in Snapshot
  BY <1>2, <1>5 DEF Show
<1>8. PICK n \in Load : n = AfterCache(l, TRUE)
  BY <1>1, AfterCacheFacts
<1>9. /\ Resume(p, n) /\ n.gen = l.gen /\ n.shown /\ n.asked = now
      /\ n.pc \in {"list", "snapshot"} /\ n.list = <<>>
      /\ n.pc = "snapshot" => n.target = l.target
      /\ n.pc = "list" <=> l.list # <<>>
      /\ Sound(n)
  BY <1>1, <1>2, <1>8, AfterCacheFacts
<1>10. Sound(n)' /\ Current(n)'
  BY <1>2, <1>3, <1>9 DEF Sound, Current, Awaits
<1>11. Owner(n)'
  BY <1>1, <1>2, <1>3, <1>5, <1>6, <1>7, <1>9 DEF Owner, Boots
<1>12. \A q \in Loads : q # p => ~(loads[q].gen = gen' /\ Awaits(loads[q]))
  BY <1>2, <1>3, OnlyOne DEF l
<1>13. StaleIsFlagged'
  BY <1>2 DEF StaleIsFlagged
<1>14. gen' \in Nat /\ gen <= gen' /\ bootGen' \in Nat /\ chosen' \in Clusters \cup {None}
  BY <1>1, <1>2 DEF TypeOK
<1>15. QED
  BY <1>2, <1>5, <1>6, <1>7, <1>9, <1>10, <1>11, <1>12, <1>13, <1>14, Alone

\* A current load ends and takes the spinner and the badge down.
LEMMA Ends ==
    ASSUME IInv, NEW p \in Loads, Current(loads[p]), Finish(p),
           UNCHANGED <<gen, bootGen, snapshot, disposed, cache, now, chosen>>,
           isLoading' = FALSE, isRefreshing' = FALSE,
           loadError' \in BOOLEAN, staleError' \in BOOLEAN,
           clusters' \in Seq(Profile), selected' \in Profile \cup {None},
           ShownIsSelected', SelectedIsListed', SwitchWins',
           <<>> \notin Lists => CachedIsFlagged'
    PROVE  IInv'
<1>1. /\ gen' \in Nat /\ gen <= gen' /\ bootGen' \in Nat /\ chosen' \in Clusters \cup {None}
      /\ snapshot' \in Snapshot \cup {None} /\ (snapshot' # None => snapshot'.asked <= now)
      /\ gen \in Nat
  BY DEF IInv, TypeOK, ScreenInv
<1>2. \A q \in Loads : q # p => ~(loads[q].gen = gen' /\ Awaits(loads[q]))
  BY OnlyOne
<1>3. PICK n \in Load : n = Done
  BY DoneFacts
<1>4. Resume(p, n) /\ Sound(n) /\ ~Current(n)
  BY <1>1, <1>3, DoneSound DEF Finish
<1>5. Sound(n)' /\ ~Current(n)'
  BY <1>4 DEF Sound, Current
<1>6. <<>> \notin Lists => StaleIsFlagged'
  BY DEF StaleIsFlagged, CachedIsFlagged
<1>7. QED BY <1>1, <1>2, <1>4, <1>5, <1>6, Alone

\* _fail of a load that is current: what was shown from the cache is flagged.
LEMMA FailedFacts ==
    ASSUME IInv, NEW p \in Loads, Current(loads[p]), loads[p].pc # "refresh",
           failed(loads[p].shown), snapshot' = snapshot
    PROVE  /\ isLoading' = FALSE /\ isRefreshing' = FALSE
           /\ loadError' \in BOOLEAN /\ staleError' \in BOOLEAN
           /\ CachedIsFlagged'
<1>1. loads[p].shown \in BOOLEAN /\ loadError \in BOOLEAN /\ staleError \in BOOLEAN
      /\ (~loads[p].shown => snapshot = None)
  BY InFlight DEF IInv, TypeOK, Owner
<1>2. QED BY <1>1 DEF failed, CachedIsFlagged

LEMMA ListFailedIInv ==
    ASSUME IInv, NEW p \in Loads, ListFailed(p)
    PROVE  IInv'
<1>1. loads[p].pc = "list" /\ Finish(p)
      /\ UNCHANGED <<gen, bootGen, clusters, selected, snapshot, disposed, cache, now, chosen>>
  BY DEF ListFailed
<1>2. CASE isCurrent(loads[p].gen)
  <2>1. Current(loads[p]) /\ failed(loads[p].shown)
    BY <1>1, <1>2 DEF ListFailed, isCurrent, Current, Awaits
  <2>2. /\ isLoading' = FALSE /\ isRefreshing' = FALSE
        /\ loadError' \in BOOLEAN /\ staleError' \in BOOLEAN /\ CachedIsFlagged'
    BY <1>1, <2>1, FailedFacts
  <2>3. clusters' \in Seq(Profile) /\ selected' \in Profile \cup {None}
    BY <1>1 DEF IInv, TypeOK
  <2>4. ShownIsSelected' /\ SelectedIsListed' /\ SwitchWins'
    BY <1>1 DEF IInv, ScreenInv, ShownIsSelected, SelectedIsListed, SwitchWins
  <2>5. QED BY <1>1, <2>1, <2>2, <2>3, <2>4, Ends
<1>3. CASE ~isCurrent(loads[p].gen)
  <2>1. UNCHANGED screen
    BY <1>1, <1>3 DEF ListFailed, screen
  <2>2. disposed \/ ~Current(loads[p])
    BY <1>3 DEF isCurrent, Current
  <2>3. QED BY <1>1, <2>1, <2>2, Drops
<1>4. QED BY <1>2, <1>3

\* A bootstrap that is no longer current brings the live list: the selected
\* cluster stays, as its instance in that list.
LEMMA AdoptIInv ==
    ASSUME IInv, NEW p \in Loads, NEW list \in Seq(Profile),
           loads[p].pc = "list", ~isCurrent(loads[p].gen), ~disposed, Adopts(list),
           clusters' = list, selected' = Adopted(list),
           Resume(p, [loads[p] EXCEPT !.pc = "saveList", !.list = list]),
           UNCHANGED <<gen, bootGen, snapshot, loadError, staleError, isLoading, isRefreshing,
                       disposed, cache, now, chosen>>
    PROVE  IInv'
<1>1. /\ selected # None /\ selected \in Profile
      /\ selected' \in Profile /\ selected'.id = selected.id
      /\ \E i \in 1..Len(list) : list[i] = selected'
  BY FirstFacts DEF Adopts, Adopted, IInv, TypeOK
<1>2. selected' # None
  BY <1>1, NoneAssumption
<1> DEFINE l == loads[p]
<1>3. l \in Load /\ Sound(l) /\ TypeOK /\ ~Current(l)
  BY InFlight DEF isCurrent, Current
<1> HIDE DEF l
<1> DEFINE N == [l EXCEPT !.pc = "saveList", !.list = list]
<1>4. N \in Load /\ N.pc = "saveList" /\ N.gen = l.gen /\ N.snap = l.snap
  BY <1>3 DEF Load
<1> HIDE DEF N
<1>5. PICK n \in Load : n = N
  BY <1>4
<1>6. Resume(p, n)
  BY <1>5 DEF N, l
<1>7. Sound(n) /\ ~Current(n)
  BY <1>3, <1>4, <1>5 DEF Sound, Current, Awaits
<1>8. loads' \in [Loads -> Load] /\ LoadsInv'
  BY <1>1, <1>2, <1>6, <1>7, LoadsBeside
<1>9. TypeOK' /\ CacheInv'
  BY <1>1, <1>3, <1>8 DEF IInv, TypeOK, CacheInv, cache
<1>10. BusyHasOwner'
  <2> SUFFICES ASSUME (isLoading \/ isRefreshing) /\ ~disposed
               PROVE  \E q \in Loads : Current(loads'[q])
    BY DEF BusyHasOwner, Current, Awaits
  <2>1. PICK q \in Loads : Current(loads[q])
    BY DEF IInv, ScreenInv, BusyHasOwner, Current, Awaits
  <2>2. loads'[q] = loads[q]
    BY <1>3, <1>6, <2>1 DEF Resume, TypeOK, l
  <2>3. QED BY <2>1, <2>2
<1>11. ShownIsSelected' /\ SelectedIsListed' /\ SwitchWins' /\ (<<>> \notin Lists => StaleIsFlagged')
  BY <1>1, <1>2 DEF IInv, ScreenInv, ShownIsSelected, SelectedIsListed, SwitchWins, StaleIsFlagged
<1>12. ScreenInv'
  BY <1>10, <1>11 DEF IInv, ScreenInv
<1>13. QED BY <1>8, <1>9, <1>12 DEF IInv

LEMMA ListLoadedIInv ==
    ASSUME IInv, NEW p \in Loads, NEW ids \in Lists, ListLoaded(p, ids)
    PROVE  IInv'
<1> DEFINE l == loads[p]
           list == Instances(ids, "live", l.boot)
<1>1. /\ TypeOK /\ l \in Load /\ Sound(l) /\ l.boot \in Nat /\ l.pc = "list" /\ gen \in Nat
      /\ (Current(l) => Owner(l)) /\ now \in Nat
  BY InFlight DEF ListLoaded, TypeOK
<1>2. UNCHANGED <<gen, bootGen, snapshot, loadError, staleError, disposed, cache, now, chosen>>
  BY DEF ListLoaded
<1>3. /\ list \in Seq(Profile) /\ (ids # <<>> => list # <<>> /\ list[1] \in Profile)
  BY <1>1, SessionAssumption, InstancesFacts
<1>4. CASE isCurrent(l.gen) /\ ids = <<>>
  <2>1. /\ Current(loads[p]) /\ Finish(p) /\ UNCHANGED <<clusters, selected>>
        /\ isLoading' = FALSE /\ isRefreshing' = FALSE
    BY <1>1, <1>4 DEF ListLoaded, isCurrent, Current, Awaits
  <2>2. /\ loadError' \in BOOLEAN /\ staleError' \in BOOLEAN
        /\ clusters' \in Seq(Profile) /\ selected' \in Profile \cup {None}
    BY <1>1, <1>2, <2>1 DEF TypeOK
  <2>3. ShownIsSelected' /\ SelectedIsListed' /\ SwitchWins'
    BY <1>2, <2>1 DEF IInv, ScreenInv, ShownIsSelected, SelectedIsListed, SwitchWins
  <2>4. <<>> \notin Lists => CachedIsFlagged'
    BY <1>4
  <2>5. QED BY <1>2, <2>1, <2>2, <2>3, <2>4, Ends
<1>5. CASE isCurrent(l.gen) /\ ids # <<>>
  <2>1. /\ Resume(p, [l EXCEPT !.pc = "snapshot", !.asked = now,
                               !.target = list[1], !.list = list])
        /\ UNCHANGED <<clusters, selected, isLoading, isRefreshing>>
    BY <1>1, <1>5 DEF ListLoaded
  <2>2. Current(l) /\ Owner(l) /\ list # <<>> /\ list[1] \in Profile
    BY <1>1, <1>3, <1>5 DEF isCurrent, Current, Awaits
  <2> HIDE DEF l, list
  <2> DEFINE N == [l EXCEPT !.pc = "snapshot", !.asked = now,
                            !.target = list[1], !.list = list]
  <2>3. /\ N \in Load /\ N.pc = "snapshot" /\ N.gen = l.gen /\ N.snap = l.snap /\ N.list = list
        /\ N.target = list[1] /\ N.asked = now /\ N.shown = l.shown
    BY <1>1, <1>3, <2>2 DEF Load
  <2> HIDE DEF N
  <2>4. PICK n \in Load : n = N
    BY <2>3
  <2>5. Resume(p, n)
    BY <2>1, <2>4 DEF N
  <2>6. Sound(n)
    BY <1>1, <2>2, <2>3, <2>4 DEF Sound
  <2>7. Current(n)
    BY <2>2, <2>3, <2>4 DEF Current, Awaits
  <2>8. Owner(n)
    BY <1>1, <2>2, <2>3, <2>4 DEF Owner, Boots, IInv, ScreenInv, Sound
  <2>9. UNCHANGED screen
    BY <1>2, <2>1 DEF screen
  <2>10. /\ cachedList' \in Seq(Clusters) /\ CacheInv'
         /\ cachedSnap' \in [Clusters -> Snapshot \cup {None}]
    BY <1>2 DEF IInv, TypeOK, CacheInv, cache
  <2>11. Current(loads[p])
    BY <2>2 DEF l
  <2>12. QED BY <1>2, <2>5, <2>6, <2>7, <2>8, <2>9, <2>10, <2>11, Quietly
<1>6. CASE ~isCurrent(l.gen) /\ ~disposed /\ l.boot = bootGen /\ Adopts(list)
  <2>1. /\ clusters' = list /\ selected' = Adopted(list)
        /\ Resume(p, [loads[p] EXCEPT !.pc = "saveList", !.list = list])
        /\ UNCHANGED <<isLoading, isRefreshing>>
    BY <1>1, <1>6 DEF ListLoaded
  <2> HIDE DEF list
  <2>2. PICK s \in Seq(Profile) : s = list
    BY <1>3
  <2>3. QED BY <1>1, <1>2, <1>6, <2>1, <2>2, AdoptIInv DEF l
<1>7. CASE ~isCurrent(l.gen) /\ ~(~disposed /\ l.boot = bootGen /\ Adopts(list))
  <2>1. Finish(p) /\ UNCHANGED <<clusters, selected, isLoading, isRefreshing>>
    BY <1>1, <1>7 DEF ListLoaded
  <2>2. UNCHANGED screen
    BY <1>2, <2>1 DEF screen
  <2>3. disposed \/ ~Current(loads[p])
    BY <1>7 DEF isCurrent, Current, l
  <2>4. QED BY <1>2, <2>1, <2>2, <2>3, Drops
<1>8. QED BY <1>4, <1>5, <1>6, <1>7

LEMMA ActivateFailedIInv ==
    ASSUME IInv, NEW p \in Loads, ActivateFailed(p)
    PROVE  IInv'
<1>1. loads[p].pc = "snapshot" /\ Finish(p)
      /\ UNCHANGED <<gen, bootGen, snapshot, disposed, cache, now, chosen>>
  BY DEF ActivateFailed
<1>2. CASE isCurrent(loads[p].gen)
  <2>1. Current(loads[p]) /\ failed(loads[p].shown)
    BY <1>1, <1>2 DEF ActivateFailed, isCurrent, Current, Awaits
  <2>2. /\ isLoading' = FALSE /\ isRefreshing' = FALSE
        /\ loadError' \in BOOLEAN /\ staleError' \in BOOLEAN /\ CachedIsFlagged'
    BY <1>1, <2>1, FailedFacts
  <2>3. CASE loads[p].list # <<>> /\ ~loads[p].shown
    <3>1. clusters' = loads[p].list /\ selected' = loads[p].target
      BY <1>2, <2>3 DEF ActivateFailed
    <3>2. /\ loads[p].list \in Seq(Profile) /\ loads[p].target \in Profile
          /\ loads[p].target = loads[p].list[1]
          /\ snapshot = None /\ chosen = None
      BY <1>1, <2>1, <2>3, InFlight DEF Sound, Owner, Boots
    <3>3. 1 \in 1..Len(loads[p].list)
      BY <2>3, <3>2
    <3>4. ShownIsSelected' /\ SelectedIsListed' /\ SwitchWins'
      BY <1>1, <3>1, <3>2, <3>3 DEF ShownIsSelected, SelectedIsListed, SwitchWins
    <3>5. QED BY <1>1, <2>1, <2>2, <3>1, <3>2, <3>4, Ends
  <2>4. CASE ~(loads[p].list # <<>> /\ ~loads[p].shown)
    <3>1. UNCHANGED <<clusters, selected>>
      BY <1>2, <2>4 DEF ActivateFailed
    <3>2. clusters' \in Seq(Profile) /\ selected' \in Profile \cup {None}
      BY <3>1 DEF IInv, TypeOK
    <3>3. ShownIsSelected' /\ SelectedIsListed' /\ SwitchWins'
      BY <1>1, <3>1 DEF IInv, ScreenInv, ShownIsSelected, SelectedIsListed, SwitchWins
    <3>4. QED BY <1>1, <2>1, <2>2, <3>2, <3>3, Ends
  <2>5. QED BY <2>3, <2>4
<1>3. CASE ~isCurrent(loads[p].gen)
  <2>1. UNCHANGED screen
    BY <1>1, <1>3 DEF ActivateFailed, screen
  <2>2. disposed \/ ~Current(loads[p])
    BY <1>3 DEF isCurrent, Current
  <2>3. QED BY <1>1, <2>1, <2>2, Drops
<1>4. QED BY <1>2, <1>3

\* What a load that waits for a snapshot gets.
LEMMA AnswerFacts ==
    ASSUME IInv, NEW p \in Loads, loads[p].pc \in {"snapshot", "refresh"},
           NEW snap, snap = Answer(loads[p])
    PROVE  /\ snap \in Snapshot /\ snap.cluster = loads[p].target.id /\ snap.live
           /\ snap.asked \in Nat /\ loads[p].asked = snap.asked /\ snap.asked <= now
           /\ snap # None
<1> DEFINE l == loads[p]
<1>1. l.asked \in Nat /\ now \in Nat /\ l.target \in Profile /\ l.asked <= now
  BY InFlight DEF TypeOK, Sound
<1>2. l.target.id \in Clusters
  BY <1>1 DEF Profile
<1>3. snap = [cluster |-> l.target.id, asked |-> l.asked, live |-> TRUE]
  BY DEF Answer
<1> HIDE DEF l
<1>4. snap \in Snapshot
  BY <1>1, <1>2, <1>3 DEF Snapshot
<1>5. snap # None
  BY <1>4, NoneAssumption
<1>6. QED BY <1>1, <1>3, <1>4, <1>5 DEF l

LEMMA ActivatedIInv ==
    ASSUME IInv, NEW p \in Loads, NEW snap, snap = Answer(loads[p]),
           Activated(p, snap)
    PROVE  IInv'
<1> DEFINE l == loads[p]
<1>1. /\ TypeOK /\ l \in Load /\ Sound(l) /\ l.pc = "snapshot" /\ gen \in Nat /\ bootGen \in Nat
      /\ (Current(l) => Owner(l)) /\ now \in Nat
  BY InFlight DEF Activated, TypeOK
<1>2. UNCHANGED <<gen, bootGen, disposed, cache, now, chosen>>
  BY DEF Activated
<1>3. /\ snap \in Snapshot /\ snap.cluster = l.target.id /\ snap.live
      /\ snap.asked <= now /\ snap # None
  BY <1>1, AnswerFacts
<1>4. CASE isCurrent(l.gen)
  <2> DEFINE pc == IF l.list # <<>> THEN "saveList" ELSE "saveSnapshot"
             N == [l EXCEPT !.pc = pc, !.snap = snap]
  <2>1. /\ Show(l.target, Listing(l), snap) /\ isRefreshing' = FALSE
        /\ Resume(p, N)
    BY <1>4 DEF Activated, Listing
  <2>2. Current(l)
    BY <1>1, <1>4 DEF isCurrent, Current, Awaits
  <2>3. /\ clusters' \in Seq(Profile)
        /\ selected' \in Profile
        /\ ShownIsSelected' /\ SelectedIsListed' /\ SwitchWins'
    BY <1>1, <1>2, <1>3, <2>1, <2>2, ShowFacts
  <2>4. /\ loadError' = FALSE /\ staleError' = FALSE /\ isLoading' = FALSE
        /\ snapshot' = snap
    BY <2>1 DEF Show
  <2> HIDE DEF l
  <2>5. pc \in {"saveList", "saveSnapshot"}
    OBVIOUS
  <2> HIDE DEF pc
  <2>6. N \in Load /\ N.pc = pc /\ N.gen = l.gen /\ N.snap = snap
    BY <1>1, <1>3, <2>5 DEF Load
  <2> HIDE DEF N
  <2>7. PICK n \in Load : n = N
    BY <2>6
  <2>8. Resume(p, n)
    BY <2>1, <2>7
  <2>9. Sound(n)' /\ ~Current(n)'
    BY <1>1, <1>2, <1>3, <2>5, <2>6, <2>7 DEF Sound, Current, Awaits
  <2>10. \A q \in Loads : q # p => ~(loads[q].gen = gen' /\ Awaits(loads[q]))
    BY <1>2, <2>2, OnlyOne DEF l
  <2>11. StaleIsFlagged'
    BY <1>3, <2>4 DEF StaleIsFlagged
  <2>12. gen' \in Nat /\ gen <= gen' /\ bootGen' \in Nat /\ chosen' \in Clusters \cup {None}
    BY <1>1, <1>2 DEF TypeOK
  <2>13. QED
    BY <1>2, <1>3, <2>1, <2>3, <2>4, <2>8, <2>9, <2>10, <2>11, <2>12, Alone
<1>5. CASE ~isCurrent(l.gen)
  <2>1. Finish(p) /\ UNCHANGED screen
    BY <1>5 DEF Activated
  <2>2. disposed \/ ~Current(loads[p])
    BY <1>5 DEF isCurrent, Current
  <2>3. QED BY <1>2, <2>1, <2>2, Drops
<1>6. QED BY <1>4, <1>5

\* What deleteProfiles leaves in the store is a list of clusters.
LEMMA DeleteGoneFacts ==
    ASSUME cachedList \in Seq(Clusters), NEW list, deleteGone(list)
    PROVE  cachedList' \in Seq(Clusters)
<1> DEFINE kept == {i \in 1..Len(cachedList) : Holds(list, cachedList[i])}
<1>1. PICK n \in 0..Len(cachedList) : \E at \in [1..n -> kept] :
           cachedList' = [j \in 1..n |-> cachedList[at[j]]]
  BY DEF deleteGone
<1>2. PICK at \in [1..n -> kept] : cachedList' = [j \in 1..n |-> cachedList[at[j]]]
  BY <1>1
<1>3. n \in Nat /\ \A j \in 1..n : at[j] \in 1..Len(cachedList)
  BY <1>1, <1>2
<1>4. \A j \in 1..n : cachedList[at[j]] \in Clusters
  BY <1>3
<1>5. QED BY <1>2, <1>3, <1>4

LEMMA SaveListIInv ==
    ASSUME IInv, NEW p \in Loads, SaveList(p)
    PROVE  IInv'
<1> DEFINE l == loads[p]
<1>1. /\ TypeOK /\ l \in Load /\ Sound(l) /\ l.pc = "saveList" /\ l.list \in Seq(Profile)
      /\ gen \in Nat
  BY InFlight DEF SaveList, TypeOK
<1>2. /\ UNCHANGED <<gen, bootGen, screen, disposed, now, chosen>> /\ cachedSnap' = cachedSnap
  BY DEF SaveList
<1>3. cachedSnap' \in [Clusters -> Snapshot \cup {None}] /\ CacheInv'
  BY <1>2 DEF IInv, TypeOK, CacheInv
<1>4. cachedList' \in Seq(Clusters)
  <2>1. CASE cachedList' = Ids(l.list)
    <3>1. PICK list \in Seq(Profile) : list = l.list
      BY <1>1
    <3>2. \A i \in 1..Len(list) : list[i] \in Profile
      OBVIOUS
    <3>3. \A i \in 1..Len(list) : list[i].id \in Clusters
      BY <3>2 DEF Profile
    <3>4. Ids(list) \in Seq(Clusters)
      BY <3>3 DEF Ids
    <3>5. QED BY <2>1, <3>1, <3>4
  <2>2. CASE cachedList' = cachedList
    BY <1>1, <2>2 DEF TypeOK
  <2>3. CASE deleteGone(l.list)
    BY <1>1, <2>3, DeleteGoneFacts DEF TypeOK
  <2>4. QED BY <2>1, <2>2, <2>3 DEF SaveList
<1>5. ~Current(loads[p])
  BY <1>1 DEF Current, Awaits
<1>6. CASE Finish(p)
  <2>1. PICK n \in Load : n = Done
    BY DoneFacts
  <2>2. Resume(p, n) /\ Sound(n) /\ ~Current(n)
    BY <1>1, <1>6, <2>1, DoneSound DEF Finish
  <2>3. QED BY <1>2, <1>3, <1>4, <1>5, <2>2, Quietly
<1>7. CASE l.snap # None /\ Resume(p, [l EXCEPT !.pc = "saveSnapshot"])
  <2> HIDE DEF l
  <2> DEFINE N == [l EXCEPT !.pc = "saveSnapshot"]
  <2>1. N \in Load /\ N.pc = "saveSnapshot" /\ N.gen = l.gen /\ N.snap = l.snap
    BY <1>1 DEF Load
  <2> HIDE DEF N
  <2>2. PICK n \in Load : n = N
    BY <2>1
  <2>3. Resume(p, n)
    BY <1>7, <2>2 DEF N
  <2>4. Sound(n) /\ ~Current(n)
    BY <1>1, <1>7, <2>1, <2>2 DEF Sound, Current, Awaits
  <2>5. QED BY <1>2, <1>3, <1>4, <1>5, <2>3, <2>4, Quietly
<1>8. QED BY <1>6, <1>7 DEF SaveList

LEMMA SaveSnapshotIInv ==
    ASSUME IInv, NEW p \in Loads, SaveSnapshot(p)
    PROVE  IInv'
<1>1. /\ TypeOK /\ Sound(loads[p]) /\ loads[p].pc = "saveSnapshot" /\ gen \in Nat
      /\ loads[p].snap \in Snapshot \cup {None}
  BY InFlight DEF SaveSnapshot, TypeOK
<1>2. UNCHANGED <<gen, bootGen, screen, disposed, now, chosen>> /\ cachedList' = cachedList
  BY DEF SaveSnapshot
<1>3. PICK snap \in Snapshot : snap = loads[p].snap
  BY <1>1 DEF Sound
<1>4. /\ snap.asked <= now /\ snap # None /\ snap.cluster \in Clusters
  BY <1>1, <1>3, NoneAssumption DEF Sound, Snapshot
<1>5. cachedSnap' \in {cachedSnap, [cachedSnap EXCEPT ![snap.cluster] = snap]}
  BY <1>3 DEF SaveSnapshot
<1>6. cachedSnap' \in [Clusters -> Snapshot \cup {None}] /\ cachedList' \in Seq(Clusters)
  BY <1>1, <1>2, <1>4, <1>5 DEF TypeOK
<1>7. CacheInv'
  <2>1. CASE cachedSnap' = cachedSnap
    BY <1>2, <2>1 DEF IInv, CacheInv
  <2>2. CASE cachedSnap' = [cachedSnap EXCEPT ![snap.cluster] = snap]
    <3>1. \A c \in Clusters : cachedSnap'[c] = IF c = snap.cluster THEN snap ELSE cachedSnap[c]
      BY <1>1, <2>2 DEF TypeOK
    <3>2. QED BY <1>2, <1>4, <3>1 DEF IInv, CacheInv
  <2>3. QED BY <1>5, <2>1, <2>2
<1>8. ~Current(loads[p])
  BY <1>1 DEF Current, Awaits
<1>9. PICK n \in Load : n = Done
  BY DoneFacts
<1>10. Resume(p, n) /\ Sound(n) /\ ~Current(n)
  BY <1>1, <1>9, DoneSound DEF Finish, SaveSnapshot
<1>11. QED BY <1>2, <1>6, <1>7, <1>8, <1>10, Quietly

\* While nothing is loading no load is current.
LEMMA NobodyCurrent ==
    ASSUME IInv, ~isLoading, ~isRefreshing
    PROVE  \A q \in Loads : ~(loads[q].gen = gen /\ Awaits(loads[q]))
  BY DEF IInv, LoadsInv, Owner, Current

LEMMA RefreshIInv ==
    ASSUME IInv, NEW p \in Loads, Refresh(p)
    PROVE  IInv'
<1>1. /\ TypeOK /\ gen \in Nat /\ bootGen \in Nat /\ now \in Nat /\ selected \in Profile
      /\ selected # None
  BY DEF IInv, TypeOK, Refresh
<1>2. /\ UNCHANGED <<gen, bootGen, clusters, selected, snapshot, loadError, staleError, isLoading,
                     disposed, cache, now, chosen>>
      /\ ~isLoading /\ ~isRefreshing /\ ~disposed /\ isRefreshing' = TRUE
  BY DEF Refresh, MayRefresh
<1> DEFINE N == [Done EXCEPT !.pc = "refresh", !.gen = gen, !.target = selected,
                             !.asked = now]
<1>3. /\ N \in Load /\ N.pc = "refresh" /\ N.gen = gen /\ N.target = selected
      /\ N.asked = now /\ N.snap = None /\ N.list = <<>> /\ N.shown = FALSE
  BY <1>1, DoneFacts DEF Load
<1>4. Resume(p, N)
  BY DEF Refresh
<1> HIDE DEF N
<1>5. PICK n \in Load : n = N
  BY <1>3
<1>6. Sound(n)'
  BY <1>1, <1>2, <1>3, <1>5 DEF Sound
<1>7. Current(n)'
  BY <1>2, <1>3, <1>5 DEF Current, Awaits
<1>8. <<>> \notin Lists => CachedIsFlagged
  BY <1>2 DEF IInv, ScreenInv, StaleIsFlagged, CachedIsFlagged
<1>9. Owner(n)'
  <2>1. <<>> \notin Lists => CachedIsFlagged'
    BY <1>2, <1>8 DEF CachedIsFlagged
  <2>2. snapshot # None => snapshot.asked <= now
    BY DEF IInv, ScreenInv
  <2>3. QED BY <1>1, <1>2, <1>3, <1>5, <2>1, <2>2 DEF Owner, Boots
<1>10. \A q \in Loads : q # p => ~(loads[q].gen = gen' /\ Awaits(loads[q]))
  BY <1>2, NobodyCurrent
<1>11. ShownIsSelected' /\ SelectedIsListed' /\ SwitchWins' /\ StaleIsFlagged'
  BY <1>2 DEF IInv, ScreenInv, ShownIsSelected, SelectedIsListed, SwitchWins, StaleIsFlagged
<1>12. /\ gen' \in Nat /\ gen <= gen' /\ bootGen' \in Nat /\ chosen' \in Clusters \cup {None}
       /\ clusters' \in Seq(Profile) /\ selected' \in Profile \cup {None}
       /\ snapshot' \in Snapshot \cup {None}
       /\ loadError' \in BOOLEAN /\ staleError' \in BOOLEAN /\ isLoading' \in BOOLEAN
       /\ (snapshot' # None => snapshot'.asked <= now)
  BY <1>1, <1>2 DEF TypeOK, IInv, ScreenInv
<1>13. QED
  BY <1>2, <1>4, <1>5, <1>6, <1>7, <1>9, <1>10, <1>11, <1>12, Alone

\* A load of an earlier generation is not current in the next one.
LEMMA NextGeneration ==
    ASSUME IInv
    PROVE  \A q \in Loads : ~(loads[q].gen = gen + 1 /\ Awaits(loads[q]))
<1> SUFFICES ASSUME NEW q \in Loads, loads[q].gen = gen + 1 PROVE FALSE
  OBVIOUS
<1>1. loads[q].gen \in Nat /\ loads[q].gen <= gen /\ gen \in Nat
  BY InFlight DEF TypeOK
<1>2. QED BY <1>1

\* The loads that a bootstrap and a switch start.
LEMMA BootingFacts ==
    ASSUME NEW g \in Nat, NEW boot \in Nat
    PROVE  LET n == Booting(g + 1, boot + 1) IN
           /\ n \in Load /\ n.pc = "profiles" /\ n.gen = g + 1
           /\ n.snap = None /\ n.list = <<>> /\ n.shown = FALSE
<1>1. PICK h, b \in Nat : h = g + 1 /\ b = boot + 1
  OBVIOUS
<1> DEFINE n == Booting(h, b)
<1>2. /\ n \in Load /\ n.pc = "profiles" /\ n.gen = h
      /\ n.snap = None /\ n.list = <<>> /\ n.shown = FALSE
  BY DoneFacts DEF Load, Booting
<1>3. QED BY <1>1, <1>2

LEMMA SwitchingFacts ==
    ASSUME NEW g \in Nat, NEW c \in Profile
    PROVE  LET n == [Done EXCEPT !.pc = "cache", !.gen = g + 1, !.target = c] IN
           /\ n \in Load /\ n.pc = "cache" /\ n.gen = g + 1 /\ n.target = c
           /\ n.snap = None /\ n.list = <<>> /\ n.shown = FALSE
<1>1. PICK h \in Nat : h = g + 1
  OBVIOUS
<1> DEFINE n == [Done EXCEPT !.pc = "cache", !.gen = h, !.target = c]
<1>2. /\ n \in Load /\ n.pc = "cache" /\ n.gen = h /\ n.target = c
      /\ n.snap = None /\ n.list = <<>> /\ n.shown = FALSE
  BY DoneFacts DEF Load
<1>3. QED BY <1>1, <1>2

LEMMA RetryIInv ==
    ASSUME IInv, NEW p \in Loads, retry(p)
    PROVE  IInv'
<1>1. /\ TypeOK /\ gen \in Nat /\ bootGen \in Nat /\ selected = None /\ snapshot = None
  BY DEF IInv, TypeOK, retry, ScreenInv, ShownIsSelected
<1>2. /\ UNCHANGED <<clusters, selected, snapshot, isRefreshing, disposed, cache, now>>
      /\ gen' = gen + 1 /\ bootGen' = bootGen + 1 /\ chosen' = None
      /\ loadError' = FALSE /\ staleError' = FALSE /\ isLoading' = TRUE
      /\ Resume(p, Booting(gen + 1, bootGen + 1))
  BY DEF retry
<1> DEFINE N == Booting(gen + 1, bootGen + 1)
<1>3. /\ N \in Load /\ N.pc = "profiles" /\ N.gen = gen + 1
      /\ N.snap = None /\ N.list = <<>> /\ N.shown = FALSE
  BY <1>1, BootingFacts
<1> HIDE DEF N
<1>4. PICK n \in Load : n = N
  BY <1>3
<1>5. Resume(p, n)
  BY <1>2, <1>4 DEF N
<1>6. Sound(n)' /\ Current(n)'
  BY <1>1, <1>2, <1>3, <1>4 DEF Sound, Current, Awaits
<1>7. Owner(n)'
  BY <1>1, <1>2, <1>3, <1>4 DEF Owner, Boots
<1>8. \A q \in Loads : q # p => ~(loads[q].gen = gen' /\ Awaits(loads[q]))
  BY <1>2, NextGeneration
<1>9. ShownIsSelected' /\ SelectedIsListed' /\ SwitchWins' /\ StaleIsFlagged'
  BY <1>1, <1>2 DEF ShownIsSelected, SelectedIsListed, SwitchWins, StaleIsFlagged
<1>10. /\ gen' \in Nat /\ gen <= gen' /\ bootGen' \in Nat
       /\ clusters' \in Seq(Profile) /\ isRefreshing' \in BOOLEAN
       /\ selected' = None /\ snapshot' = None
  BY <1>1, <1>2 DEF TypeOK
<1>11. QED
  BY <1>2, <1>5, <1>6, <1>7, <1>8, <1>9, <1>10, Alone

\* The next cluster of the list.
LEMMA NextClusterFacts ==
    ASSUME IInv, Len(clusters) >= 2, selected # None
    PROVE  /\ NextCluster \in Profile /\ NextCluster # None
           /\ \E i \in 1..Len(clusters) : clusters[i] = NextCluster
<1>1. clusters \in Seq(Profile) /\ Holds(clusters, selected.id)
  BY DEF IInv, TypeOK, ScreenInv, SelectedIsListed, Holds
<1>2. IndexOf(clusters, selected.id) \in 1..Len(clusters)
  BY <1>1, FirstFacts
<1> DEFINE i == IndexOf(clusters, selected.id)
           n == Len(clusters)
<1>3. i \in Nat /\ n \in Nat /\ n > 0
  BY <1>1, <1>2
<1> HIDE DEF i, n
<1>4. (i % n) + 1 \in 1..n
  BY <1>3
<1>5. clusters[(i % n) + 1] \in Profile
  BY <1>1, <1>4 DEF n
<1>6. NextCluster = clusters[(i % n) + 1]
  BY DEF NextCluster, i, n
<1>7. QED BY <1>4, <1>5, <1>6, NoneAssumption DEF n

LEMMA CycleClusterIInv ==
    ASSUME IInv, NEW p \in Loads, cycleCluster(p)
    PROVE  IInv'
<1>1. /\ TypeOK /\ gen \in Nat /\ bootGen \in Nat
  BY DEF IInv, TypeOK
<1>2. /\ UNCHANGED <<bootGen, clusters, isRefreshing, disposed, cache, now>>
      /\ gen' = gen + 1 /\ snapshot' = None
      /\ loadError' = FALSE /\ staleError' = FALSE /\ isLoading' = TRUE
      /\ Len(clusters) >= 2 /\ selected # None
  BY DEF cycleCluster
<1>3. PICK c : c = NextCluster
  OBVIOUS
<1>4. c \in Profile /\ c # None /\ \E i \in 1..Len(clusters) : clusters[i] = c
  BY <1>2, <1>3, NextClusterFacts
<1>5. selected' = c /\ chosen' = c.id /\ c.id \in Clusters
  BY <1>3, <1>4 DEF cycleCluster, Profile
<1> DEFINE N == [Done EXCEPT !.pc = "cache", !.gen = gen + 1, !.target = c]
<1>6. Resume(p, N)
  BY <1>3 DEF cycleCluster
<1>7. /\ N \in Load /\ N.pc = "cache" /\ N.gen = gen + 1 /\ N.target = c
      /\ N.snap = None /\ N.list = <<>> /\ N.shown = FALSE
  BY <1>1, <1>4, SwitchingFacts
<1> HIDE DEF N
<1>8. PICK n \in Load : n = N
  BY <1>7
<1>9. Resume(p, n) /\ Sound(n)' /\ Current(n)'
  BY <1>1, <1>2, <1>4, <1>6, <1>7, <1>8 DEF Sound, Current, Awaits
<1>10. Owner(n)'
  BY <1>2, <1>4, <1>5, <1>7, <1>8 DEF Owner, Boots
<1>11. \A q \in Loads : q # p => ~(loads[q].gen = gen' /\ Awaits(loads[q]))
  BY <1>2, NextGeneration
<1>12. ShownIsSelected' /\ SelectedIsListed' /\ SwitchWins' /\ StaleIsFlagged'
  BY <1>2, <1>4, <1>5 DEF ShownIsSelected, SelectedIsListed, SwitchWins, StaleIsFlagged
<1>13. /\ gen' \in Nat /\ gen <= gen' /\ bootGen' \in Nat
       /\ clusters' \in Seq(Profile) /\ isRefreshing' \in BOOLEAN
  BY <1>1, <1>2 DEF TypeOK
<1>14. QED
  BY <1>2, <1>4, <1>5, <1>9, <1>10, <1>11, <1>12, <1>13, Alone

\* A refresh is stale exactly if it is not current: while it is, the selected
\* cluster is the one it was started for.
LEMMA StaleIsSuperseded ==
    ASSUME IInv, NEW p \in Loads, loads[p].pc = "refresh"
    PROVE  isStale(loads[p]) <=> disposed \/ ~Current(loads[p])
<1>1. Current(loads[p]) <=> loads[p].gen = gen
  BY DEF Current, Awaits
<1>2. loads[p].list = <<>> /\ (Current(loads[p]) => Owner(loads[p]))
  BY InFlight DEF Sound
<1>3. Current(loads[p]) => selected # None /\ selected.id = loads[p].target.id
  BY <1>2 DEF Owner, Boots
<1>4. QED BY <1>1, <1>3 DEF isStale, isCurrent

LEMMA RefreshFailedIInv ==
    ASSUME IInv, NEW p \in Loads, RefreshFailed(p)
    PROVE  IInv'
<1>1. /\ UNCHANGED <<gen, bootGen, clusters, selected, snapshot, loadError, staleError, isLoading,
                     disposed, cache, now, chosen>>
      /\ loads[p].pc = "refresh" /\ Finish(p)
      /\ isRefreshing' = (isRefreshing /\ isStale(loads[p]))
      /\ isRefreshing \in BOOLEAN
  BY DEF RefreshFailed, IInv, TypeOK
<1>2. CASE isStale(loads[p])
  <2>1. UNCHANGED screen
    BY <1>1, <1>2 DEF screen
  <2>2. QED BY <1>1, <1>2, <2>1, StaleIsSuperseded, Drops
<1>3. CASE ~isStale(loads[p])
  <2>1. Current(loads[p]) /\ isRefreshing' = FALSE
    BY <1>1, <1>3, StaleIsSuperseded
  <2>2. isLoading = FALSE /\ (<<>> \notin Lists => CachedIsFlagged)
    BY <1>1, <2>1, InFlight DEF Owner, TypeOK
  <2>3. /\ loadError' \in BOOLEAN /\ staleError' \in BOOLEAN /\ isLoading' = FALSE
        /\ clusters' \in Seq(Profile) /\ selected' \in Profile \cup {None}
    BY <1>1, <2>2 DEF IInv, TypeOK
  <2>4. ShownIsSelected' /\ SelectedIsListed' /\ SwitchWins'
    BY <1>1 DEF IInv, ScreenInv, ShownIsSelected, SelectedIsListed, SwitchWins
  <2>5. <<>> \notin Lists => CachedIsFlagged'
    BY <1>1, <2>2 DEF CachedIsFlagged
  <2>6. QED BY <1>1, <2>1, <2>3, <2>4, <2>5, Ends
<1>4. QED BY <1>2, <1>3

LEMMA RefreshedIInv ==
    ASSUME IInv, NEW p \in Loads, NEW snap, snap = Answer(loads[p]),
           Refreshed(p, snap)
    PROVE  IInv'
<1> DEFINE l == loads[p]
<1>1. /\ TypeOK /\ l \in Load /\ Sound(l) /\ l.pc = "refresh" /\ gen \in Nat /\ bootGen \in Nat
      /\ (Current(l) => Owner(l)) /\ now \in Nat
  BY InFlight DEF Refreshed, TypeOK
<1>2. UNCHANGED <<gen, bootGen, clusters, selected, isLoading, disposed, cache, now, chosen>>
  BY DEF Refreshed
<1>3. /\ snap \in Snapshot /\ snap.cluster = l.target.id /\ snap.live
      /\ snap.asked <= now /\ snap # None
  BY <1>1, AnswerFacts
<1>4. CASE isStale(l)
  <2>1. Finish(p) /\ UNCHANGED screen
    BY <1>2, <1>4 DEF Refreshed, screen
  <2>2. QED BY <1>1, <1>2, <1>4, <2>1, StaleIsSuperseded, Drops
<1>5. CASE ~isStale(l)
  <2>1. /\ snapshot' = snap /\ loadError' = FALSE /\ staleError' = FALSE /\ isRefreshing' = FALSE
        /\ Resume(p, [l EXCEPT !.pc = "saveSnapshot", !.snap = snap])
    BY <1>5 DEF Refreshed
  <2>2. Current(l) /\ Owner(l)
    BY <1>1, <1>5, StaleIsSuperseded
  <2>3. selected # None /\ selected.id = l.target.id /\ isLoading = FALSE
    BY <1>1, <2>2 DEF Owner, Boots, Sound, TypeOK
  <2>4. \A q \in Loads : q # p => ~(loads[q].gen = gen' /\ Awaits(loads[q]))
    BY <1>2, <2>2, OnlyOne
  <2> HIDE DEF l
  <2> DEFINE N == [l EXCEPT !.pc = "saveSnapshot", !.snap = snap]
  <2>5. N \in Load /\ N.pc = "saveSnapshot" /\ N.gen = l.gen /\ N.snap = snap
    BY <1>1, <1>3 DEF Load
  <2> HIDE DEF N
  <2>6. PICK n \in Load : n = N
    BY <2>5
  <2>7. Resume(p, n)
    BY <2>1, <2>6 DEF N
  <2>8. Sound(n)' /\ ~Current(n)'
    BY <1>1, <1>2, <1>3, <2>5, <2>6 DEF Sound, Current, Awaits
  <2>9. ShownIsSelected' /\ SelectedIsListed' /\ SwitchWins' /\ StaleIsFlagged'
    BY <1>2, <1>3, <2>1, <2>3 DEF IInv, ScreenInv, ShownIsSelected, SelectedIsListed, SwitchWins,
          StaleIsFlagged
  <2>10. /\ gen' \in Nat /\ gen <= gen' /\ bootGen' \in Nat /\ chosen' \in Clusters \cup {None}
         /\ clusters' \in Seq(Profile) /\ selected' \in Profile \cup {None}
         /\ isLoading' = FALSE
    BY <1>1, <1>2, <2>3 DEF TypeOK
  <2>11. QED
    BY <1>2, <1>3, <2>1, <2>4, <2>7, <2>8, <2>9, <2>10, Alone
<1>6. QED BY <1>4, <1>5

\* The end of the shell, and a tick, leave the loads alone.
LEMMA DisposeIInv ==
    ASSUME IInv, dispose
    PROVE  IInv'
<1>1. /\ UNCHANGED <<gen, bootGen, clusters, selected, snapshot, loadError, staleError, isLoading,
                     isRefreshing, cachedList, cachedSnap, loads, now, chosen>>
      /\ disposed' = TRUE
  BY DEF dispose, screen, cache
<1>2. TypeOK' /\ CacheInv'
  BY <1>1 DEF IInv, TypeOK, CacheInv
<1>3. LoadsInv'
  BY <1>1 DEF IInv, LoadsInv, Sound, Current, Awaits, Owner, Boots, CachedIsFlagged
<1>4. ScreenInv'
  BY <1>1 DEF IInv, ScreenInv, ShownIsSelected, SelectedIsListed, SwitchWins, BusyHasOwner,
        StaleIsFlagged
<1>5. QED BY <1>2, <1>3, <1>4 DEF IInv

LEMMA TickIInv ==
    ASSUME IInv, Tick
    PROVE  IInv'
<1>1. /\ UNCHANGED <<gen, bootGen, clusters, selected, snapshot, loadError, staleError, isLoading,
                     isRefreshing, disposed, cachedList, cachedSnap, loads, chosen>>
      /\ now' = now + 1 /\ now \in Nat /\ TypeOK
  BY DEF Tick, screen, cache, IInv, TypeOK
<1>2. \A n \in Nat : n <= now => n <= now'
  BY <1>1
<1>3. TypeOK'
  BY <1>1 DEF TypeOK
<1>4. CacheInv'
  <2>1. \A c \in Clusters : cachedSnap[c] # None => cachedSnap[c].asked \in Nat
    BY <1>1 DEF TypeOK, Snapshot
  <2>2. QED BY <1>1, <1>2, <2>1 DEF IInv, CacheInv
<1>5. LoadsInv'
  <2>1. ASSUME NEW p \in Loads
        PROVE  Sound(loads[p])' /\ (Current(loads[p])' => Owner(loads[p])')
    <3>1. PICK l \in Load : l = loads[p] /\ l = loads'[p]
      BY <1>1, InFlight
    <3>2. Sound(l) /\ (Current(l) => Owner(l))
      BY <3>1, InFlight
    <3>3. l.asked \in Nat /\ (l.snap # None => l.snap.asked \in Nat)
      BY DEF Load, Snapshot
    <3>4. Sound(l)'
      BY <1>1, <1>2, <3>2, <3>3 DEF Sound
    <3>5. Current(l)' => Owner(l)'
      BY <1>1, <3>2 DEF Current, Owner, CachedIsFlagged
    <3>6. QED
      BY <3>1, <3>4, <3>5 DEF Sound, Current, Awaits, Owner, Boots, CachedIsFlagged
  <2>2. \A p, q \in Loads : Current(loads[p])' /\ Current(loads[q])' => p = q
    BY <1>1 DEF IInv, LoadsInv, Current, Awaits
  <2>3. QED BY <2>1, <2>2 DEF LoadsInv
<1>6. ScreenInv'
  <2>1. snapshot' # None => snapshot'.asked <= now'
    <3>1. snapshot # None => snapshot.asked \in Nat
      BY <1>1 DEF TypeOK, Snapshot
    <3>2. QED BY <1>1, <1>2, <3>1 DEF IInv, ScreenInv
  <2>2. QED
    BY <1>1, <2>1 DEF IInv, ScreenInv, ShownIsSelected, SelectedIsListed, SwitchWins,
          BusyHasOwner, StaleIsFlagged
<1>7. QED BY <1>3, <1>4, <1>5, <1>6 DEF IInv

LEMMA InitIInv ==
    ASSUME Init
    PROVE  IInv
<1>1. /\ gen = 1 /\ bootGen = 1 /\ now = 0
      /\ clusters = <<>> /\ selected = None /\ snapshot = None
      /\ loadError = FALSE /\ staleError = FALSE
      /\ isLoading = TRUE /\ isRefreshing = FALSE /\ disposed = FALSE
      /\ cachedList \in Lists \cup {<<>>} /\ chosen = None
  BY DEF Init
<1>2. PICK old \in SUBSET Clusters :
         cachedSnap = [c \in Clusters |-> IF c \in old
                                          THEN [cluster |-> c, asked |-> 0, live |-> FALSE]
                                          ELSE None]
  BY DEF Init
<1>3. PICK p \in Loads : loads = [l \in Loads |-> IF l = p THEN Booting(1, 1) ELSE Done]
  BY DEF Init
<1>4. /\ Booting(1, 1) \in Load /\ Booting(1, 1).pc = "profiles" /\ Booting(1, 1).gen = 1
      /\ Booting(1, 1).snap = None /\ Booting(1, 1).list = <<>> /\ Booting(1, 1).shown = FALSE
  BY DoneFacts DEF Load, Booting
<1>5. PICK b, d \in Load : b = Booting(1, 1) /\ d = Done
  BY <1>4, DoneFacts
<1>6. loads = [l \in Loads |-> IF l = p THEN b ELSE d]
  BY <1>3, <1>5
<1>7. cachedSnap \in [Clusters -> Snapshot \cup {None}]
  BY <1>2 DEF Snapshot
<1>8. cachedList \in Seq(Clusters) /\ clusters \in Seq(Profile)
  <2>1. <<>> \in Seq(Clusters) /\ <<>> \in Seq(Profile)
    OBVIOUS
  <2>2. CASE cachedList \in Lists
    BY <1>1, <2>1, <2>2, SessionAssumption
  <2>3. CASE cachedList = <<>>
    BY <1>1, <2>1, <2>3
  <2>4. QED BY <1>1, <2>2, <2>3
<1>9. TypeOK
  <2>1. gen \in Nat /\ bootGen \in Nat /\ now \in Nat /\ loads \in [Loads -> Load]
    BY <1>1, <1>6
  <2>2. QED BY <1>1, <1>7, <1>8, <2>1 DEF TypeOK
<1>10. CacheInv
  BY <1>1, <1>2 DEF CacheInv
<1>11. Sound(b) /\ Owner(b) /\ Current(b)
  BY <1>1, <1>4, <1>5 DEF Sound, Owner, Boots, Current, Awaits
<1>12. Sound(d) /\ ~Current(d)
  BY <1>1, <1>5, DoneSound
<1>13. LoadsInv
  BY <1>6, <1>11, <1>12 DEF LoadsInv
<1>14. BusyHasOwner
  BY <1>6, <1>11 DEF BusyHasOwner, Current, Awaits
<1>15. ScreenInv
  BY <1>1, <1>14 DEF ScreenInv, ShownIsSelected, SelectedIsListed, SwitchWins, StaleIsFlagged
<1>16. QED BY <1>9, <1>10, <1>13, <1>15 DEF IInv

-----------------------------------------------------------------------------
(* Theorems. *)

LEMMA NextIInv ==
    ASSUME IInv, Next
    PROVE  IInv'
<1>1. CASE \E p \in Loads : Resumed(p)
  <2>1. PICK p \in Loads : Resumed(p)
    BY <1>1
  <2>2. CASE ProfilesLoaded(p)
    BY <2>2, ProfilesLoadedIInv
  <2>3. CASE CacheHit(p)
    BY <2>3, CacheHitIInv
  <2>4. CASE CacheMiss(p)
    BY <2>4, CacheMissIInv
  <2>5. CASE ListFailed(p)
    BY <2>5, ListFailedIInv
  <2>6. CASE \E ids \in Lists : ListLoaded(p, ids)
    BY <2>6, ListLoadedIInv
  <2>7. CASE ActivateFailed(p)
    BY <2>7, ActivateFailedIInv
  <2>8. CASE RefreshFailed(p)
    BY <2>8, RefreshFailedIInv
  <2>9. CASE Activated(p, Answer(loads[p])) \/ Refreshed(p, Answer(loads[p]))
    BY <2>9, ActivatedIInv, RefreshedIInv
  <2>10. CASE SaveList(p)
    BY <2>10, SaveListIInv
  <2>11. CASE SaveSnapshot(p)
    BY <2>11, SaveSnapshotIInv
  <2>12. QED
    BY <2>1, <2>2, <2>3, <2>4, <2>5, <2>6, <2>7, <2>8, <2>9, <2>10, <2>11 DEF Resumed
<1>2. CASE \E p \in Loads : Called(p)
  BY <1>2, RefreshIInv, RetryIInv, CycleClusterIInv DEF Called
<1>3. CASE dispose
  BY <1>3, DisposeIInv
<1>4. CASE Tick
  BY <1>4, TickIInv
<1>5. QED BY <1>1, <1>2, <1>3, <1>4 DEF Next

LEMMA StutterIInv ==
    ASSUME IInv, UNCHANGED vars
    PROVE  IInv'
<1>1. UNCHANGED <<gen, bootGen, clusters, selected, snapshot, loadError, staleError, isLoading,
                  isRefreshing, disposed, cachedList, cachedSnap, loads, now, chosen>>
  BY DEF vars, screen, cache
<1>2. TypeOK' /\ CacheInv'
  BY <1>1 DEF IInv, TypeOK, CacheInv
<1>3. LoadsInv'
  BY <1>1 DEF IInv, LoadsInv, Sound, Current, Awaits, Owner, Boots, CachedIsFlagged
<1>4. ScreenInv'
  BY <1>1 DEF IInv, ScreenInv, ShownIsSelected, SelectedIsListed, SwitchWins, BusyHasOwner,
        StaleIsFlagged
<1>5. QED BY <1>2, <1>3, <1>4 DEF IInv

\* The inductive invariant: one load at most owns the screen, and what the screen
\* shows meanwhile.
THEOREM Invariance == Spec => []IInv
<1>1. Init => IInv
  BY InitIInv
<1>2. IInv /\ [Next]_vars => IInv'
  BY NextIInv, StutterIInv
<1>3. QED BY <1>1, <1>2, PTL DEF Spec

\* The controller's fields, the store and the loads keep their types.
THEOREM TypeCorrect == Spec => []TypeOK
<1>1. IInv => TypeOK
  BY DEF IInv
<1>2. QED BY <1>1, Invariance, PTL

\* No snapshot of one cluster is shown under another's name: every response is
\* checked against the generation, and a refresh against the selection as well.
THEOREM ShownIsSelectedHolds == Spec => []ShownIsSelected
<1>1. IInv => ShownIsSelected
  BY DEF IInv, ScreenInv
<1>2. QED BY <1>1, Invariance, PTL

\* The selected profile is an entry of the list on screen, whichever of cache,
\* live answer and adopted list it comes from.
THEOREM SelectedIsListedHolds == Spec => []SelectedIsListed
<1>1. IInv => SelectedIsListed
  BY DEF IInv, ScreenInv
<1>2. QED BY <1>1, Invariance, PTL

\* The cluster the user switched to stays selected, although the bootstrap that
\* the switch overtook goes on.
THEOREM SwitchWinsHolds == Spec => []SwitchWins
<1>1. IInv => SwitchWins
  BY DEF IInv, ScreenInv
<1>2. QED BY <1>1, Invariance, PTL

\* A spinner or a refresh badge always has a load in flight that takes it down.
THEOREM BusyHasOwnerHolds == Spec => []BusyHasOwner
<1>1. IInv => BusyHasOwner
  BY DEF IInv, ScreenInv
<1>2. QED BY <1>1, Invariance, PTL

\* If the server never answers with an empty cluster list, a cached snapshot that
\* nobody is refreshing is flagged as stale.  With an empty list it is not.
THEOREM StaleIsFlaggedHolds ==
    ASSUME <<>> \notin Lists
    PROVE  Spec => []StaleIsFlagged
<1>1. IInv => StaleIsFlagged
  BY DEF IInv, ScreenInv
<1>2. QED BY <1>1, Invariance, PTL

-----------------------------------------------------------------------------
(* No answer overtakes a later one. *)

\* A step that does not put an earlier answer, or the cache's, in the place of what
\* is on screen.
Forward == snapshot # None /\ snapshot' # None
              => snapshot'.asked >= snapshot.asked /\ (snapshot.live => snapshot'.live)

\* A current load shows what it fetched.
LEMMA FetchedIsLater ==
    ASSUME IInv, NEW p \in Loads, Current(loads[p]), loads[p].pc \in {"snapshot", "refresh"},
           NEW snap, snap = Answer(loads[p]), snapshot' = snap
    PROVE  Forward
<1>1. snap.asked \in Nat /\ loads[p].asked = snap.asked /\ snap.live
  BY InFlight, AnswerFacts
<1>2. snapshot # None => snapshot.asked \in Nat /\ snapshot.asked <= loads[p].asked
  BY InFlight DEF TypeOK, Snapshot, Owner
<1>3. QED BY <1>1, <1>2 DEF Forward

LEMMA NextForward ==
    ASSUME IInv, Next
    PROVE  Forward
<1>1. CASE snapshot' = snapshot
  <2>1. snapshot # None => snapshot.asked \in Nat
    BY DEF IInv, TypeOK, Snapshot
  <2>2. QED BY <1>1, <2>1 DEF Forward
<1>2. ASSUME NEW p \in Loads, CacheHit(p) PROVE Forward
  <2>1. Current(loads[p]) /\ Sound(loads[p]) /\ loads[p].pc = "cache"
    BY <1>2, InFlight DEF CacheHit, isCurrent, Current, Awaits
  <2>2. snapshot = None
    BY <2>1, InFlight DEF Sound, Owner
  <2>3. QED BY <2>2 DEF Forward
<1>3. ASSUME NEW p \in Loads, NEW snap, snap = Answer(loads[p]),
             Activated(p, snap)
      PROVE  Forward
  <2>1. CASE isCurrent(loads[p].gen)
    <3>1. Current(loads[p]) /\ loads[p].pc = "snapshot" /\ snapshot' = snap
      BY <1>3, <2>1 DEF Activated, Show, isCurrent, Current, Awaits
    <3>2. QED BY <1>3, <3>1, FetchedIsLater
  <2>2. CASE ~isCurrent(loads[p].gen)
    BY <1>1, <1>3, <2>2 DEF Activated, screen
  <2>3. QED BY <2>1, <2>2
<1>4. ASSUME NEW p \in Loads, NEW snap, snap = Answer(loads[p]),
             Refreshed(p, snap)
      PROVE  Forward
  <2>1. CASE isStale(loads[p])
    BY <1>1, <1>4, <2>1 DEF Refreshed
  <2>2. CASE ~isStale(loads[p])
    <3>1. Current(loads[p]) /\ loads[p].pc = "refresh" /\ snapshot' = snap
      BY <1>4, <2>2, StaleIsSuperseded DEF Refreshed
    <3>2. QED BY <1>4, <3>1, FetchedIsLater
  <2>3. QED BY <2>1, <2>2
<1>5. ASSUME NEW p \in Loads, cycleCluster(p) PROVE Forward
  BY <1>5 DEF cycleCluster, Forward
<1>6. ASSUME NEW p \in Loads, Resumed(p) PROVE Forward
  <2>1. CASE ProfilesLoaded(p) \/ CacheMiss(p) \/ ListFailed(p) \/ ActivateFailed(p)
             \/ RefreshFailed(p) \/ SaveList(p) \/ SaveSnapshot(p)
    BY <1>1, <2>1 DEF ProfilesLoaded, CacheMiss, ListFailed, ActivateFailed, RefreshFailed,
          SaveList, SaveSnapshot, screen
  <2>2. CASE \E ids \in Lists : ListLoaded(p, ids)
    BY <1>1, <2>2 DEF ListLoaded
  <2>3. CASE CacheHit(p)
    BY <1>2, <2>3
  <2>4. CASE Activated(p, Answer(loads[p])) \/ Refreshed(p, Answer(loads[p]))
    BY <1>3, <1>4, <2>4
  <2>5. QED BY <1>6, <2>1, <2>2, <2>3, <2>4 DEF Resumed
<1>7. ASSUME NEW p \in Loads, Called(p) PROVE Forward
  <2>1. CASE Refresh(p) \/ retry(p)
    BY <1>1, <2>1 DEF Refresh, retry
  <2>2. CASE cycleCluster(p)
    BY <1>5, <2>2
  <2>3. QED BY <1>7, <2>1, <2>2 DEF Called
<1>8. CASE dispose \/ Tick
  BY <1>1, <1>8 DEF dispose, Tick, screen
<1>9. QED BY <1>6, <1>7, <1>8 DEF Next

\* The answer to an earlier request never replaces that to a later one, nor the
\* cache's snapshot a live one: the one load that may write to the screen sent its
\* request after what is on screen was asked for.
THEOREM NeverOvertakenHolds == Spec => NeverOvertaken
<1>1. IInv /\ [Next]_vars
        => [snapshot # None /\ snapshot' # None /\ snapshot'.cluster = snapshot.cluster
              => /\ snapshot'.asked >= snapshot.asked
                 /\ snapshot.live => snapshot'.live]_vars
  BY NextForward DEF Forward
<1>2. QED BY <1>1, Invariance, PTL DEF Spec, NeverOvertaken

=============================================================================
