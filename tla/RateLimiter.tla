---------------------------- MODULE RateLimiter ----------------------------
(***************************************************************************)
(* The gateway's token-bucket limiter.  Allow runs under the limiter's     *)
(* mutex, so a call is one action; time.Now is monotonic here (the limiter *)
(* subtracts readings that carry the monotonic clock).  Tokens are counted *)
(* in integer units, Cost of them to a token, instead of float64: rounding *)
(* is not modelled.  A nil limiter (rps or burst not positive) allows      *)
(* everything and has no state.                                            *)
(***************************************************************************)
EXTENDS Integers, FiniteSets

CONSTANTS
    Keys,           \* identities, and "unauth:" peers
    Cost,           \* units in one token
    Rate,           \* units refilled per tick: rate
    Capacity,       \* units in a full bucket: capacity
    EvictAfter,     \* evictAfter, in ticks
    MaxBuckets,     \* maxBuckets
    MaxTime,        \* bound on the clock
    NoBucket

ASSUME LimiterAssumption ==
    /\ IsFiniteSet(Keys)
    /\ Cost \in Nat \ {0} /\ Rate \in Nat \ {0} /\ Capacity \in Nat \ {0}
    /\ EvictAfter \in Nat /\ MaxBuckets \in Nat \ {0} /\ MaxTime \in Nat

VARIABLES
    clock,      \* r.now()
    buckets,    \* r.buckets
    lastEvict,  \* r.lastEvict
    (* History. *)
    allowance,  \* an ideal bucket per key: never forgotten, except by the cap
    grantedAt,  \* when a request of the key was last allowed
    answer      \* the last call: its outcome, and how long since the key's last grant

vars == <<clock, buckets, lastEvict, allowance, grantedAt, answer>>

Bucket == [tokens : 0..Capacity, lastSeen : Nat]

ASSUME NoBucketAssumption == NoBucket \notin Bucket

Answer == [allowed : BOOLEAN, wait : Nat]

TypeOK ==
    /\ clock \in Nat
    /\ buckets \in [Keys -> Bucket \cup {NoBucket}]
    /\ lastEvict \in Int
    /\ allowance \in [Keys -> Int]
    /\ grantedAt \in [Keys -> Int]
    /\ answer \in Answer

\* The zero lastEvict is long ago.
Init ==
    /\ clock = 0
    /\ buckets = [k \in Keys |-> NoBucket]
    /\ lastEvict = -EvictAfter
    /\ allowance = [k \in Keys |-> Capacity]
    /\ grantedAt = [k \in Keys |-> -Cost]
    /\ answer = [allowed |-> TRUE, wait |-> 0]

-----------------------------------------------------------------------------
Live(bs) == {k \in Keys : bs[k] # NoBucket}

Stale_Early(b) == b.lastSeen < clock
Stale(b) == b.lastSeen < clock - EvictAfter

\* The age pass of maybeEvict and forceEvict.
Aged(bs) == [k \in Keys |-> IF bs[k] # NoBucket /\ Stale(bs[k]) THEN NoBucket ELSE bs[k]]

\* Ties go by map order: any.
Oldest(bs) == {k \in Live(bs) : \A i \in Live(bs) : bs[k].lastSeen <= bs[i].lastSeen}

forceEvict_AgeOnly(bs) == {Aged(bs)}
\* What forceEvict can leave.
forceEvict(bs) ==
    IF Cardinality(Live(Aged(bs))) < MaxBuckets
    THEN {Aged(bs)}
    ELSE {[Aged(bs) EXCEPT ![k] = NoBucket] : k \in Oldest(Aged(bs))}

Full(k) == buckets[k] = NoBucket /\ Cardinality(Live(buckets)) >= MaxBuckets

\* The bucket map when Allow has made room for k.
Room(k) == IF Full(k) THEN forceEvict(buckets) ELSE {buckets}

AtMost(n, cap) == IF n > cap THEN cap ELSE n

refill_Uncapped(b) == b.tokens + (clock - b.lastSeen) * Rate
refill_Whole(b) == AtMost(b.tokens + Cost * (((clock - b.lastSeen) * Rate) \div Cost), Capacity)
refill(b) == AtMost(b.tokens + (clock - b.lastSeen) * Rate, Capacity)

BucketOf(bs, k) == IF bs[k] = NoBucket THEN [tokens |-> Capacity, lastSeen |-> clock] ELSE bs[k]

\* maybeEvict, after k's bucket is up to date (so k itself stays).
EvictionDue(last) == clock - last >= EvictAfter
maybeEvict(bs, last) == IF EvictionDue(last) THEN Aged(bs) ELSE bs

Allow(k) ==
    \E room \in Room(k) :
        LET last   == IF Full(k) THEN clock ELSE lastEvict
            tokens == refill(BucketOf(room, k))
            ok     == tokens >= Cost
            bucket == [tokens |-> IF ok THEN tokens - Cost ELSE tokens, lastSeen |-> clock] IN
        /\ buckets' = maybeEvict([room EXCEPT ![k] = bucket], last)
        /\ lastEvict' = IF EvictionDue(last) THEN clock ELSE last
        /\ grantedAt' = [grantedAt EXCEPT ![k] = IF ok THEN clock ELSE @]
        /\ allowance' = [i \in Keys |->
              IF i = k THEN (IF ok THEN allowance[k] - Cost ELSE allowance[k])
              ELSE IF Aged(buckets)[i] # NoBucket /\ room[i] = NoBucket THEN Capacity
              ELSE allowance[i]]
        /\ answer' = [allowed |-> ok, wait |-> clock - grantedAt[k]]
        /\ UNCHANGED clock

Tick ==
    /\ clock < MaxTime
    /\ clock' = clock + 1
    /\ allowance' = [k \in Keys |-> AtMost(allowance[k] + Rate, Capacity)]
    /\ UNCHANGED <<buckets, lastEvict, grantedAt, answer>>

Next == Tick \/ \E k \in Keys : Allow(k)

Spec == Init /\ [][Next]_vars

-----------------------------------------------------------------------------
(* Properties. *)

\* The bucket map never outgrows its cap, whatever keys arrive in which order.
BoundedMemory == Cardinality(Live(buckets)) <= MaxBuckets

\* No key overdraws an ideal bucket that is never forgotten, so in every window
\* it gets at most a burst plus its rate: the age pass forgets nothing that is not
\* refilled anyway (where Capacity <= Rate * EvictAfter).  Only the cap, which
\* throws out a live bucket, gives a key a fresh burst.
QuotaHolds == \A k \in Keys : allowance[k] >= 0

\* A client is never refused once its last grant is a token's refill time ago,
\* however often it, or anybody else, asked meanwhile (where Capacity >= Cost).
PatientClientServed == answer.allowed \/ answer.wait * Rate < Cost
=============================================================================
