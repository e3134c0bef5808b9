------------------------- MODULE RateLimiterProofs -------------------------
(***************************************************************************)
(* Proofs about RateLimiter for every finite set of keys, every rate,      *)
(* capacity, cost, eviction age and cap.  The inductive invariant relates  *)
(* each bucket to the key's ideal bucket (LevelMatches) and to the time    *)
(* since the key's last grant (KeyInv).                                    *)
(***************************************************************************)
EXTENDS RateLimiter, FiniteSetTheorems, TLAPS

\* A bucket holds what has accrued since the key's last grant.
KeyInv(k) ==
    /\ grantedAt[k] <= clock
    /\ buckets[k] # NoBucket =>
          /\ buckets[k].lastSeen <= clock
          /\ grantedAt[k] <= buckets[k].lastSeen
          /\ buckets[k].tokens >= AtMost((buckets[k].lastSeen - grantedAt[k]) * Rate, Capacity)

IInv == TypeOK /\ \A k \in Keys : KeyInv(k)

\* What the next request of k would find in its bucket.
Level(k) == IF buckets[k] = NoBucket THEN Capacity ELSE refill(buckets[k])

LevelMatches == \A k \in Keys : allowance[k] = Level(k)

-----------------------------------------------------------------------------
(* Arithmetic. *)

\* Refilling in two steps is refilling in one.
LEMMA Distribute ==
    ASSUME NEW a \in Int, NEW b \in Int, NEW c \in Int
    PROVE  (a - c) * Rate = (a - b) * Rate + (b - c) * Rate
BY LimiterAssumption

\* Waiting longer refills at least as much.
LEMMA Longer ==
    ASSUME NEW a \in Int, NEW b \in Int, a >= b
    PROVE  a * Rate >= b * Rate
BY LimiterAssumption

\* A refill stays within the bucket.
LEMMA RefillType ==
    ASSUME NEW b \in Bucket, clock \in Nat, b.lastSeen <= clock
    PROVE  refill(b) \in 0..Capacity
<1>1. b.tokens \in 0..Capacity /\ b.lastSeen \in Nat
  BY DEF Bucket
<1>2. (clock - b.lastSeen) * Rate \in Nat
  BY <1>1, LimiterAssumption
<1>3. QED BY <1>1, <1>2, LimiterAssumption DEF refill, AtMost

-----------------------------------------------------------------------------
(* What Allow(k) makes of the other keys' buckets. *)

\* The age pass keeps a bucket or drops a stale one.
LEMMA AgedKeeps ==
    ASSUME NEW bs \in [Keys -> Bucket \cup {NoBucket}]
    PROVE  /\ Aged(bs) \in [Keys -> Bucket \cup {NoBucket}]
           /\ \A i \in Keys : \/ Aged(bs)[i] = bs[i]
                              \/ Aged(bs)[i] = NoBucket /\ bs[i] # NoBucket /\ Stale(bs[i])
BY DEF Aged

\* Making room for k touches no bucket unless it was stale, or live and dropped
\* by the cap; k's own bucket it never touches.
LEMMA RoomKeeps ==
    ASSUME TypeOK, NEW k \in Keys, NEW room \in Room(k)
    PROVE  /\ room \in [Keys -> Bucket \cup {NoBucket}]
           /\ room[k] = buckets[k]
           /\ \A i \in Keys : \/ room[i] = buckets[i]
                              \/ /\ room[i] = NoBucket /\ buckets[i] # NoBucket
                                 /\ Stale(buckets[i]) \/ Aged(buckets)[i] # NoBucket
<1>0. buckets \in [Keys -> Bucket \cup {NoBucket}]
  BY DEF TypeOK
<1>1. CASE ~Full(k)
  BY <1>0, <1>1 DEF Room
<1>2. CASE Full(k)
  <2>1. room \in forceEvict(buckets) /\ buckets[k] = NoBucket
    BY <1>2 DEF Room, Full
  <2>2. /\ Aged(buckets) \in [Keys -> Bucket \cup {NoBucket}]
        /\ \A i \in Keys : \/ Aged(buckets)[i] = buckets[i]
                           \/ /\ Aged(buckets)[i] = NoBucket /\ buckets[i] # NoBucket
                              /\ Stale(buckets[i])
    BY <1>0, AgedKeeps
  <2>3. CASE room = Aged(buckets)
    BY <2>1, <2>2, <2>3
  <2>4. CASE room # Aged(buckets)
    <3>1. PICK o \in Oldest(Aged(buckets)) : room = [Aged(buckets) EXCEPT ![o] = NoBucket]
      BY <2>1, <2>4 DEF forceEvict
    <3>2. o \in Keys /\ Aged(buckets)[o] # NoBucket
      BY <3>1 DEF Oldest, Live
    <3>3. room \in [Keys -> Bucket \cup {NoBucket}]
      BY <2>2, <3>1, <3>2
    <3>4. ASSUME NEW i \in Keys
          PROVE \/ room[i] = buckets[i]
                \/ /\ room[i] = NoBucket /\ buckets[i] # NoBucket
                   /\ Stale(buckets[i]) \/ Aged(buckets)[i] # NoBucket
      <4>1. CASE i = o
        BY <2>2, <3>1, <3>2, <4>1
      <4>2. CASE i # o
        <5>1. room[i] = Aged(buckets)[i]
          BY <2>2, <3>1, <3>2, <4>2
        <5>2. QED BY <5>1, <2>2
      <4>3. QED BY <4>1, <4>2
    <3>5. room[k] = NoBucket
      BY <2>1, <3>4
    <3>6. QED BY <2>1, <3>3, <3>4, <3>5
  <2>5. QED BY <2>3, <2>4
<1>3. QED BY <1>1, <1>2

\* k's bucket when Allow has refilled it, and after it has paid.
Tokens(room, k) == refill(BucketOf(room, k))
Paid(room, k) == [tokens |-> IF Tokens(room, k) >= Cost THEN Tokens(room, k) - Cost
                             ELSE Tokens(room, k),
                  lastSeen |-> clock]

\* A fresh or refilled bucket holds at least what has accrued since the last
\* grant, and is within its capacity.
LEMMA TokensAccrue ==
    ASSUME IInv, NEW k \in Keys, NEW room \in Room(k)
    PROVE  /\ Tokens(room, k) \in 0..Capacity
           /\ Tokens(room, k) >= AtMost((clock - grantedAt[k]) * Rate, Capacity)
           /\ buckets[k] = NoBucket => Tokens(room, k) = Capacity
           /\ Paid(room, k) \in Bucket
<1>0. /\ clock \in Nat /\ grantedAt[k] \in Int /\ KeyInv(k)
      /\ buckets[k] \in Bucket \cup {NoBucket} /\ room[k] = buckets[k]
  BY RoomKeeps DEF IInv, TypeOK
<1>1. /\ Tokens(room, k) \in 0..Capacity
      /\ Tokens(room, k) >= AtMost((clock - grantedAt[k]) * Rate, Capacity)
      /\ buckets[k] = NoBucket => Tokens(room, k) = Capacity
  <2>1. CASE buckets[k] = NoBucket
    <3>1. Tokens(room, k) = refill([tokens |-> Capacity, lastSeen |-> clock])
      BY <1>0, <2>1 DEF Tokens, BucketOf
    <3>2. refill([tokens |-> Capacity, lastSeen |-> clock]) = Capacity
      BY <1>0, LimiterAssumption DEF refill, AtMost
    <3>3. (clock - grantedAt[k]) * Rate \in Int
      BY <1>0, LimiterAssumption
    <3>4. QED BY <3>1, <3>2, <3>3, LimiterAssumption DEF AtMost
  <2>2. CASE buckets[k] # NoBucket
    <3> DEFINE b == buckets[k]
    <3>1. b \in Bucket /\ b.tokens \in 0..Capacity /\ b.lastSeen \in Nat /\ b.lastSeen <= clock
      BY <1>0, <2>2 DEF Bucket, KeyInv
    <3>2. Tokens(room, k) = refill(b)
      BY <1>0, <2>2 DEF Tokens, BucketOf
    <3>3. refill(b) \in 0..Capacity
      BY <1>0, <3>1, RefillType
    <3>4. /\ (clock - b.lastSeen) * Rate \in Nat /\ (b.lastSeen - grantedAt[k]) * Rate \in Int
          /\ (clock - grantedAt[k]) * Rate
               = (clock - b.lastSeen) * Rate + (b.lastSeen - grantedAt[k]) * Rate
      BY <1>0, <3>1, LimiterAssumption, Distribute
    <3>5. b.tokens >= AtMost((b.lastSeen - grantedAt[k]) * Rate, Capacity)
      BY <1>0, <2>2 DEF KeyInv
    <3> DEFINE x == (clock - b.lastSeen) * Rate
               y == (b.lastSeen - grantedAt[k]) * Rate
               z == (clock - grantedAt[k]) * Rate
    <3>6. refill(b) = AtMost(b.tokens + x, Capacity)
      BY DEF refill
    <3>7. x \in Nat /\ y \in Int /\ z = x + y /\ b.tokens >= AtMost(y, Capacity)
      BY <3>4, <3>5
    <3> HIDE DEF x, y, z
    <3>8. refill(b) >= AtMost(z, Capacity)
      BY <3>1, <3>6, <3>7, LimiterAssumption DEF AtMost
    <3>9. QED BY <2>2, <3>2, <3>3, <3>8 DEF z
  <2>3. QED BY <2>1, <2>2
<1>2. Paid(room, k) \in Bucket
  BY <1>0, <1>1, LimiterAssumption DEF Paid, Bucket
<1>3. QED BY <1>1, <1>2

\* Allow(k), key by key.
LEMMA AllowStep ==
    ASSUME IInv, NEW k \in Keys, NEW room \in Room(k),
           buckets' = maybeEvict([room EXCEPT ![k] = Paid(room, k)],
                                 IF Full(k) THEN clock ELSE lastEvict)
    PROVE  /\ buckets' \in [Keys -> Bucket \cup {NoBucket}]
           /\ buckets'[k] = Paid(room, k)
           /\ \A i \in Keys \ {k} :
                 \/ buckets'[i] = room[i]
                 \/ buckets'[i] = NoBucket /\ room[i] # NoBucket /\ Stale(room[i])
<1> DEFINE bs == [room EXCEPT ![k] = Paid(room, k)]
<1>1. room \in [Keys -> Bucket \cup {NoBucket}] /\ Paid(room, k) \in Bucket /\ clock \in Nat
  BY RoomKeeps, TokensAccrue DEF IInv, TypeOK
<1>2. /\ bs \in [Keys -> Bucket \cup {NoBucket}] /\ bs[k] = Paid(room, k)
      /\ \A i \in Keys \ {k} : bs[i] = room[i]
  BY <1>1
<1>3. ~Stale(bs[k])
  BY <1>1, <1>2, LimiterAssumption DEF Stale, Paid
<1>4. buckets' = bs \/ buckets' = Aged(bs)
  BY DEF maybeEvict
<1> HIDE DEF bs
<1>5. CASE buckets' = bs
  BY <1>2, <1>5
<1>6. CASE buckets' = Aged(bs)
  <2>1. /\ Aged(bs) \in [Keys -> Bucket \cup {NoBucket}]
        /\ \A i \in Keys : \/ Aged(bs)[i] = bs[i]
                           \/ Aged(bs)[i] = NoBucket /\ bs[i] # NoBucket /\ Stale(bs[i])
    BY <1>2, AgedKeeps
  <2>2. QED BY <1>2, <1>3, <1>6, <2>1
<1>7. QED BY <1>4, <1>5, <1>6

-----------------------------------------------------------------------------
(* The invariant. *)

\* Allow keeps types and accrual: k's bucket is brought up to date, the others'
\* are left alone or dropped.
LEMMA AllowIInv ==
    ASSUME IInv, NEW k \in Keys, Allow(k)
    PROVE  IInv' /\ (Capacity >= Cost => PatientClientServed')
<1>0. /\ TypeOK /\ clock \in Nat /\ clock' = clock /\ grantedAt \in [Keys -> Int]
      /\ \A i \in Keys : KeyInv(i)
  BY DEF IInv, TypeOK, Allow
<1>1. PICK room \in Room(k) :
        LET last == IF Full(k) THEN clock ELSE lastEvict
            ok   == Tokens(room, k) >= Cost IN
        /\ buckets' = maybeEvict([room EXCEPT ![k] = Paid(room, k)], last)
        /\ lastEvict' = IF EvictionDue(last) THEN clock ELSE last
        /\ grantedAt' = [grantedAt EXCEPT ![k] = IF ok THEN clock ELSE @]
        /\ allowance' = [i \in Keys |->
              IF i = k THEN (IF ok THEN allowance[k] - Cost ELSE allowance[k])
              ELSE IF Aged(buckets)[i] # NoBucket /\ room[i] = NoBucket THEN Capacity
              ELSE allowance[i]]
        /\ answer' = [allowed |-> ok, wait |-> clock - grantedAt[k]]
  BY DEF Allow, Tokens, Paid
<1>2. /\ Tokens(room, k) \in 0..Capacity
      /\ Tokens(room, k) >= AtMost((clock - grantedAt[k]) * Rate, Capacity)
      /\ Paid(room, k) \in Bucket
  BY TokensAccrue
<1>3. /\ buckets' \in [Keys -> Bucket \cup {NoBucket}]
      /\ buckets'[k] = Paid(room, k)
      /\ \A i \in Keys \ {k} :
            \/ buckets'[i] = room[i]
            \/ buckets'[i] = NoBucket /\ room[i] # NoBucket /\ Stale(room[i])
  BY <1>1, AllowStep
<1>4. \A i \in Keys : room[i] = buckets[i] \/ room[i] = NoBucket
  BY <1>0, RoomKeeps
<1>5. grantedAt[k] \in Int /\ grantedAt[k] <= clock
  BY <1>0 DEF KeyInv
<1>6. TypeOK'
  <2>1. lastEvict' \in Int /\ grantedAt' \in [Keys -> Int]
    BY <1>0, <1>1 DEF TypeOK
  <2>2. allowance' \in [Keys -> Int]
    BY <1>0, <1>1, LimiterAssumption DEF TypeOK
  <2>3. answer' \in Answer
    BY <1>0, <1>1, <1>5 DEF Answer
  <2>4. QED BY <1>0, <1>3, <2>1, <2>2, <2>3 DEF TypeOK
<1>7. ASSUME NEW i \in Keys PROVE KeyInv(i)'
  <2>1. CASE i # k
    <3>1. grantedAt'[i] = grantedAt[i] /\ (buckets'[i] = buckets[i] \/ buckets'[i] = NoBucket)
      BY <1>0, <1>1, <1>3, <1>4, <2>1
    <3>2. QED BY <3>1, <1>0 DEF KeyInv
  <2>2. CASE i = k
    <3>0. /\ buckets'[k] = Paid(room, k) /\ Paid(room, k).lastSeen = clock
          /\ Paid(room, k) # NoBucket
      BY <1>2, <1>3, NoBucketAssumption DEF Paid
    <3>1. CASE Tokens(room, k) >= Cost
      <4>1. grantedAt'[k] = clock /\ Paid(room, k).tokens \in Nat
        BY <1>0, <1>1, <1>2, <3>1, LimiterAssumption DEF Paid
      <4>2. (clock - clock) * Rate = 0
        BY <1>0, LimiterAssumption
      <4>3. QED BY <1>0, <2>2, <3>0, <4>1, <4>2, LimiterAssumption DEF KeyInv, AtMost
    <3>2. CASE ~(Tokens(room, k) >= Cost)
      <4>1. grantedAt'[k] = grantedAt[k] /\ Paid(room, k).tokens = Tokens(room, k)
        BY <1>0, <1>1, <1>2, <3>2 DEF Paid
      <4>2. QED BY <1>0, <1>2, <1>5, <2>2, <3>0, <4>1 DEF KeyInv
    <3>3. QED BY <3>1, <3>2
  <2>3. QED BY <2>1, <2>2
<1>8. ASSUME Capacity >= Cost PROVE PatientClientServed'
  <2> DEFINE z == (clock - grantedAt[k]) * Rate
  <2>1. z \in Int
    BY <1>0, <1>5, LimiterAssumption
  <2>2. (Tokens(room, k) >= Cost => answer'.allowed) /\ answer'.wait * Rate = z
    BY <1>1
  <2>3. Tokens(room, k) >= AtMost(z, Capacity)
    BY <1>2
  <2> HIDE DEF z
  <2>4. QED
    BY <1>2, <1>8, <2>1, <2>2, <2>3, LimiterAssumption DEF PatientClientServed, AtMost
<1>9. QED BY <1>6, <1>7, <1>8 DEF IInv

\* A tick only adds to what has accrued.
LEMMA TickIInv ==
    ASSUME IInv, Tick
    PROVE  IInv'
<1>1. clock \in Nat /\ clock' = clock + 1 /\ UNCHANGED <<buckets, lastEvict, grantedAt, answer>>
  BY DEF IInv, TypeOK, Tick
<1>2. allowance' \in [Keys -> Int]
  BY LimiterAssumption DEF IInv, TypeOK, Tick, AtMost
<1>3. TypeOK'
  BY <1>1, <1>2 DEF IInv, TypeOK
<1>4. ASSUME NEW k \in Keys PROVE KeyInv(k)'
  <2>1. KeyInv(k) /\ grantedAt[k] \in Int /\ buckets[k] \in Bucket \cup {NoBucket}
    BY DEF IInv, TypeOK
  <2>2. QED BY <1>1, <2>1 DEF KeyInv, Bucket
<1>5. QED BY <1>3, <1>4 DEF IInv

\* The limiter's state keeps its types and its accrual invariant.
THEOREM Invariance == Spec => []IInv
<1>1. Init => IInv
  BY LimiterAssumption DEF Init, IInv, TypeOK, KeyInv, Answer
<1>2. IInv /\ [Next]_vars => IInv'
  <2> SUFFICES ASSUME IInv, [Next]_vars PROVE IInv'
    OBVIOUS
  <2>1. CASE UNCHANGED vars
    BY <2>1 DEF vars, IInv, TypeOK, KeyInv
  <2>2. CASE Next
    BY <2>2, AllowIInv, TickIInv DEF Next
  <2>3. QED BY <2>1, <2>2
<1>3. QED BY <1>1, <1>2, PTL DEF Spec

\* The limiter's state is well typed; in particular no bucket leaves 0..Capacity.
THEOREM TypeCorrect == Spec => []TypeOK
<1>1. IInv => TypeOK
  BY DEF IInv
<1>2. QED BY <1>1, Invariance, PTL

\* With a burst of at least one token, a client that waits a token's refill time
\* after its last grant is never refused, whatever all clients asked meanwhile.
THEOREM PatientClientServedHolds ==
    ASSUME Capacity >= Cost
    PROVE  Spec => []PatientClientServed
<1>1. Init => PatientClientServed
  BY DEF Init, PatientClientServed
<1>2. IInv /\ PatientClientServed /\ [Next]_vars => PatientClientServed'
  <2> SUFFICES ASSUME IInv, PatientClientServed, [Next]_vars PROVE PatientClientServed'
    OBVIOUS
  <2>1. CASE UNCHANGED vars
    BY <2>1 DEF vars, PatientClientServed
  <2>2. CASE Tick
    BY <2>2 DEF Tick, PatientClientServed
  <2>3. ASSUME NEW k \in Keys, Allow(k) PROVE PatientClientServed'
    BY <2>3, AllowIInv
  <2>4. QED BY <2>1, <2>2, <2>3 DEF Next
<1>3. QED BY <1>1, <1>2, Invariance, PTL DEF Spec

-----------------------------------------------------------------------------
(* The quota. *)

Lossless == Capacity <= Rate * EvictAfter

\* A bucket old enough for the age pass has refilled completely.
LEMMA StaleIsFull ==
    ASSUME Lossless, NEW b \in Bucket, clock \in Nat, Stale(b)
    PROVE  refill(b) = Capacity
<1>1. b.tokens \in Nat /\ b.lastSeen \in Nat /\ clock - b.lastSeen >= EvictAfter
  BY LimiterAssumption DEF Bucket, Stale
<1>2. (clock - b.lastSeen) * Rate >= EvictAfter * Rate
  BY <1>1, Longer, LimiterAssumption
<1> DEFINE x == (clock - b.lastSeen) * Rate
<1>3. x \in Int /\ x >= Capacity
  BY <1>1, <1>2, LimiterAssumption DEF Lossless
<1>4. refill(b) = AtMost(b.tokens + x, Capacity)
  BY DEF refill
<1> HIDE DEF x
<1>5. QED BY <1>1, <1>3, <1>4, LimiterAssumption DEF AtMost

\* Allow takes from the bucket exactly what it takes from the ideal one.
LEMMA AllowLevel ==
    ASSUME Lossless, IInv, LevelMatches, NEW k \in Keys, Allow(k)
    PROVE  LevelMatches'
<1>0. /\ TypeOK /\ clock \in Nat /\ clock' = clock /\ buckets \in [Keys -> Bucket \cup {NoBucket}]
      /\ allowance \in [Keys -> Int]
  BY DEF IInv, TypeOK, Allow
<1>1. PICK room \in Room(k) :
        LET last == IF Full(k) THEN clock ELSE lastEvict
            ok   == Tokens(room, k) >= Cost IN
        /\ buckets' = maybeEvict([room EXCEPT ![k] = Paid(room, k)], last)
        /\ allowance' = [i \in Keys |->
              IF i = k THEN (IF ok THEN allowance[k] - Cost ELSE allowance[k])
              ELSE IF Aged(buckets)[i] # NoBucket /\ room[i] = NoBucket THEN Capacity
              ELSE allowance[i]]
  BY DEF Allow, Tokens, Paid
<1>2. /\ Tokens(room, k) \in 0..Capacity /\ Paid(room, k) \in Bucket
      /\ buckets[k] = NoBucket => Tokens(room, k) = Capacity
  BY TokensAccrue
<1>3. /\ buckets'[k] = Paid(room, k)
      /\ \A i \in Keys \ {k} :
            \/ buckets'[i] = room[i]
            \/ buckets'[i] = NoBucket /\ room[i] # NoBucket /\ Stale(room[i])
  BY <1>1, AllowStep
<1>4. /\ room[k] = buckets[k]
      /\ \A i \in Keys : \/ room[i] = buckets[i]
                         \/ /\ room[i] = NoBucket /\ buckets[i] # NoBucket
                            /\ Stale(buckets[i]) \/ Aged(buckets)[i] # NoBucket
  BY <1>0, RoomKeeps
<1>5. \A i \in Keys : Aged(buckets)[i] # NoBucket => buckets[i] # NoBucket
  BY DEF Aged
<1>6. ASSUME NEW i \in Keys PROVE allowance'[i] = Level(i)'
  <2>1. CASE i = k
    <3>1. Level(k) = Tokens(room, k)
      BY <1>2, <1>4 DEF Level, Tokens, BucketOf
    <3>2. Level(k)' = Paid(room, k).tokens
      <4>1. Level(k)' = AtMost(Paid(room, k).tokens + (clock - clock) * Rate, Capacity)
        BY <1>0, <1>2, <1>3, NoBucketAssumption DEF Level, refill, Paid
      <4>2. (clock - clock) * Rate = 0 /\ Paid(room, k).tokens \in 0..Capacity
        BY <1>0, <1>2, LimiterAssumption DEF Bucket
      <4>3. QED BY <4>1, <4>2, LimiterAssumption DEF AtMost
    <3>3. allowance[k] = Level(k)
      BY DEF LevelMatches
    <3>4. QED BY <1>1, <2>1, <3>1, <3>2, <3>3 DEF Paid
  <2>2. CASE i # k /\ room[i] = buckets[i]
    <3>1. allowance'[i] = Level(i)
      BY <1>1, <1>5, <2>2 DEF LevelMatches
    <3>2. CASE buckets'[i] = buckets[i]
      BY <1>0, <3>1, <3>2 DEF Level, refill
    <3>3. CASE buckets'[i] = NoBucket /\ buckets[i] # NoBucket /\ Stale(buckets[i])
      <4>1. refill(buckets[i]) = Capacity
        BY <1>0, <3>3, StaleIsFull
      <4>2. QED BY <3>1, <3>3, <4>1 DEF Level
    <3>4. QED BY <1>3, <2>2, <3>2, <3>3
  <2>3. CASE i # k /\ room[i] # buckets[i]
    <3>1. room[i] = NoBucket /\ buckets[i] # NoBucket /\ Level(i)' = Capacity
      BY <1>3, <1>4, <2>3 DEF Level
    <3>2. CASE Aged(buckets)[i] # NoBucket
      BY <1>1, <2>3, <3>1, <3>2
    <3>3. CASE Aged(buckets)[i] = NoBucket
      <4>1. Stale(buckets[i]) /\ buckets[i] \in Bucket
        BY <1>0, <1>4, <2>3, <3>1, <3>3
      <4>2. Level(i) = Capacity
        BY <1>0, <3>1, <4>1, StaleIsFull DEF Level
      <4>3. QED BY <1>1, <2>3, <3>1, <3>3, <4>2 DEF LevelMatches
    <3>4. QED BY <3>2, <3>3
  <2>4. QED BY <2>1, <2>2, <2>3
<1>7. QED BY <1>6 DEF LevelMatches

\* A tick refills both buckets alike.
LEMMA TickLevel ==
    ASSUME IInv, LevelMatches, Tick
    PROVE  LevelMatches'
<1>1. clock \in Nat /\ clock' = clock + 1 /\ buckets' = buckets
  BY DEF IInv, TypeOK, Tick
<1>2. ASSUME NEW k \in Keys PROVE allowance'[k] = Level(k)'
  <2>1. allowance'[k] = AtMost(Level(k) + Rate, Capacity)
    BY DEF Tick, LevelMatches
  <2>2. CASE buckets[k] = NoBucket
    BY <1>1, <2>1, <2>2, LimiterAssumption DEF Level, AtMost
  <2>3. CASE buckets[k] # NoBucket
    <3> DEFINE b == buckets[k]
               x == (clock - b.lastSeen) * Rate
    <3>1. b.tokens \in 0..Capacity /\ b.lastSeen \in Nat /\ b.lastSeen <= clock
      BY <2>3 DEF IInv, TypeOK, KeyInv, Bucket
    <3>2. x \in Nat /\ (clock + 1 - b.lastSeen) * Rate = x + Rate
      BY <1>1, <3>1, LimiterAssumption
    <3>3. Level(k) = AtMost(b.tokens + x, Capacity)
      BY <2>3 DEF Level, refill
    <3>4. Level(k)' = AtMost(b.tokens + (x + Rate), Capacity)
      <4>1. Level(k)' = AtMost(b.tokens + (clock + 1 - b.lastSeen) * Rate, Capacity)
        <5>1. Level(k)' = AtMost(buckets'[k].tokens + (clock' - buckets'[k].lastSeen) * Rate, Capacity)
          BY <1>1, <2>3 DEF Level, refill
        <5>2. /\ buckets'[k].tokens = b.tokens
              /\ (clock' - buckets'[k].lastSeen) * Rate = (clock + 1 - b.lastSeen) * Rate
          BY <1>1, <3>1, LimiterAssumption
        <5>3. QED BY <5>1, <5>2, Zenon
      <4> HIDE DEF x
      <4>2. QED BY <3>2, <4>1
    <3> HIDE DEF x
    <3>5. QED BY <2>1, <3>1, <3>2, <3>3, <3>4, LimiterAssumption DEF AtMost
  <2>4. QED BY <2>2, <2>3
<1>3. QED BY <1>2 DEF LevelMatches

\* Where a bucket refills within evictAfter, the limiter grants exactly what
\* unforgetting buckets would, up to the buckets the cap throws out.
THEOREM QuotaHoldsHolds ==
    ASSUME Lossless
    PROVE  Spec => []QuotaHolds
<1>1. Init => LevelMatches
  BY DEF Init, LevelMatches, Level
<1>2. IInv /\ LevelMatches /\ [Next]_vars => LevelMatches'
  <2> SUFFICES ASSUME IInv, LevelMatches, [Next]_vars PROVE LevelMatches'
    OBVIOUS
  <2>1. CASE UNCHANGED vars
    BY <2>1 DEF vars, LevelMatches, Level, refill
  <2>2. CASE Next
    BY <2>2, AllowLevel, TickLevel DEF Next
  <2>3. QED BY <2>1, <2>2
<1>3. IInv /\ LevelMatches => QuotaHolds
  <2> SUFFICES ASSUME IInv, LevelMatches, NEW k \in Keys PROVE allowance[k] >= 0
    BY DEF QuotaHolds
  <2>1. CASE buckets[k] = NoBucket
    BY <2>1, LimiterAssumption DEF LevelMatches, Level
  <2>2. CASE buckets[k] # NoBucket
    <3>1. buckets[k] \in Bucket /\ clock \in Nat /\ buckets[k].lastSeen <= clock
      BY <2>2 DEF IInv, TypeOK, KeyInv
    <3>2. refill(buckets[k]) \in 0..Capacity
      BY <3>1, RefillType
    <3>3. QED BY <2>2, <3>2, LimiterAssumption DEF LevelMatches, Level
  <2>3. QED BY <2>1, <2>2
<1>4. QED BY <1>1, <1>2, <1>3, Invariance, PTL DEF Spec

-----------------------------------------------------------------------------
(* The cap. *)

\* Allow adds at most one bucket, and only to a map that has room for it.
LEMMA AllowBounded ==
    ASSUME IInv, BoundedMemory, NEW k \in Keys, Allow(k)
    PROVE  BoundedMemory'
<1>0. TypeOK /\ buckets \in [Keys -> Bucket \cup {NoBucket}]
  BY DEF IInv, TypeOK
<1>1. PICK room \in Room(k) :
        buckets' = maybeEvict([room EXCEPT ![k] = Paid(room, k)],
                              IF Full(k) THEN clock ELSE lastEvict)
  BY DEF Allow, Tokens, Paid
<1>2. \A i \in Keys \ {k} : buckets'[i] # NoBucket => room[i] # NoBucket
  <2>1. \A i \in Keys \ {k} :
           \/ buckets'[i] = room[i]
           \/ buckets'[i] = NoBucket /\ room[i] # NoBucket /\ Stale(room[i])
    BY <1>1, AllowStep
  <2>2. QED BY <2>1
<1>3. Live(buckets') \subseteq Live(room) \cup {k}
  BY <1>2 DEF Live
<1>4. \A bs : IsFiniteSet(Live(bs)) /\ Cardinality(Live(bs)) \in Nat
  <2> TAKE bs
  <2>1. Live(bs) \in SUBSET Keys
    BY DEF Live
  <2>2. IsFiniteSet(Live(bs))
    BY <2>1, FS_Subset, LimiterAssumption
  <2>3. QED BY <2>2, FS_CardinalityType
<1>5. IsFiniteSet(Live(room) \cup {k})
  BY <1>4, FS_AddElement
<1>6. Cardinality(Live(buckets')) <= Cardinality(Live(room) \cup {k})
  BY <1>3, <1>5, FS_Subset
<1>7. Cardinality(Live(room) \cup {k}) =
        IF k \in Live(room) THEN Cardinality(Live(room)) ELSE Cardinality(Live(room)) + 1
  BY <1>4, FS_AddElement
<1>8. Cardinality(Live(room)) < MaxBuckets \/ (k \in Live(room) /\ room = buckets)
  <2>1. CASE ~Full(k)
    <3>1. room = buckets
      BY <2>1 DEF Room
    <3>2. QED BY <2>1, <3>1, <1>4, LimiterAssumption DEF Full, Live
  <2>2. CASE Full(k)
    <3>1. room \in forceEvict(buckets)
      BY <2>2 DEF Room
    <3>2. Live(Aged(buckets)) \subseteq Live(buckets)
      BY DEF Live, Aged
    <3>3. Cardinality(Live(Aged(buckets))) <= MaxBuckets
      <4>1. Cardinality(Live(Aged(buckets))) <= Cardinality(Live(buckets))
        BY <1>4, <3>2, FS_Subset
      <4>2. QED BY <1>4, <4>1, LimiterAssumption DEF BoundedMemory
    <3>4. CASE Cardinality(Live(Aged(buckets))) < MaxBuckets
      BY <3>1, <3>4 DEF forceEvict
    <3>5. CASE ~(Cardinality(Live(Aged(buckets))) < MaxBuckets)
      <4>1. PICK o \in Oldest(Aged(buckets)) : room = [Aged(buckets) EXCEPT ![o] = NoBucket]
        BY <3>1, <3>5 DEF forceEvict
      <4>2. o \in Live(Aged(buckets)) /\ Aged(buckets) \in [Keys -> Bucket \cup {NoBucket}]
        BY <1>0, <4>1, AgedKeeps DEF Oldest
      <4>3. Live(room) = Live(Aged(buckets)) \ {o}
        BY <4>1, <4>2 DEF Live
      <4>4. Cardinality(Live(room)) = Cardinality(Live(Aged(buckets))) - 1
        <5>1. IsFiniteSet(Live(Aged(buckets)))
          BY <1>4
        <5> DEFINE L == Live(Aged(buckets))
        <5> HIDE DEF L
        <5>2. Cardinality(L \ {o}) = Cardinality(L) - 1
          BY <5>1, <4>2, FS_RemoveElement DEF L
        <5>3. QED BY <4>3, <5>2 DEF L
      <4>5. QED BY <1>4, <3>3, <4>4, LimiterAssumption
    <3>6. QED BY <3>4, <3>5
  <2>3. QED BY <2>1, <2>2
<1>9. Cardinality(Live(buckets')) <= MaxBuckets
  BY <1>4, <1>6, <1>7, <1>8, LimiterAssumption DEF BoundedMemory
<1>10. QED BY <1>9 DEF BoundedMemory, Live

\* The bucket map stays within maxBuckets for every set and order of keys.
THEOREM BoundedMemoryHolds == Spec => []BoundedMemory
<1>1. Init => BoundedMemory
  <2> SUFFICES ASSUME Init PROVE BoundedMemory
    OBVIOUS
  <2>1. Live(buckets) = {}
    BY DEF Init, Live
  <2>2. QED BY <2>1, FS_EmptySet, LimiterAssumption DEF BoundedMemory
<1>2. IInv /\ BoundedMemory /\ [Next]_vars => BoundedMemory'
  <2> SUFFICES ASSUME IInv, BoundedMemory, [Next]_vars PROVE BoundedMemory'
    OBVIOUS
  <2>1. CASE UNCHANGED vars
    BY <2>1 DEF vars, BoundedMemory, Live
  <2>2. CASE Tick
    BY <2>2 DEF Tick, BoundedMemory, Live
  <2>3. ASSUME NEW k \in Keys, Allow(k) PROVE BoundedMemory'
    BY <2>3, AllowBounded
  <2>4. QED BY <2>1, <2>2, <2>3 DEF Next
<1>3. QED BY <1>1, <1>2, Invariance, PTL DEF Spec
=============================================================================
