------------------------- MODULE RateLimiter_proofs -------------------------
(* What addresses are let in for, at any rates, bursts and clock, and with any *)
(* number of requests that race for the global limiter.                       *)
EXTENDS RateLimiter, FiniteSetTheorems, TLAPS

\* What a bucket can have at a time, at most; one that is not there is full.
Credit(t, b, time) ==
  IF b = NoBucket THEN Full(t)
  ELSE Lesser(Full(t), b.units + Worth(t) * (time - b.last))

\* What the global limiter that is in place has for an address.
Place(k) == IF globalRateLimiter = NoLimiter THEN Full("global")
            ELSE Credit("global", buckets[globalRateLimiter][k], now)

\* What was let in, and what can be let in now, are within the bound.
StrictBound ==
  \A l \in Strict, k \in Key, s \in 0..now :
     admitted[l][k][s] * Second + Credit(l, buckets[l][k], now) <= Full(l) + Worth(l) * (now - s)

\* On the global route the limiter in place can let in, and the requests that have another.
GlobalBound ==
  \A k \in Key, s \in 0..now :
     admitted["global"][k][s] * Second + Place(k) + Cardinality(Late) * Second
       <= (1 + replaced[s]) * Full("global") + late[s] * Second + Worth("global") * (now - s)

\* Nothing has been counted since a moment that is still to come.
NothingYet == \A s \in Time : s > now =>
                 /\ replaced[s] = 0 /\ late[s] = 0
                 /\ \A t \in Route, k \in Key : admitted[t][k][s] = 0

Inv == TypeOK /\ NothingYet /\ StrictBound /\ GlobalBound

\* Products of naturals, which are all the arithmetic there is here.
LEMMA Products ==
  ASSUME NEW a \in Nat, NEW b \in Nat, NEW c \in Nat
  PROVE  /\ a * b \in Nat
         /\ a * (b + c) = a * b + a * c
         /\ (b + c) * a = b * a + c * a
         /\ b <= c => a * b <= a * c /\ b * a <= c * a
<1>1. a * b \in Nat /\ a * c \in Nat
  OBVIOUS
<1>2. a * (b + c) = a * b + a * c /\ (b + c) * a = b * a + c * a
  OBVIOUS
<1>3. ASSUME b <= c PROVE a * b <= a * c /\ b * a <= c * a
  <2>1. PICK d \in Nat : c = b + d
    BY <1>3
  <2>2. a * c = a * b + a * d /\ a * d \in Nat
    BY <2>1
  <2> QED BY <2>2, <1>1
<1> QED BY <1>1, <1>2, <1>3

\* A quotient that is rounded up covers the dividend.
LEMMA RoundedUp ==
  ASSUME NEW f \in Nat, NEW i \in Nat \ {0}
  PROVE  (f + i - 1) \div i \in Nat /\ f <= ((f + i - 1) \div i) * i
<1> DEFINE n == f + i - 1
           q == n \div i
<1>1. n \in Nat /\ q \in Nat /\ n % i \in 0..(i - 1)
  OBVIOUS
<1>2. n = i * q + (n % i)
  OBVIOUS
<1>3. i * q = q * i /\ q * i \in Nat
  BY <1>1
<1> HIDE DEF q
<1>4. f <= q * i
  BY <1>1, <1>2, <1>3
<1> QED BY <1>1, <1>4 DEF q

\* The constants of a route; what a tick is worth covers every rate, and the bursts of
\* dropped buckets.
LEMMA Constants ==
  ASSUME NEW t \in Route
  PROVE  /\ Full(t) \in Nat /\ Second \in Nat \ {0} /\ Full(t) >= Second
         /\ Worth(t) \in Nat \ {0} /\ Idle \in Nat \ {0} /\ Full(t) <= Worth(t) * Idle
         /\ \A rps \in Rates(t) : rps \in Nat \ {0} /\ rps <= Worth(t)
<1>1. Second \in Nat \ {0} /\ Burst[t] \in Nat \ {0} /\ Rps[t] \in Nat \ {0} /\ Idle \in Nat \ {0}
  BY LimiterAssumption
<1>2. Full(t) \in Nat /\ Full(t) >= Second
  BY <1>1 DEF Full
<1>3. \A rps \in Rates(t) : rps \in Nat \ {0}
  BY <1>1, LimiterAssumption DEF Rates
<1>4. TopRate(t) \in Nat \ {0} /\ \A rps \in Rates(t) : rps <= TopRate(t)
  BY <1>3, LimiterAssumption
<1>5. PICK q \in Nat : q = (Full(t) + Idle - 1) \div Idle /\ Full(t) <= q * Idle
  BY <1>1, <1>2, RoundedUp
<1>6. Worth(t) = Greater(TopRate(t), q)
  BY <1>5 DEF Worth
<1>7. Worth(t) \in Nat \ {0} /\ TopRate(t) <= Worth(t) /\ q <= Worth(t)
  BY <1>4, <1>6 DEF Greater
<1>8. q * Idle <= Worth(t) * Idle
  BY <1>1, <1>7, Products
<1>9. Full(t) <= Worth(t) * Idle
  <2>1. q * Idle \in Nat /\ Worth(t) * Idle \in Nat
    BY <1>1, <1>7, Products
  <2> QED BY <1>2, <1>5, <1>8, <2>1
<1>10. \A rps \in Rates(t) : rps <= Worth(t)
  BY <1>3, <1>4, <1>7
<1> QED BY <1>1, <1>2, <1>3, <1>7, <1>9, <1>10

\* Limiters and their routes.
LEMMA Routes ==
  /\ "global" \in Route /\ Strict \subseteq Route /\ Strict \subseteq Limiter /\ Request \subseteq Limiter
  /\ \A l \in Limiter : RouteOf(l) \in Route
  /\ \A l \in Strict : RouteOf(l) = l
  /\ \A r \in Request : RouteOf(r) = "global" /\ r # NoLimiter /\ r \notin Strict
BY LimiterAssumption DEF Route, Limiter, RouteOf

\* The late requests can be counted.
LEMMA LateCount ==
  /\ IsFiniteSet(Late) /\ Cardinality(Late) \in Nat /\ Late \subseteq Request
  /\ IsFiniteSet(Users) /\ Cardinality(Users) \in Nat
<1>1. Late \subseteq Request /\ Users \subseteq Request
  BY DEF Late, Users
<1>2. IsFiniteSet(Late) /\ IsFiniteSet(Users)
  BY <1>1, FS_Subset, LimiterAssumption
<1> QED BY <1>1, <1>2, FS_CardinalityType

Bucket(t, time) == [units : 0..Full(t), last : 0..time] \cup {NoBucket}

LEMMA BucketTypes ==
  ASSUME TypeOK, NEW l \in Limiter, NEW k \in Key
  PROVE  now \in Nat /\ buckets[l][k] \in Bucket(RouteOf(l), now)
<1>1. now \in Nat
  BY LimiterAssumption DEF TypeOK, Time
<1>2. CASE buckets[l][k] = NoBucket
  BY <1>1, <1>2 DEF Bucket
<1>3. CASE buckets[l][k] # NoBucket
  <2>1. /\ buckets[l][k] \in [units : Nat, last : 0..now]
        /\ buckets[l][k].units <= Full(RouteOf(l))
    BY <1>3 DEF TypeOK
  <2>2. Full(RouteOf(l)) \in Nat
    BY Routes, Constants
  <2> QED BY <1>1, <2>1, <2>2 DEF Bucket
<1> QED BY <1>2, <1>3

LEMMA Lessers ==
  ASSUME NEW f \in Nat, NEW u \in Nat, NEW p \in Nat, NEW r \in Nat
  PROVE  /\ Lesser(f, u + p) \in 0..f /\ Lesser(f, u + (p + r)) \in 0..f
         /\ Lesser(f, u + (p + r)) <= Lesser(f, u + p) + r
BY DEF Lesser

\* Credit is a number of units, no more than the burst; a tick adds at most its worth.
LEMMA CreditRange ==
  ASSUME NEW t \in Route, NEW time \in Nat, NEW b \in Bucket(t, time)
  PROVE  /\ Credit(t, b, time) \in 0..Full(t)
         /\ Credit(t, b, time + 1) \in 0..Full(t)
         /\ Credit(t, b, time + 1) <= Credit(t, b, time) + Worth(t)
<1>1. CASE b = NoBucket
  BY <1>1, Constants DEF Credit
<1>2. CASE b # NoBucket
  <2>0. b.units \in Nat /\ b.last \in Nat /\ time - b.last \in Nat /\ time + 1 - b.last = (time - b.last) + 1
    BY <1>2, Constants DEF Bucket
  <2>1. PICK d \in Nat : d = time - b.last
    BY <2>0
  <2>2. /\ Worth(t) * d \in Nat
        /\ Worth(t) * (d + 1) = Worth(t) * d + Worth(t) * 1 /\ Worth(t) * 1 = Worth(t)
    <3>1. Worth(t) \in Nat /\ 1 \in Nat
      BY Constants
    <3> QED BY <3>1, Products
  <2>3. /\ Credit(t, b, time) = Lesser(Full(t), b.units + Worth(t) * d)
        /\ Credit(t, b, time + 1) = Lesser(Full(t), b.units + Worth(t) * (d + 1))
    BY <1>2, <2>0, <2>1 DEF Credit
  <2>4. PICK p \in Nat : p = Worth(t) * d
    BY <2>2
  <2>5. /\ Credit(t, b, time) = Lesser(Full(t), b.units + p)
        /\ Credit(t, b, time + 1) = Lesser(Full(t), b.units + (p + Worth(t)))
    BY <2>2, <2>3, <2>4
  <2>6. Full(t) \in Nat /\ Worth(t) \in Nat
    BY Constants
  <2>7. /\ Lesser(Full(t), b.units + p) \in 0..Full(t)
        /\ Lesser(Full(t), b.units + (p + Worth(t))) \in 0..Full(t)
        /\ Lesser(Full(t), b.units + (p + Worth(t))) <= Lesser(Full(t), b.units + p) + Worth(t)
    BY <2>0, <2>6, Lessers, Zenon
  <2> QED BY <2>5, <2>7, Zenon
<1> QED BY <1>1, <1>2

\* What the limiter in place has, now and if it is still in place in a tick.
Later(k) == IF globalRateLimiter = NoLimiter THEN Full("global")
            ELSE Credit("global", buckets[globalRateLimiter][k], now + 1)

LEMMA PlaceRange ==
  ASSUME TypeOK, NEW k \in Key
  PROVE  /\ Place(k) \in 0..Full("global") /\ Later(k) \in 0..Full("global")
         /\ Later(k) <= Place(k) + Worth("global")
<1>1. CASE globalRateLimiter = NoLimiter
  BY <1>1, Routes, Constants DEF Place, Later
<1>2. CASE globalRateLimiter # NoLimiter
  <2>1. PICK g \in Request : g = globalRateLimiter
    BY <1>2 DEF TypeOK
  <2>2. now \in Nat /\ buckets[g][k] \in Bucket("global", now)
    BY <2>1, Routes, BucketTypes
  <2> QED BY <1>2, <2>1, <2>2, Routes, CreditRange DEF Place, Later
<1> QED BY <1>1, <1>2

\* The time, and the counts, are naturals.
LEMMA Moments ==
  ASSUME TypeOK, NEW s \in 0..now
  PROVE  /\ s \in Time /\ s \in Nat /\ now \in Nat /\ now \in Time /\ now - s \in Nat /\ s <= now
         /\ Time \subseteq Nat
BY LimiterAssumption DEF TypeOK, Time

LEMMA CountTypes ==
  ASSUME TypeOK, NEW t \in Route, NEW k \in Key, NEW s \in 0..now
  PROVE  /\ admitted[t][k][s] \in Nat /\ admitted[t][k][s] * Second \in Nat
         /\ Worth(t) * (now - s) \in Nat
         /\ replaced[s] \in Nat /\ (1 + replaced[s]) * Full(t) \in Nat
         /\ late[s] \in Nat /\ late[s] * Second \in Nat
         /\ Cardinality(Late) \in Nat /\ Cardinality(Late) * Second \in Nat
<1>1. s \in Time /\ now - s \in Nat
  BY Moments
<1>2. admitted[t][k][s] \in Nat /\ replaced[s] \in Nat /\ late[s] \in Nat
  BY <1>1 DEF TypeOK
<1>3. Full(t) \in Nat /\ Second \in Nat /\ Worth(t) \in Nat /\ 1 + replaced[s] \in Nat
  BY <1>2, Constants
<1> QED BY <1>1, <1>2, <1>3, LateCount, Products

LEMMA InitInv == Init => Inv
<1> SUFFICES ASSUME Init PROVE Inv
  OBVIOUS
<1>1. TypeOK
  <2>1. 0 \in Time
    BY LimiterAssumption DEF Time
  <2> QED BY <2>1 DEF Init, TypeOK, NoBuckets, Time
<1>2. NothingYet
  BY DEF Init, NothingYet, Time
<1>3. now = 0 /\ 0 \in Time /\ \A s \in 0..now : s = 0
  BY LimiterAssumption DEF Init, Time
<1>4. StrictBound
  <2> SUFFICES ASSUME NEW l \in Strict, NEW k \in Key
               PROVE  admitted[l][k][0] * Second + Credit(l, buckets[l][k], 0)
                        <= Full(l) + Worth(l) * (0 - 0)
    BY <1>3 DEF StrictBound
  <2>1. admitted[l][k][0] = 0 /\ Credit(l, buckets[l][k], 0) = Full(l)
    BY <1>3, Routes DEF Init, Credit, NoBuckets
  <2>2. Worth(l) * (0 - 0) = 0 /\ 0 * Second = 0 /\ Full(l) \in Nat
    BY Routes, Constants
  <2> QED BY <2>1, <2>2
<1>5. GlobalBound
  <2>1. Late = {}
    BY DEF Init, Late
  <2>2. Cardinality(Late) = 0
    BY <2>1, FS_EmptySet
  <2> SUFFICES ASSUME NEW k \in Key
               PROVE  admitted["global"][k][0] * Second + Place(k) + 0 * Second
                        <= (1 + replaced[0]) * Full("global") + late[0] * Second + Worth("global") * (0 - 0)
    BY <1>3, <2>2 DEF GlobalBound
  <2>3. admitted["global"][k][0] = 0 /\ replaced[0] = 0 /\ late[0] = 0 /\ Place(k) = Full("global")
    BY <1>3, Routes DEF Init, Place
  <2>4. /\ Worth("global") * (0 - 0) = 0 /\ 0 * Second = 0 /\ (1 + 0) * Full("global") = Full("global")
        /\ Full("global") \in Nat
    BY Routes, Constants
  <2> QED BY <2>3, <2>4
<1> QED BY <1>1, <1>2, <1>4, <1>5 DEF Inv

-----------------------------------------------------------------------------
(* A tick *)

LEMMA TickInv == Inv /\ Tick => Inv'
<1> SUFFICES ASSUME Inv, Tick PROVE Inv'
  OBVIOUS
<1>1. /\ TypeOK /\ now \in Nat /\ now' = now + 1 /\ now + 1 \in Time /\ Time \subseteq Nat
      /\ now \in Time
      /\ UNCHANGED <<globalRateLimiter, initing, held, buckets, admitted, replaced>>
  BY LimiterAssumption DEF Inv, TypeOK, Time, Tick
<1>2. /\ late' \in [Time -> Nat] /\ late'[now + 1] = Cardinality(Late)
      /\ \A s \in Time : s # now + 1 => late'[s] = late[s]
  BY <1>1, LateCount DEF Tick, TypeOK
<1>3. TypeOK'
  <2>1. buckets \in [Limiter -> [Key -> [units : Nat, last : 0..(now + 1)] \cup {NoBucket}]]
    BY <1>1 DEF TypeOK
  <2> QED BY <1>1, <1>2, <2>1 DEF TypeOK
<1>4. NothingYet'
  BY <1>1, <1>2 DEF Inv, NothingYet
<1>5. ASSUME NEW s \in 0..(now + 1), s # now + 1
      PROVE  /\ s \in 0..now /\ s \in Time
             /\ \A t \in Route : /\ Worth(t) * (now - s) \in Nat
                                 /\ Worth(t) * (now + 1 - s) = Worth(t) * (now - s) + Worth(t)
  <2>1. s \in 0..now /\ s \in Time /\ now - s \in Nat /\ now + 1 - s = (now - s) + 1
    BY <1>1, <1>5, LimiterAssumption DEF Time
  <2>2. ASSUME NEW t \in Route
        PROVE  /\ Worth(t) * (now - s) \in Nat
               /\ Worth(t) * ((now - s) + 1) = Worth(t) * (now - s) + Worth(t) * 1
               /\ Worth(t) * 1 = Worth(t)
    <3>1. Worth(t) \in Nat
      BY Constants
    <3>2. PICK d \in Nat : d = now - s
      BY <2>1
    <3>3. Worth(t) * d \in Nat /\ Worth(t) * (d + 1) = Worth(t) * d + Worth(t) * 1
      BY <3>1, Products
    <3> QED BY <3>1, <3>2, <3>3
  <2> QED BY <2>1, <2>2
<1>6. \A t \in Route : Worth(t) * (now + 1 - (now + 1)) = 0
  BY <1>1, Constants
<1>7. StrictBound'
  <2>1. ASSUME NEW l \in Strict, NEW k \in Key, NEW s \in 0..(now + 1)
        PROVE  admitted[l][k][s] * Second + Credit(l, buckets[l][k], now + 1)
                 <= Full(l) + Worth(l) * (now + 1 - s)
    <3>0. /\ Credit(l, buckets[l][k], now) \in 0..Full(l)
          /\ Credit(l, buckets[l][k], now + 1) \in 0..Full(l)
          /\ Credit(l, buckets[l][k], now + 1) <= Credit(l, buckets[l][k], now) + Worth(l)
          /\ l \in Route /\ Full(l) \in Nat /\ Worth(l) \in Nat
      BY <1>1, Routes, BucketTypes, CreditRange, Constants
    <3>1. CASE s # now + 1
      <4>1. admitted[l][k][s] * Second + Credit(l, buckets[l][k], now)
              <= Full(l) + Worth(l) * (now - s)
        BY <1>5, <3>1 DEF Inv, StrictBound
      <4>2. admitted[l][k][s] * Second \in Nat
        BY <1>1, <1>5, <3>0, <3>1, CountTypes
      <4> QED BY <1>5, <3>0, <3>1, <4>1, <4>2
    <3>2. CASE s = now + 1
      <4>1. admitted[l][k][s] = 0 /\ 0 * Second = 0
        BY <1>1, <3>0, <3>2, LimiterAssumption DEF Inv, NothingYet
      <4> QED BY <1>6, <3>0, <3>2, <4>1
    <3> QED BY <3>1, <3>2
  <2> QED BY <1>1, <2>1 DEF StrictBound
<1>8. GlobalBound'
  <2>1. Late' = Late /\ \A k \in Key : Place(k)' = Later(k)
    BY <1>1 DEF Late, Place, Later
  <2>2. ASSUME NEW k \in Key, NEW s \in 0..(now + 1)
        PROVE  admitted["global"][k][s] * Second + Later(k) + Cardinality(Late) * Second
                 <= (1 + replaced[s]) * Full("global") + late'[s] * Second + Worth("global") * (now + 1 - s)
    <3>0. /\ Place(k) \in 0..Full("global") /\ Later(k) \in 0..Full("global")
          /\ Later(k) <= Place(k) + Worth("global")
          /\ Full("global") \in Nat /\ Worth("global") \in Nat
      BY <1>1, Routes, PlaceRange, Constants
    <3>1. CASE s # now + 1
      <4>1. admitted["global"][k][s] * Second + Place(k) + Cardinality(Late) * Second
              <= (1 + replaced[s]) * Full("global") + late[s] * Second + Worth("global") * (now - s)
        BY <1>5, <3>1 DEF Inv, GlobalBound
      <4>2. late'[s] = late[s]
        BY <1>2, <1>5, <3>1
      <4>3. /\ admitted["global"][k][s] * Second \in Nat /\ Cardinality(Late) * Second \in Nat
            /\ (1 + replaced[s]) * Full("global") \in Nat /\ late[s] * Second \in Nat
            /\ Worth("global") * (now - s) \in Nat
            /\ Worth("global") * (now + 1 - s) = Worth("global") * (now - s) + Worth("global")
        BY <1>1, <1>5, <3>1, Routes, CountTypes
      <4> QED BY <3>0, <4>1, <4>2, <4>3
    <3>2. CASE s = now + 1
      <4>1. admitted["global"][k][s] = 0 /\ replaced[s] = 0 /\ late'[s] = Cardinality(Late)
        BY <1>1, <1>2, <3>2, Routes DEF Inv, NothingYet
      <4>2. /\ 0 * Second = 0 /\ (1 + 0) * Full("global") = Full("global")
            /\ Cardinality(Late) * Second \in Nat /\ Worth("global") * (now + 1 - s) = 0
        BY <1>6, <3>0, <3>2, Routes, LateCount, LimiterAssumption, Products
      <4> QED BY <3>0, <4>1, <4>2
    <3> QED BY <3>1, <3>2
  <2> QED BY <1>1, <2>1, <2>2 DEF GlobalBound
<1> QED BY <1>3, <1>4, <1>7, <1>8 DEF Inv

-----------------------------------------------------------------------------
(* A request is let in or refused *)

\* So many more since every moment up to now.
LEMMA CountedMore ==
  ASSUME TypeOK, NEW count \in [Time -> Nat], NEW more \in Nat
  PROVE  /\ Counted(count, more) \in [Time -> Nat]
         /\ \A s \in Time : /\ s <= now => Counted(count, more)[s] = count[s] + more
                            /\ s > now => Counted(count, more)[s] = count[s]
<1>1. now \in Nat /\ Time \subseteq Nat
  BY LimiterAssumption DEF TypeOK, Time
<1> QED BY <1>1 DEF Counted

\* A bucket that was just left with u units has them to give.
LEMMA FreshCredit ==
  ASSUME NEW t \in Route, NEW time \in Nat, NEW u \in 0..Full(t)
  PROVE  Credit(t, [units |-> u, last |-> time], time) = u
<1>1. [units |-> u, last |-> time] # NoBucket /\ u \in Nat
  BY LimiterAssumption, Constants
<1>2. Worth(t) * (time - time) = 0
  BY Constants
<1> QED BY <1>1, <1>2, Constants DEF Credit, Lesser

\* At whatever rate it is filled, a bucket has no more than its credit.
LEMMA RefilledRange ==
  ASSUME TypeOK, NEW l \in Limiter, NEW k \in Key, buckets[l][k] # NoBucket, NEW rps \in Rates(RouteOf(l))
  PROVE  /\ Refilled(RouteOf(l), buckets[l][k], rps) \in 0..Full(RouteOf(l))
         /\ Refilled(RouteOf(l), buckets[l][k], rps) <= Credit(RouteOf(l), buckets[l][k], now)
<1> DEFINE b == buckets[l][k]
           t == RouteOf(l)
<1>0. t \in Route
  BY Routes
<1>1. now \in Nat /\ b.units \in Nat /\ now - b.last \in Nat
  <2>1. now \in Nat /\ b \in [units : 0..Full(t), last : 0..now] /\ Full(t) \in Nat
    BY <1>0, BucketTypes, Constants DEF Bucket
  <2> QED BY <2>1
<1>9. b # NoBucket /\ rps \in Rates(t)
  OBVIOUS
<1> HIDE DEF b, t
<1>2. PICK d \in Nat : d = now - b.last
  BY <1>1
<1>3. rps * d \in Nat /\ Worth(t) * d \in Nat /\ rps * d <= Worth(t) * d
  <2>1. rps \in Nat /\ Worth(t) \in Nat /\ rps <= Worth(t)
    BY <1>0, <1>9, Constants
  <2> QED BY <2>1, Products
<1>4. PICK p \in Nat, q \in Nat : p = rps * d /\ q = Worth(t) * d
  BY <1>3
<1>5. Refilled(t, b, rps) = Lesser(Full(t), b.units + p)
  BY <1>2, <1>4 DEF Refilled
<1>6. Credit(t, b, now) = Lesser(Full(t), b.units + q)
  BY <1>2, <1>4, <1>9 DEF Credit
<1>7. p <= q /\ Full(t) \in Nat
  BY <1>0, <1>3, <1>4, Constants
<1>8. /\ Lesser(Full(t), b.units + p) \in 0..Full(t)
      /\ Lesser(Full(t), b.units + p) <= Lesser(Full(t), b.units + q)
  BY <1>1, <1>7 DEF Lesser
<1> QED BY <1>5, <1>6, <1>8 DEF b, t

\* A request takes a token from the credit, or is refused and takes none.
LEMMA AllowTakes ==
  ASSUME TypeOK, NEW l \in Limiter, NEW k \in Key, NEW rps \in Rates(RouteOf(l)), Allow(l, k, rps)
  PROVE  \E u \in 0..Full(RouteOf(l)) :
            /\ Leave(l, k, u)
            /\ \/ u + Second <= Credit(RouteOf(l), buckets[l][k], now) /\ Admit(RouteOf(l), k)
               \/ u <= Credit(RouteOf(l), buckets[l][k], now) /\ UNCHANGED admitted
<1> DEFINE t == RouteOf(l)
<1>0. t \in Route /\ rps \in Rates(t)
  BY Routes
<1> HIDE DEF t
<1>1. CASE buckets[l][k] = NoBucket
  <2>1. Leave(l, k, Full(t) - Second) /\ Admit(t, k)
    BY <1>1 DEF Allow, t
  <2>2. Full(t) - Second \in 0..Full(t) /\ (Full(t) - Second) + Second = Full(t)
    BY <1>0, Constants
  <2>3. Credit(t, buckets[l][k], now) = Full(t) /\ Full(t) <= Full(t)
    BY <1>0, <1>1, Constants DEF Credit
  <2> QED BY <2>1, <2>2, <2>3 DEF t
<1>2. CASE buckets[l][k] # NoBucket
  <2>1. PICK units \in 0..Full(t) : /\ units = Refilled(t, buckets[l][k], rps)
                                   /\ units <= Credit(t, buckets[l][k], now)
    BY <1>0, <1>2, RefilledRange DEF t
  <2>2. IF units >= Second THEN Leave(l, k, units - Second) /\ Admit(t, k)
        ELSE Leave(l, k, units) /\ UNCHANGED admitted
    BY <1>2, <2>1 DEF Allow, t
  <2>3. CASE units >= Second
    <3>1. units - Second \in 0..Full(t) /\ (units - Second) + Second = units
      BY <1>0, <2>3, Constants
    <3> QED BY <2>1, <2>2, <2>3, <3>1 DEF t
  <2>4. CASE ~(units >= Second)
    BY <2>1, <2>2, <2>4 DEF t
  <2> QED BY <2>3, <2>4
<1> QED BY <1>1, <1>2

\* The tokens that a step takes from one bucket are those of the requests it lets in.
Takes(l0, k0, more) ==
  LET t0 == RouteOf(l0)
  IN  /\ more \in {0, 1}
      /\ Credit(t0, buckets'[l0][k0], now) \in Nat
      /\ Credit(t0, buckets'[l0][k0], now) + more * Second <= Credit(t0, buckets[l0][k0], now)
      /\ \A l \in Limiter, k \in Key : <<l, k>> # <<l0, k0>> => buckets'[l][k] = buckets[l][k]
      /\ \A k \in Key, s \in Time : s <= now =>
           admitted'[t0][k][s] = IF k = k0 THEN admitted[t0][k][s] + more ELSE admitted[t0][k][s]
      /\ \A t \in Route : t # t0 => admitted'[t] = admitted[t]

LEMMA AllowEffect ==
  ASSUME Inv, NEW l0 \in Limiter, NEW k0 \in Key, NEW rps \in Rates(RouteOf(l0)), Allow(l0, k0, rps),
         now' = now
  PROVE  /\ \E more \in {0, 1} : Takes(l0, k0, more)
         /\ buckets' \in [Limiter -> [Key -> [units : Nat, last : 0..now] \cup {NoBucket}]]
         /\ \A l \in Limiter, k \in Key :
              buckets'[l][k] # NoBucket => buckets'[l][k].units <= Full(RouteOf(l))
         /\ admitted' \in [Route -> [Key -> [Time -> Nat]]]
         /\ \A t \in Route, k \in Key, s \in Time : s > now => admitted'[t][k][s] = 0
<1> DEFINE t0 == RouteOf(l0)
<1>0. t0 \in Route /\ Full(t0) \in Nat /\ Second \in Nat
  BY Routes, Constants
<1>1. TypeOK /\ now \in Nat /\ Time \subseteq Nat
  BY LimiterAssumption DEF Inv, TypeOK, Time
<1>2. PICK u \in 0..Full(t0) :
         /\ Leave(l0, k0, u)
         /\ \/ u + Second <= Credit(t0, buckets[l0][k0], now) /\ Admit(t0, k0)
            \/ u <= Credit(t0, buckets[l0][k0], now) /\ UNCHANGED admitted
  BY <1>1, AllowTakes
<1> HIDE DEF t0
<1>3. u \in Nat /\ u <= Full(t0)
  BY <1>0, <1>2
<1>4. /\ buckets'[l0][k0] = [units |-> u, last |-> now]
      /\ \A l \in Limiter, k \in Key : <<l, k>> # <<l0, k0>> => buckets'[l][k] = buckets[l][k]
      /\ buckets' \in [Limiter -> [Key -> [units : Nat, last : 0..now] \cup {NoBucket}]]
  <2>1. [units |-> u, last |-> now] \in [units : Nat, last : 0..now]
    BY <1>1, <1>3
  <2> QED BY <1>1, <1>2, <2>1 DEF Leave, TypeOK
<1>5. \A l \in Limiter, k \in Key :
         buckets'[l][k] # NoBucket => buckets'[l][k].units <= Full(RouteOf(l))
  <2> SUFFICES ASSUME NEW l \in Limiter, NEW k \in Key, buckets'[l][k] # NoBucket
               PROVE  buckets'[l][k].units <= Full(RouteOf(l))
    OBVIOUS
  <2>1. CASE <<l, k>> = <<l0, k0>>
    BY <1>3, <1>4, <2>1 DEF t0
  <2>2. CASE <<l, k>> # <<l0, k0>>
    BY <1>1, <1>4, <2>2 DEF TypeOK
  <2> QED BY <2>1, <2>2
<1>6. Credit(t0, buckets'[l0][k0], now) = u
  BY <1>0, <1>1, <1>4, FreshCredit
<1>7. /\ admitted \in [Route -> [Key -> [Time -> Nat]]] /\ admitted[t0][k0] \in [Time -> Nat]
      /\ \A t \in Route, k \in Key, s \in Time : s > now => admitted[t][k][s] = 0
  BY <1>0, <1>1 DEF TypeOK, Inv, NothingYet
<1>8. CASE u + Second <= Credit(t0, buckets[l0][k0], now) /\ Admit(t0, k0)
  <2>1. /\ Counted(admitted[t0][k0], 1) \in [Time -> Nat]
        /\ \A s \in Time : /\ s <= now => Counted(admitted[t0][k0], 1)[s] = admitted[t0][k0][s] + 1
                           /\ s > now => Counted(admitted[t0][k0], 1)[s] = admitted[t0][k0][s]
    BY <1>1, <1>7, CountedMore
  <2>2. /\ admitted' \in [Route -> [Key -> [Time -> Nat]]]
        /\ admitted'[t0][k0] = Counted(admitted[t0][k0], 1)
        /\ \A k \in Key : k # k0 => admitted'[t0][k] = admitted[t0][k]
        /\ \A t \in Route : t # t0 => admitted'[t] = admitted[t]
    BY <1>0, <1>7, <1>8, <2>1 DEF Admit
  <2>3. ASSUME NEW t \in Route, NEW k \in Key, NEW s \in Time, s > now
        PROVE  admitted'[t][k][s] = 0
    <3>1. admitted[t][k][s] = 0
      BY <1>7, <2>3
    <3>2. CASE t # t0 \/ k # k0
      BY <2>2, <3>1, <3>2
    <3>3. CASE t = t0 /\ k = k0
      <4>1. Counted(admitted[t0][k0], 1)[s] = admitted[t0][k0][s]
        BY <2>1, <2>3
      <4> QED BY <2>2, <3>1, <3>3, <4>1
    <3> QED BY <3>2, <3>3
  <2>4. ASSUME NEW k \in Key, NEW s \in Time, s <= now
        PROVE  admitted'[t0][k][s] = IF k = k0 THEN admitted[t0][k][s] + 1 ELSE admitted[t0][k][s]
    BY <2>1, <2>2, <2>4
  <2>5. Credit(t0, buckets'[l0][k0], now) + 1 * Second <= Credit(t0, buckets[l0][k0], now)
    BY <1>0, <1>6, <1>8
  <2>6. Takes(l0, k0, 1)
    BY <1>3, <1>4, <1>6, <2>2, <2>4, <2>5 DEF Takes, t0
  <2> QED BY <1>4, <1>5, <2>2, <2>3, <2>6
<1>9. CASE u <= Credit(t0, buckets[l0][k0], now) /\ UNCHANGED admitted
  <2>1. Credit(t0, buckets'[l0][k0], now) + 0 * Second <= Credit(t0, buckets[l0][k0], now)
    BY <1>0, <1>3, <1>6, <1>9
  <2>2. \A k \in Key, s \in Time : admitted[t0][k][s] \in Nat
    BY <1>0, <1>7
  <2>3. Takes(l0, k0, 0)
    BY <1>3, <1>4, <1>6, <1>9, <2>1, <2>2 DEF Takes, t0
  <2> QED BY <1>4, <1>5, <1>7, <1>9, <2>3
<1> QED BY <1>2, <1>8, <1>9

\* A request at a strict limiter.
LEMMA StrictInv ==
  ASSUME Inv, NEW l0 \in Strict, NEW k0 \in Key, StrictRateLimitMiddleware(l0, k0)
  PROVE  Inv'
<1>1. /\ Allow(l0, k0, RateFor(l0, 0)) /\ RateFor(l0, 0) \in Rates(RouteOf(l0)) /\ l0 \in Limiter
      /\ UNCHANGED <<now, globalRateLimiter, initing, held, replaced, late>>
      /\ TypeOK /\ RouteOf(l0) = l0 /\ l0 \in Route /\ l0 # "global"
  BY Routes, LimiterAssumption DEF StrictRateLimitMiddleware, RateFor, Rates, Inv
<1>2. PICK more \in {0, 1} : Takes(l0, k0, more)
  BY <1>1, AllowEffect
<1>3. TypeOK' /\ NothingYet'
  BY <1>1, AllowEffect DEF TypeOK, Inv, NothingYet
<1>4. StrictBound'
  <2>1. ASSUME NEW l \in Strict, NEW k \in Key, NEW s \in 0..now
        PROVE  admitted'[l][k][s] * Second + Credit(l, buckets'[l][k], now) <= Full(l) + Worth(l) * (now - s)
    <3>0. /\ admitted[l][k][s] * Second + Credit(l, buckets[l][k], now) <= Full(l) + Worth(l) * (now - s)
          /\ s \in Time /\ s <= now /\ l \in Limiter /\ l \in Route
      BY <1>1, Moments, Routes DEF Inv, StrictBound
    <3>1. CASE l # l0 \/ k # k0
      <4>1. buckets'[l][k] = buckets[l][k]
        BY <1>2, <3>0, <3>1 DEF Takes
      <4>2. admitted'[l][k][s] = admitted[l][k][s]
        BY <1>1, <1>2, <3>0, <3>1 DEF Takes
      <4> QED BY <3>0, <4>1, <4>2
    <3>2. CASE l = l0 /\ k = k0
      <4>1. admitted'[l][k][s] = admitted[l][k][s] + more
        BY <1>1, <1>2, <3>0, <3>2 DEF Takes
      <4>2. /\ admitted[l][k][s] \in Nat /\ Second \in Nat /\ Full(l) \in Nat
            /\ Worth(l) * (now - s) \in Nat /\ admitted[l][k][s] * Second \in Nat
        BY <1>1, <3>0, CountTypes, Constants
      <4>3. (admitted[l][k][s] + more) * Second = admitted[l][k][s] * Second + more * Second
        BY <4>2, Products
      <4>4. /\ Credit(l, buckets'[l][k], now) + more * Second <= Credit(l, buckets[l][k], now)
            /\ Credit(l, buckets'[l][k], now) \in Nat
        BY <1>1, <1>2, <3>2 DEF Takes
      <4>5. Credit(l, buckets[l][k], now) \in Nat
        <5>1. buckets[l][k] \in Bucket(l, now) /\ now \in Nat
          BY <1>1, <3>0, BucketTypes, Routes
        <5>2. Credit(l, buckets[l][k], now) \in 0..Full(l)
          BY <3>0, <5>1, CreditRange
        <5> QED BY <4>2, <5>2
      <4>6. more * Second \in Nat
        BY <4>2
      <4> QED BY <3>0, <4>1, <4>2, <4>3, <4>4, <4>5, <4>6
    <3> QED BY <3>1, <3>2
  <2> QED BY <1>1, <2>1 DEF StrictBound
<1>5. GlobalBound'
  <2>1. Late' = Late /\ admitted'["global"] = admitted["global"]
    BY <1>1, <1>2, Routes DEF Late, Takes
  <2>2. ASSUME NEW k \in Key PROVE Place(k)' = Place(k)
    <3>1. CASE globalRateLimiter = NoLimiter
      BY <1>1, <3>1 DEF Place
    <3>2. CASE globalRateLimiter # NoLimiter
      <4>1. globalRateLimiter \in Limiter /\ globalRateLimiter # l0
        BY <1>1, <3>2, Routes DEF TypeOK
      <4>2. buckets'[globalRateLimiter][k] = buckets[globalRateLimiter][k]
        BY <1>2, <4>1 DEF Takes
      <4> QED BY <1>1, <4>2 DEF Place
    <3> QED BY <3>1, <3>2
  <2> QED BY <1>1, <2>1, <2>2 DEF Inv, GlobalBound
<1> QED BY <1>3, <1>4, <1>5 DEF Inv

\* A request at the global limiter that it has, in its place or not.
LEMMA GlobalInv ==
  ASSUME Inv, NEW r \in Request, NEW k0 \in Key, RateLimitMiddleware(r, k0)
  PROVE  Inv'
<1>1. PICK custom \in KeyRps \cup {0} : Allow(held[r], k0, RateFor("global", custom))
  BY DEF RateLimitMiddleware
<1>2. /\ held[r] # NoLimiter /\ held' = [held EXCEPT ![r] = NoLimiter]
      /\ UNCHANGED <<now, globalRateLimiter, initing, replaced, late>>
      /\ TypeOK /\ held \in [Request -> Request \cup {NoLimiter}]
  BY DEF RateLimitMiddleware, Inv, TypeOK
<1>3. PICK l0 \in Request : l0 = held[r]
  BY <1>2
<1>4. /\ l0 \in Limiter /\ RouteOf(l0) = "global" /\ "global" \in Route /\ "global" \notin Strict
      /\ RateFor("global", custom) \in Rates(RouteOf(l0))
  BY <1>3, Routes, LimiterAssumption DEF RateFor, Rates
<1>5. PICK more \in {0, 1} : Takes(l0, k0, more)
  BY <1>1, <1>2, <1>3, <1>4, AllowEffect
<1>6. TypeOK' /\ NothingYet'
  <2>1. held' \in [Request -> Request \cup {NoLimiter}]
    BY <1>2
  <2> QED BY <1>1, <1>2, <1>3, <1>4, <2>1, AllowEffect DEF TypeOK, Inv, NothingYet
<1>7. StrictBound'
  <2>1. \A l \in Strict, k \in Key : admitted'[l] = admitted[l] /\ buckets'[l][k] = buckets[l][k]
    BY <1>4, <1>5, Routes DEF Takes
  <2> QED BY <1>2, <2>1 DEF Inv, StrictBound
<1>8. /\ Cardinality(Late') \in Nat
      /\ IF l0 = globalRateLimiter THEN Late' = Late
         ELSE Late' = Late \ {r} /\ Cardinality(Late') + 1 = Cardinality(Late)
  <2>1. CASE l0 = globalRateLimiter
    <3>1. Late' = Late
      BY <1>2, <1>3, <2>1 DEF Late
    <3> QED BY <2>1, <3>1, LateCount
  <2>2. CASE l0 # globalRateLimiter
    <3>1. r \in Late /\ Late' = Late \ {r}
      BY <1>2, <1>3, <2>2 DEF Late
    <3>2. Cardinality(Late \ {r}) = Cardinality(Late) - 1 /\ IsFiniteSet(Late \ {r})
      BY <3>1, LateCount, FS_RemoveElement
    <3>3. Cardinality(Late \ {r}) \in Nat
      BY <3>2, FS_CardinalityType
    <3> QED BY <2>2, <3>1, <3>2, <3>3, LateCount
  <2> QED BY <2>1, <2>2
<1>9. Second \in Nat /\ Full("global") \in Nat
  BY <1>4, Constants
<1>10. ASSUME NEW k \in Key PROVE Place(k)' \in 0..Full("global")
  <2>1. CASE globalRateLimiter = NoLimiter
    BY <1>2, <1>9, <2>1 DEF Place
  <2>2. CASE globalRateLimiter # NoLimiter
    <3>1. PICK g \in Request : g = globalRateLimiter
      BY <1>2, <2>2 DEF TypeOK
    <3>2. /\ g \in Limiter /\ RouteOf(g) = "global" /\ g # NoLimiter
      BY Routes
    <3>3. buckets'[g][k] \in Bucket("global", now) /\ now \in Nat
      <4>1. buckets' \in [Limiter -> [Key -> [units : Nat, last : 0..now] \cup {NoBucket}]]
        BY <1>2, <1>6 DEF TypeOK
      <4>2. buckets'[g][k] # NoBucket => buckets'[g][k].units <= Full("global")
        BY <1>6, <3>2 DEF TypeOK
      <4>3. now \in Nat
        BY <1>2 DEF TypeOK, Time
      <4> QED BY <1>9, <3>2, <4>1, <4>2, <4>3 DEF Bucket
    <3>4. Place(k)' = Credit("global", buckets'[g][k], now)
      BY <1>2, <3>1, <3>2 DEF Place
    <3> QED BY <1>4, <3>3, <3>4, CreditRange
  <2> QED BY <2>1, <2>2
<1>11. ASSUME NEW k \in Key, NEW s \in 0..now
       PROVE  admitted'["global"][k][s] * Second + Place(k)' + Cardinality(Late') * Second
                <= admitted["global"][k][s] * Second + Place(k) + Cardinality(Late) * Second
  <2>1. /\ s \in Time /\ s <= now /\ admitted["global"][k][s] \in Nat
        /\ admitted["global"][k][s] * Second \in Nat /\ Cardinality(Late) \in Nat
    BY <1>2, <1>4, Moments, CountTypes
  <2>2. PICK n \in {0, 1} : /\ admitted'["global"][k][s] = admitted["global"][k][s] + n
                            /\ n = IF k = k0 THEN more ELSE 0
    BY <1>4, <1>5, <2>1 DEF Takes
  <2>3. Place(k) \in Nat /\ Place(k)' \in Nat
    <3>1. Place(k) \in 0..Full("global")
      BY <1>2, PlaceRange
    <3>2. Place(k)' \in 0..Full("global")
      BY <1>10
    <3> QED BY <1>9, <3>1, <3>2
  <2>4. admitted'["global"][k][s] * Second = admitted["global"][k][s] * Second + n * Second
    BY <1>9, <2>1, <2>2, Products
  <2>5. n * Second \in Nat /\ n * Second <= Second
    BY <1>9
  <2>6. CASE l0 = globalRateLimiter
    <3>1. Place(k) = Credit("global", buckets[l0][k], now) /\ Place(k)' = Credit("global", buckets'[l0][k], now)
      BY <1>2, <1>3, <2>6 DEF Place
    <3>2. Place(k)' + n * Second <= Place(k)
      <4>1. CASE k = k0
        BY <1>4, <1>5, <2>2, <3>1, <4>1 DEF Takes
      <4>2. CASE k # k0
        BY <1>4, <1>5, <1>9, <2>2, <2>3, <3>1, <4>2 DEF Takes
      <4> QED BY <4>1, <4>2
    <3>3. Cardinality(Late') * Second = Cardinality(Late) * Second /\ Cardinality(Late) * Second \in Nat
      BY <1>8, <1>9, <2>1, <2>6
    <3> QED BY <2>1, <2>3, <2>4, <2>5, <3>2, <3>3
  <2>7. CASE l0 # globalRateLimiter
    <3>1. Place(k)' = Place(k)
      <4>1. CASE globalRateLimiter = NoLimiter
        BY <1>2, <4>1 DEF Place
      <4>2. CASE globalRateLimiter # NoLimiter
        <5>1. globalRateLimiter \in Limiter
          BY <1>2, <4>2, Routes DEF TypeOK
        <5>2. buckets'[globalRateLimiter][k] = buckets[globalRateLimiter][k]
          BY <1>5, <2>7, <5>1 DEF Takes
        <5> QED BY <1>2, <5>2 DEF Place
      <4> QED BY <4>1, <4>2
    <3>2. Cardinality(Late) * Second = Cardinality(Late') * Second + Second /\ Cardinality(Late') * Second \in Nat
      <4>1. PICK c \in Nat : c = Cardinality(Late') /\ Cardinality(Late) = c + 1
        BY <1>8, <2>7
      <4>2. (c + 1) * Second = c * Second + 1 * Second /\ 1 * Second = Second /\ c * Second \in Nat
        BY <1>9, Products
      <4> QED BY <4>1, <4>2
    <3> QED BY <1>9, <2>1, <2>3, <2>4, <2>5, <3>1, <3>2
  <2> QED BY <2>6, <2>7
<1>12. GlobalBound'
  <2>1. ASSUME NEW k \in Key, NEW s \in 0..now
        PROVE  admitted'["global"][k][s] * Second + Place(k)' + Cardinality(Late') * Second
                 <= (1 + replaced[s]) * Full("global") + late[s] * Second + Worth("global") * (now - s)
    <3>1. admitted["global"][k][s] * Second + Place(k) + Cardinality(Late) * Second
            <= (1 + replaced[s]) * Full("global") + late[s] * Second + Worth("global") * (now - s)
      BY DEF Inv, GlobalBound
    <3>2. /\ admitted["global"][k][s] * Second \in Nat /\ Cardinality(Late) * Second \in Nat
          /\ (1 + replaced[s]) * Full("global") \in Nat /\ late[s] * Second \in Nat
          /\ Worth("global") * (now - s) \in Nat
      BY <1>2, <1>4, CountTypes
    <3>3. Place(k) \in Nat
      BY <1>2, <1>9, PlaceRange
    <3>4. /\ admitted'["global"][k][s] * Second \in Nat /\ Cardinality(Late') * Second \in Nat
          /\ Place(k)' \in Nat
      <4>1. admitted'["global"][k][s] \in Nat
        BY <1>2, <1>4, <1>6, Moments DEF TypeOK
      <4>2. Place(k)' \in 0..Full("global")
        BY <1>10
      <4> QED BY <1>8, <1>9, <4>1, <4>2, Products
    <3> QED BY <1>11, <3>1, <3>2, <3>3, <3>4
  <2> QED BY <1>2, <2>1 DEF GlobalBound
<1> QED BY <1>6, <1>7, <1>12 DEF Inv

-----------------------------------------------------------------------------
(* The limiters are made, loaded and cleaned up *)

\* A request has found no limiter, or has loaded one that is in its place.
LEMMA LoadInv ==
  ASSUME Inv, NEW r \in Request, FindNoLimiter(r) \/ LoadLimiter(r)
  PROVE  Inv'
<1>1. /\ UNCHANGED <<now, globalRateLimiter, buckets, admitted, replaced, late>>
      /\ initing' \subseteq Request /\ held' \in [Request -> Request \cup {NoLimiter}]
  BY DEF FindNoLimiter, LoadLimiter, Inv, TypeOK
<1>2. Late' = Late
  BY DEF FindNoLimiter, LoadLimiter, Late, Inv, TypeOK
<1>3. TypeOK' /\ NothingYet' /\ StrictBound'
  BY <1>1 DEF Inv, TypeOK, NothingYet, StrictBound
<1>4. GlobalBound'
  BY <1>1, <1>2 DEF Inv, GlobalBound, Place
<1> QED BY <1>3, <1>4 DEF Inv

\* A limiter in the place of another starts with full buckets, and one burst more, and
\* the requests that have the other are late.
LEMMA InitRateLimiterInv ==
  ASSUME Inv, NEW r \in Request, InitRateLimiter(r)
  PROVE  Inv'
<1>1. /\ TypeOK /\ r \in Limiter /\ r # NoLimiter /\ "global" \in Route /\ r \notin Strict
      /\ UNCHANGED <<now, held, admitted>> /\ globalRateLimiter' = r
      /\ buckets' = [buckets EXCEPT ![r] = NoBuckets]
  BY Routes DEF Inv, InitRateLimiter
<1>2. /\ buckets'[r] = NoBuckets
      /\ \A l \in Limiter : l # r => buckets'[l] = buckets[l]
      /\ buckets' \in [Limiter -> [Key -> [units : Nat, last : 0..now] \cup {NoBucket}]]
  BY <1>1 DEF TypeOK, NoBuckets
<1>3. Second \in Nat /\ Full("global") \in Nat /\ Cardinality(Users) \in Nat
  BY <1>1, Constants, LateCount
<1> DEFINE first == globalRateLimiter = NoLimiter
<1>4. /\ replaced' \in [Time -> Nat] /\ late' \in [Time -> Nat]
      /\ \A s \in Time :
           /\ s > now => replaced'[s] = replaced[s] /\ late'[s] = late[s]
           /\ s <= now => /\ replaced'[s] = IF first THEN replaced[s] ELSE replaced[s] + 1
                          /\ late'[s] = IF first THEN late[s] ELSE late[s] + Cardinality(Users)
  <2>1. replaced \in [Time -> Nat] /\ late \in [Time -> Nat] /\ 1 \in Nat
    BY <1>1 DEF TypeOK
  <2>2. CASE first
    <3>1. replaced' = replaced /\ late' = late
      BY <2>2 DEF InitRateLimiter
    <3> QED BY <2>1, <2>2, <3>1
  <2>3. CASE ~first
    <3>1. replaced' = Counted(replaced, 1) /\ late' = Counted(late, Cardinality(Users))
      BY <2>3 DEF InitRateLimiter
    <3>2. /\ replaced' \in [Time -> Nat]
          /\ \A s \in Time : /\ s <= now => replaced'[s] = replaced[s] + 1
                             /\ s > now => replaced'[s] = replaced[s]
      BY <1>1, <2>1, <3>1, CountedMore
    <3>3. /\ late' \in [Time -> Nat]
          /\ \A s \in Time : /\ s <= now => late'[s] = late[s] + Cardinality(Users)
                             /\ s > now => late'[s] = late[s]
      BY <1>1, <1>3, <2>1, <3>1, CountedMore
    <3> QED BY <2>3, <3>2, <3>3
  <2> QED BY <2>2, <2>3
<1>5. TypeOK'
  <2>1. \A l \in Limiter, k \in Key : buckets'[l][k] # NoBucket => buckets'[l][k].units <= Full(RouteOf(l))
    <3>1. \A k \in Key : buckets'[r][k] = NoBucket
      BY <1>2 DEF NoBuckets
    <3> QED BY <1>1, <1>2, <3>1 DEF TypeOK
  <2>2. initing' \subseteq Request
    BY <1>1 DEF InitRateLimiter, TypeOK
  <2> QED BY <1>1, <1>2, <1>4, <2>1, <2>2 DEF TypeOK
<1>6. NothingYet'
  BY <1>1, <1>4 DEF Inv, NothingYet
<1>7. StrictBound'
  <2>1. \A l \in Strict : buckets'[l] = buckets[l]
    BY <1>1, <1>2, Routes
  <2> QED BY <1>1, <2>1 DEF Inv, StrictBound
<1>8. /\ Cardinality(Late') \in Nat
      /\ first => Cardinality(Late') <= Cardinality(Late)
      /\ ~first => Cardinality(Late') <= Cardinality(Late) + Cardinality(Users)
  <2>0. IsFiniteSet(Late) /\ IsFiniteSet(Users)
    BY LateCount
  <2>1. Late' \subseteq Late \cup Users
    BY <1>1 DEF Late, Users
  <2>2. first => Late' \subseteq Late
    BY <1>1 DEF Late
  <2>3. /\ IsFiniteSet(Late \cup Users)
        /\ Cardinality(Late \cup Users) = Cardinality(Late) + Cardinality(Users) - Cardinality(Late \cap Users)
    BY <2>0, FS_Union
  <2>4. IsFiniteSet(Late \cap Users)
    BY <2>0, FS_Intersection
  <2>5. Cardinality(Late \cap Users) \in Nat /\ Cardinality(Late) \in Nat /\ Cardinality(Users) \in Nat
    BY <2>0, <2>4, FS_CardinalityType
  <2>6. Cardinality(Late') <= Cardinality(Late \cup Users) /\ IsFiniteSet(Late')
    BY <2>1, <2>3, FS_Subset
  <2>7. Cardinality(Late') \in Nat
    BY <2>6, FS_CardinalityType
  <2>8. first => Cardinality(Late') <= Cardinality(Late)
    BY <2>0, <2>2, FS_Subset
  <2> QED BY <2>3, <2>5, <2>6, <2>7, <2>8
<1>9. GlobalBound'
  <2>1. ASSUME NEW k \in Key, NEW s \in 0..now
        PROVE  admitted["global"][k][s] * Second + Place(k)' + Cardinality(Late') * Second
                 <= (1 + replaced'[s]) * Full("global") + late'[s] * Second + Worth("global") * (now - s)
    <3>1. admitted["global"][k][s] * Second + Place(k) + Cardinality(Late) * Second
            <= (1 + replaced[s]) * Full("global") + late[s] * Second + Worth("global") * (now - s)
      BY DEF Inv, GlobalBound
    <3>2. /\ admitted["global"][k][s] * Second \in Nat /\ Cardinality(Late) * Second \in Nat
          /\ Cardinality(Late) \in Nat /\ replaced[s] \in Nat /\ late[s] \in Nat
          /\ (1 + replaced[s]) * Full("global") \in Nat /\ late[s] * Second \in Nat
          /\ Worth("global") * (now - s) \in Nat /\ s \in Time /\ s <= now
      BY <1>1, CountTypes, Moments
    <3>3. Place(k) \in 0..Full("global")
      BY <1>1, PlaceRange
    <3>4. Place(k)' = Full("global")
      BY <1>1, <1>2 DEF Place, Credit, NoBuckets
    <3>5. Cardinality(Late') * Second \in Nat
      BY <1>3, <1>8, Products
    <3>6. CASE first
      <4>1. Cardinality(Late') * Second <= Cardinality(Late) * Second
        BY <1>3, <1>8, <3>2, <3>6, Products
      <4>2. Place(k) = Full("global") /\ replaced'[s] = replaced[s] /\ late'[s] = late[s]
        BY <1>4, <3>2, <3>6 DEF Place
      <4> QED BY <1>3, <3>1, <3>2, <3>4, <3>5, <4>1, <4>2
    <3>7. CASE ~first
      <4>1. replaced'[s] = replaced[s] + 1 /\ late'[s] = late[s] + Cardinality(Users)
        BY <1>4, <3>2, <3>7
      <4>2. (1 + (replaced[s] + 1)) * Full("global") = (1 + replaced[s]) * Full("global") + Full("global")
        BY <1>3, <3>2
      <4>3. /\ (late[s] + Cardinality(Users)) * Second = late[s] * Second + Cardinality(Users) * Second
            /\ Cardinality(Users) * Second \in Nat
        BY <1>3, <3>2, Products
      <4>4. Cardinality(Late') * Second <= Cardinality(Late) * Second + Cardinality(Users) * Second
        <5>1. Cardinality(Late) + Cardinality(Users) \in Nat
          BY <1>3, <3>2
        <5>2. Cardinality(Late') * Second <= (Cardinality(Late) + Cardinality(Users)) * Second
          BY <1>3, <1>8, <3>7, <5>1, Products
        <5>3. (Cardinality(Late) + Cardinality(Users)) * Second
                = Cardinality(Late) * Second + Cardinality(Users) * Second
          BY <1>3, <3>2, Products
        <5> QED BY <5>2, <5>3
      <4> QED BY <1>3, <3>1, <3>2, <3>3, <3>4, <3>5, <4>1, <4>2, <4>3, <4>4
    <3> QED BY <3>6, <3>7
  <2> QED BY <1>1, <2>1 DEF GlobalBound
<1> QED BY <1>5, <1>6, <1>7, <1>9 DEF Inv

\* A bucket that has been idle for so long has a burst's credit, be it full or not.
LEMMA IdleIsFull ==
  ASSUME TypeOK, NEW l \in Limiter, NEW k \in Key, IdleFor(l, k, Idle)
  PROVE  Credit(RouteOf(l), buckets[l][k], now) = Full(RouteOf(l))
<1> DEFINE b == buckets[l][k]
           t == RouteOf(l)
<1>0. t \in Route /\ b \in Bucket(t, now) /\ now \in Nat
  BY Routes, BucketTypes
<1>9. b # NoBucket /\ now - b.last > Idle
  BY DEF IdleFor
<1> HIDE DEF b, t
<1>1. b.units \in Nat /\ now - b.last \in Nat
  <2>1. b \in [units : 0..Full(t), last : 0..now] /\ Full(t) \in Nat
    BY <1>0, <1>9, Constants DEF Bucket
  <2> QED BY <1>0, <2>1
<1>2. PICK d \in Nat : d = now - b.last
  BY <1>1
<1>3. Worth(t) \in Nat /\ Idle \in Nat /\ Idle <= d
  BY <1>0, <1>2, <1>9, Constants
<1>4. Worth(t) * d \in Nat /\ Worth(t) * Idle \in Nat /\ Worth(t) * Idle <= Worth(t) * d
  BY <1>3, Products
<1>5. PICK p \in Nat : p = Worth(t) * d
  BY <1>4
<1>6. Credit(t, b, now) = Lesser(Full(t), b.units + p)
  BY <1>2, <1>5, <1>9 DEF Credit
<1>7. Full(t) \in Nat /\ Full(t) <= p
  BY <1>0, <1>4, <1>5, Constants
<1>8. Lesser(Full(t), b.units + p) = Full(t)
  BY <1>1, <1>7 DEF Lesser
<1> QED BY <1>6, <1>8 DEF b, t

LEMMA CleanupInv ==
  ASSUME Inv, NEW l0 \in Limiter, Cleanup(l0)
  PROVE  Inv'
<1>1. TypeOK /\ UNCHANGED <<now, globalRateLimiter, initing, held, admitted, replaced, late>>
  BY DEF Inv, Cleanup
<1>2. ASSUME NEW l \in Limiter, NEW k \in Key
      PROVE  \/ buckets'[l][k] = buckets[l][k]
             \/ buckets'[l][k] = NoBucket /\ IdleFor(l, k, Idle)
  BY <1>1 DEF Cleanup, Dropped, TypeOK
<1>3. TypeOK'
  <2>1. buckets' \in [Limiter -> [Key -> [units : Nat, last : 0..now] \cup {NoBucket}]]
    BY <1>1 DEF Cleanup, Dropped, TypeOK
  <2> QED BY <1>1, <1>2, <2>1 DEF TypeOK
<1>4. NothingYet'
  BY <1>1 DEF Inv, NothingYet
<1>5. ASSUME NEW l \in Limiter, NEW k \in Key
      PROVE  Credit(RouteOf(l), buckets'[l][k], now) = Credit(RouteOf(l), buckets[l][k], now)
  BY <1>1, <1>2, IdleIsFull DEF Credit
<1>6. StrictBound'
  <2>1. \A l \in Strict, k \in Key : Credit(l, buckets'[l][k], now) = Credit(l, buckets[l][k], now)
    BY <1>5, Routes
  <2> QED BY <1>1, <2>1 DEF Inv, StrictBound
<1>7. GlobalBound'
  <2>1. Late' = Late
    BY <1>1 DEF Late
  <2>2. ASSUME NEW k \in Key PROVE Place(k)' = Place(k)
    <3>1. CASE globalRateLimiter = NoLimiter
      BY <1>1, <3>1 DEF Place
    <3>2. CASE globalRateLimiter # NoLimiter
      <4>1. globalRateLimiter \in Limiter /\ RouteOf(globalRateLimiter) = "global"
        BY <1>1, <3>2, Routes DEF TypeOK
      <4>2. Credit("global", buckets'[globalRateLimiter][k], now) = Credit("global", buckets[globalRateLimiter][k], now)
        BY <1>5, <4>1
      <4> QED BY <1>1, <4>2 DEF Place
    <3> QED BY <3>1, <3>2
  <2> QED BY <1>1, <2>1, <2>2 DEF Inv, GlobalBound
<1> QED BY <1>3, <1>4, <1>6, <1>7 DEF Inv

LEMMA NextInv == Inv /\ [Next]_vars => Inv'
<1> SUFFICES ASSUME Inv, [Next]_vars PROVE Inv'
  OBVIOUS
<1>1. CASE UNCHANGED vars
  <2>1. Late' = Late /\ \A k \in Key : Place(k)' = Place(k)
    BY <1>1 DEF vars, Late, Place
  <2> QED BY <1>1, <2>1 DEF vars, Inv, TypeOK, NothingYet, StrictBound, GlobalBound
<1> QED BY <1>1, TickInv, LoadInv, InitRateLimiterInv, GlobalInv, StrictInv, CleanupInv DEF Next

(***************************************************************************)
(* The theorems                                                            *)
(***************************************************************************)

\* The invariant: what an address was let in for since s, what the limiter in place can
\* still give it, and the requests that have another, are within the bound.
THEOREM Invariance == Spec => []Inv
BY InitInv, NextInv, PTL DEF Spec

\* Every variable keeps its type: no bucket holds more than its burst, or owes tokens.
THEOREM TypeCorrectness == Spec => []TypeOK
<1>1. Inv => TypeOK
  BY DEF Inv
<1> QED BY <1>1, Invariance, PTL

\* No address gets more than a burst and its time's worth at a limiter, for any rates and
\* bursts, and however many requests race to make the global one and hold what they have
\* loaded.
THEOREM Bounded == Spec => []RateBound
<1>1. Inv => RateBound
  <2> SUFFICES ASSUME Inv, NEW k \in Key, NEW s \in 0..now
               PROVE  /\ \A l \in Strict : admitted[l][k][s] * Second <= Full(l) + Worth(l) * (now - s)
                      /\ admitted["global"][k][s] * Second
                           <= (1 + replaced[s]) * Full("global") + late[s] * Second + Worth("global") * (now - s)
    BY DEF RateBound
  <2>0. TypeOK
    BY DEF Inv
  <2>1. ASSUME NEW l \in Strict PROVE admitted[l][k][s] * Second <= Full(l) + Worth(l) * (now - s)
    <3>1. admitted[l][k][s] * Second + Credit(l, buckets[l][k], now) <= Full(l) + Worth(l) * (now - s)
      BY DEF Inv, StrictBound
    <3>2. admitted[l][k][s] * Second \in Nat /\ Worth(l) * (now - s) \in Nat /\ Full(l) \in Nat
      BY <2>0, Routes, CountTypes, Constants
    <3>3. Credit(l, buckets[l][k], now) \in 0..Full(l)
      BY <2>0, Routes, BucketTypes, CreditRange
    <3> QED BY <3>1, <3>2, <3>3
  <2>2. admitted["global"][k][s] * Second
          <= (1 + replaced[s]) * Full("global") + late[s] * Second + Worth("global") * (now - s)
    <3>1. admitted["global"][k][s] * Second + Place(k) + Cardinality(Late) * Second
            <= (1 + replaced[s]) * Full("global") + late[s] * Second + Worth("global") * (now - s)
      BY DEF Inv, GlobalBound
    <3>2. /\ admitted["global"][k][s] * Second \in Nat /\ Cardinality(Late) * Second \in Nat
          /\ (1 + replaced[s]) * Full("global") \in Nat /\ late[s] * Second \in Nat
          /\ Worth("global") * (now - s) \in Nat /\ Full("global") \in Nat
      BY <2>0, Routes, CountTypes, Constants
    <3>3. Place(k) \in 0..Full("global")
      BY <2>0, PlaceRange
    <3> QED BY <3>1, <3>2, <3>3
  <2> QED BY <2>1, <2>2
<1> QED BY <1>1, Invariance, PTL

\* Who waits for a second is let in, since no bucket owes tokens.
THEOREM RetriesAreAdmitted == Spec => []RetryAdmitted
<1>1. Inv => RetryAdmitted
  <2> SUFFICES ASSUME Inv, NEW l \in Limiter, NEW k \in Key, buckets[l][k] # NoBucket,
                      now - buckets[l][k].last >= Second, NEW rps \in Rates(RouteOf(l))
               PROVE  Refilled(RouteOf(l), buckets[l][k], rps) >= Second
    BY DEF RetryAdmitted
  <2> DEFINE b == buckets[l][k]
             t == RouteOf(l)
  <2>0. t \in Route /\ rps \in Rates(t) /\ b # NoBucket /\ now - b.last >= Second
    BY Routes
  <2>9. b \in Bucket(t, now) /\ now \in Nat
    BY BucketTypes DEF Inv
  <2> HIDE DEF b, t
  <2>1. b.units \in Nat /\ now - b.last \in Nat /\ Second <= now - b.last
    <3>1. b \in [units : 0..Full(t), last : 0..now] /\ Full(t) \in Nat /\ Second \in Nat
      BY <2>0, <2>9, Constants DEF Bucket
    <3> QED BY <2>0, <2>9, <3>1
  <2>2. PICK d \in Nat : d = now - b.last
    BY <2>1
  <2>3. Second \in Nat /\ rps \in Nat /\ 1 <= rps /\ Full(t) \in Nat /\ Second <= Full(t)
    BY <2>0, Constants
  <2>4. rps * d \in Nat /\ d <= rps * d
    <3>1. 1 * d <= rps * d /\ rps * d \in Nat
      BY <2>3, Products
    <3> QED BY <3>1
  <2>5. PICK p \in Nat : p = rps * d
    BY <2>4
  <2>6. Second <= p
    BY <2>1, <2>2, <2>3, <2>4, <2>5
  <2>7. Refilled(t, b, rps) = Lesser(Full(t), b.units + p)
    BY <2>2, <2>5 DEF Refilled
  <2>8. Lesser(Full(t), b.units + p) >= Second
    BY <2>1, <2>3, <2>6 DEF Lesser
  <2> QED BY <2>7, <2>8 DEF b, t
<1> QED BY <1>1, Invariance, PTL
=============================================================================
