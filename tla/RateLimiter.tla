---------------------------- MODULE RateLimiter ----------------------------
(***************************************************************************)
(* The token buckets of middleware/ratelimit.go.  A limiter has a bucket for *)
(* each address requests come from, and drops those that have been idle.  The *)
(* strict ones (strict, key generation, signing) are made with their          *)
(* middleware.  The global one is made by the first request that finds none,  *)
(* without a lock, so that one may take the place of another; a request that  *)
(* has loaded the pointer asks the limiter it has, in its place or not.       *)
(*                                                                         *)
(* Time passes in ticks, Second of them to a second.  Buckets are counted in *)
(* units, Second of them to a token, so that a tick at a rate of rps adds    *)
(* rps units.  Rounding of floating point tokens is left out.                *)
(***************************************************************************)
EXTENDS Integers, FiniteSets

CONSTANTS
  Key,       \* client addresses
  Request,   \* the requests that are on their way to a global limiter at a time
  Strict,    \* the strict limiters
  Rps,       \* strict limiter, or "global" -> the tokens a second adds
  Burst,     \* likewise -> the tokens a bucket holds
  KeyRps,    \* the rates that API keys have
  Second,    \* the ticks in a second
  Idle,      \* the ticks after which a bucket may be dropped (10 minutes)
  MaxTime,   \* bound: the last tick
  NoLimiter, \* nil
  NoBucket

\* A global limiter is known by the request that made it; one makes one, since
\* there is a limiter from then on.
Limiter == Strict \cup Request

Route == Strict \cup {"global"}

RouteOf(l) == IF l \in Strict THEN l ELSE "global"

\* What the buckets of a route's limiters hold, and the rates they are filled at.
Full(t) == Burst[t] * Second

Rates(t) == {Rps[t]} \cup IF t = "global" THEN KeyRps \ {0} ELSE {}

TopRate(t) == CHOOSE rps \in Rates(t) : \A other \in Rates(t) : other <= rps

Greater(a, b) == IF a >= b THEN a ELSE b

\* What an address can get in a tick in the long run: the highest rate, or a burst in
\* the time after which a bucket is dropped, full or not, for a full one.
Worth(t) == Greater(TopRate(t), (Full(t) + Idle - 1) \div Idle)

\* Rates and bursts come from the environment, where nothing makes them positive; the
\* defaults are 10 and 20.
ASSUME LimiterAssumption ==
  /\ {Second, Idle} \subseteq Nat \ {0} /\ MaxTime \in Nat
  /\ "global" \notin Strict /\ Strict \cap Request = {} /\ IsFiniteSet(Request)
  /\ Rps \in [Route -> Nat \ {0}] /\ Burst \in [Route -> Nat \ {0}] /\ KeyRps \subseteq Nat
  /\ \A t \in Route : TopRate(t) \in Rates(t) /\ \A rps \in Rates(t) : rps <= TopRate(t)
  /\ NoLimiter \notin Limiter /\ NoBucket \notin [units : Nat, last : Nat]

Time == 0..MaxTime

VARIABLES
  now,       \* the time
  globalRateLimiter,
  initing,   \* the requests that have found no global limiter
  held,      \* request -> the global limiter it has loaded and is about to ask
  buckets,   \* limiter -> address -> its bucket
  admitted,  \* route -> address -> tick s -> the requests let in since s
  replaced,  \* tick s -> the global limiters that have lost their place since s
  late       \* tick s -> the requests that had a limiter without a place since s

vars == <<now, globalRateLimiter, initing, held, buckets, admitted, replaced, late>>

NoBuckets == [k \in Key |-> NoBucket]

Init == /\ now = 0
        /\ globalRateLimiter = NoLimiter
        /\ initing = {}
        /\ held = [r \in Request |-> NoLimiter]
        /\ buckets = [l \in Limiter |-> NoBuckets]
        /\ admitted = [t \in Route |-> [k \in Key |-> [s \in Time |-> 0]]]
        /\ replaced = [s \in Time |-> 0]
        /\ late = [s \in Time |-> 0]

\* The requests that are about to ask a limiter that has lost its place.
Late == {r \in Request : held[r] \notin {NoLimiter, globalRateLimiter}}

Tick == /\ now < MaxTime
        /\ now' = now + 1
        /\ late' = [late EXCEPT ![now + 1] = Cardinality(Late)]
        /\ UNCHANGED <<globalRateLimiter, initing, held, buckets, admitted, replaced>>

\* So many more since every tick there has been.
Counted(count, more) == [s \in Time |-> IF s <= now THEN count[s] + more ELSE count[s]]

-----------------------------------------------------------------------------

FindNoLimiter(r) ==
  /\ globalRateLimiter = NoLimiter /\ r \notin initing
  /\ initing' = initing \cup {r}
  /\ UNCHANGED <<now, globalRateLimiter, held, buckets, admitted, replaced, late>>

\* The requests that have the limiter that is in its place.
Users == {r \in Request : held[r] # NoLimiter /\ held[r] = globalRateLimiter}

\* Whoever has found no limiter makes one, if another has made one by now or not.
InitRateLimiter(r) ==
  /\ r \in initing
  /\ initing' = initing \ {r}
  /\ globalRateLimiter' = r
  /\ buckets' = [buckets EXCEPT ![r] = NoBuckets]
  /\ IF globalRateLimiter = NoLimiter THEN UNCHANGED <<replaced, late>>
     ELSE /\ replaced' = Counted(replaced, 1)
          /\ late' = Counted(late, Cardinality(Users))
  /\ UNCHANGED <<now, held, admitted>>

\* The pointer is loaded without a lock, some time before the limiter locks.
LoadLimiter(r) ==
  /\ globalRateLimiter # NoLimiter /\ held[r] = NoLimiter /\ r \notin initing
  /\ held' = [held EXCEPT ![r] = globalRateLimiter]
  /\ UNCHANGED <<now, globalRateLimiter, initing, buckets, admitted, replaced, late>>

Lesser(a, b) == IF a <= b THEN a ELSE b

\* Mutant: the bucket overflows.
RefilledBeyond(t, b, rps) == b.units + rps * (now - b.last)

\* What is in a bucket after the time since it was last asked, at a rate.
Refilled(t, b, rps) == Lesser(Full(t), b.units + rps * (now - b.last))

\* The rate for a request: that of its API key, if it has one and that has a rate.
RateFor(t, custom) == IF custom > 0 THEN custom ELSE Rps[t]

Admit(t, k) == admitted' = [admitted EXCEPT ![t][k] = Counted(admitted[t][k], 1)]

Leave(l, k, units) == buckets' = [buckets EXCEPT ![l][k] = [units |-> units, last |-> now]]

\* Mutant: a request that is refused costs a token, too.
AllowForATokenAlways(l, k, rps) ==
  LET t == RouteOf(l)
  IN  \/ buckets[l][k] = NoBucket /\ Leave(l, k, Full(t) - Second) /\ Admit(t, k)
      \/ /\ buckets[l][k] # NoBucket
         /\ LET units == Refilled(t, buckets[l][k], rps)
            IN  /\ Leave(l, k, units - Second)
                /\ IF units >= Second THEN Admit(t, k) ELSE UNCHANGED admitted

\* A bucket is made with the first request, and that is let in.
Allow(l, k, rps) ==
  LET t == RouteOf(l)
  IN  \/ buckets[l][k] = NoBucket /\ Leave(l, k, Full(t) - Second) /\ Admit(t, k)
      \/ /\ buckets[l][k] # NoBucket
         /\ LET units == Refilled(t, buckets[l][k], rps)
            IN  IF units >= Second
                THEN Leave(l, k, units - Second) /\ Admit(t, k)
                ELSE Leave(l, k, units) /\ UNCHANGED admitted

\* The API key's rate fills the bucket of the address, which other keys share.
RateLimitMiddleware(r, k) ==
  /\ held[r] # NoLimiter
  /\ \E custom \in KeyRps \cup {0} : Allow(held[r], k, RateFor("global", custom))
  /\ held' = [held EXCEPT ![r] = NoLimiter]
  /\ UNCHANGED <<now, globalRateLimiter, initing, replaced, late>>

StrictRateLimitMiddleware(l, k) ==
  /\ Allow(l, k, RateFor(l, 0))
  /\ UNCHANGED <<now, globalRateLimiter, initing, held, replaced, late>>

IdleFor(l, k, ticks) == buckets[l][k] # NoBucket /\ now - buckets[l][k].last > ticks

Dropped(l, ticks) == [k \in Key |-> IF IdleFor(l, k, ticks) THEN NoBucket ELSE buckets[l][k]]

\* Mutant: the cleanup takes buckets that were idle for a quarter of the time.
CleanupEarly(l) ==
  /\ \E k \in Key : IdleFor(l, k, Idle \div 4)
  /\ buckets' = [buckets EXCEPT ![l] = Dropped(l, Idle \div 4)]
  /\ UNCHANGED <<now, globalRateLimiter, initing, held, admitted, replaced, late>>

\* A tick of cleanupLoop, at any time; the ticker's phase is left open.
Cleanup(l) ==
  /\ \E k \in Key : IdleFor(l, k, Idle)
  /\ buckets' = [buckets EXCEPT ![l] = Dropped(l, Idle)]
  /\ UNCHANGED <<now, globalRateLimiter, initing, held, admitted, replaced, late>>

Next == \/ Tick
        \/ \E r \in Request : \/ FindNoLimiter(r) \/ InitRateLimiter(r) \/ LoadLimiter(r)
                              \/ \E k \in Key : RateLimitMiddleware(r, k)
        \/ \E l \in Strict, k \in Key : StrictRateLimitMiddleware(l, k)
        \/ \E l \in Limiter : Cleanup(l)

Spec == Init /\ [][Next]_vars

-----------------------------------------------------------------------------
(* Properties *)

\* Every variable has its type; no bucket holds more than the burst, or owes tokens.
TypeOK ==
  /\ now \in Time
  /\ globalRateLimiter \in Request \cup {NoLimiter}
  /\ initing \subseteq Request
  /\ held \in [Request -> Request \cup {NoLimiter}]
  /\ buckets \in [Limiter -> [Key -> [units : Nat, last : 0..now] \cup {NoBucket}]]
  /\ \A l \in Limiter, k \in Key :
       buckets[l][k] # NoBucket => buckets[l][k].units <= Full(RouteOf(l))
  /\ admitted \in [Route -> [Key -> [Time -> Nat]]]
  /\ replaced \in [Time -> Nat] /\ late \in [Time -> Nat]

\* Since any moment, an address has been let in for no more requests than a burst and
\* the time since is worth, though buckets are dropped and API keys share them.  On the
\* global route each limiter made in another's place adds one burst, and each request
\* that asks one after that adds itself.
RateBound ==
  \A k \in Key, s \in 0..now :
     /\ \A l \in Strict : admitted[l][k][s] * Second <= Full(l) + Worth(l) * (now - s)
     /\ admitted["global"][k][s] * Second
          <= (1 + replaced[s]) * Full("global") + late[s] * Second + Worth("global") * (now - s)

\* A client whose address sends nothing for a second, as a 429 tells it to ("retry_after"
\* 1), is let in then, whatever it was refused before and at whatever rate.
RetryAdmitted ==
  \A l \in Limiter, k \in Key :
     LET b == buckets[l][k]
     IN  b # NoBucket /\ now - b.last >= Second
           => \A rps \in Rates(RouteOf(l)) : Refilled(RouteOf(l), b, rps) >= Second
=============================================================================
