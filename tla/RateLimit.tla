----------------------------- MODULE RateLimit -----------------------------
(***************************************************************************)
(* The in-process limiter (ratelimit/ratelimit.go): a token bucket per     *)
(* key, made on first use, and a sweep inside Allow that drops the buckets *)
(* that have refilled.  A limiter is a value; Allow maps one to the next.  *)
(*                                                                         *)
(* The code counts tokens in float64 and time in nanoseconds; here both    *)
(* are integers: a token is Unit units, and Refill units flow in per tick. *)
(***************************************************************************)
EXTENDS Integers

CONSTANTS
  LimitKeys,    \* what requests are limited by: source addresses, senders
  Unit,         \* units in one token
  Refill,       \* units a bucket gains per tick: Limiter.rate
  Burst,        \* tokens in a full bucket: Limiter.burst
  GCInterval    \* ticks between two sweeps at least: gcInterval

ASSUME RateAssumption ==
  /\ Unit \in Nat \ {0} /\ Burst \in Nat \ {0}
  /\ Refill \in Nat /\ GCInterval \in Nat

Full == Burst * Unit

Buckets == [tokens : 0..Full, last : Nat]
NoBucket == [tokens |-> -1, last |-> -1]
Limiters == [buckets : [LimitKeys -> Buckets \cup {NoBucket}], lastGC : Int]

\* The zero time of lastGC lies so far back that the first Allow sweeps.
NewLimiter == [buckets |-> [k \in LimitKeys |-> NoBucket], lastGC |-> -GCInterval]

\* A bucket's tokens at time `now', before the cap.
Refilled(b, now) == b.tokens + (now - b.last) * Refill

AtMostFull(t) == IF t > Full THEN Full ELSE t

\* Mutated: every bucket is dropped, not only the full ones.
SweptAnyBucket(buckets, now) == [k \in LimitKeys |-> NoBucket]

\* The buckets that sweeping at `now' leaves.
Swept(buckets, now) ==
  [k \in LimitKeys |->
     IF buckets[k] # NoBucket /\ Refilled(buckets[k], now) >= Full THEN NoBucket ELSE buckets[k]]

GC(l, now) ==
  IF now - l.lastGC < GCInterval THEN l
  ELSE [buckets |-> Swept(l.buckets, now), lastGC |-> now]

\* What `key' has left to spend at `now', as Allow finds it after the sweep.
Budget(b, now) == IF b = NoBucket THEN Full ELSE AtMostFull(Refilled(b, now))

Allowed(l, key, now) == Budget(GC(l, now).buckets[key], now) >= Unit

\* Mutated: a request is charged although it is denied.
AfterAllowCharging(l, key, now) ==
  [GC(l, now) EXCEPT !.buckets[key] =
     [tokens |-> Budget(GC(l, now).buckets[key], now) - Unit, last |-> now]]

\* The limiter after Allow(key) at `now', whichever its answer is.
AfterAllow(l, key, now) ==
  LET swept == GC(l, now)
      budget == Budget(swept.buckets[key], now)
  IN  [swept EXCEPT !.buckets[key] =
         [tokens |-> IF budget >= Unit THEN budget - Unit ELSE budget, last |-> now]]
=============================================================================
