----------------------------- MODULE NonceCache -----------------------------
(***************************************************************************)
(* The two memories of used nonces a coordinator may run with: the map of  *)
(* its own process (auth/auth.go) and Redis, shared by all processes       *)
(* (auth/redisnonce.go).  Both are values; asking one whether it has seen  *)
(* a nonce also records it.                                                *)
(*                                                                         *)
(* The map is asked with the time its caller captured when the request     *)
(* arrived; Redis counts a key's lifetime by its own clock.                *)
(***************************************************************************)
EXTENDS Integers

CONSTANTS
  Nonces,
  NonceTTL      \* ticks a used nonce is remembered

ASSUME NonceAssumption == NonceTTL \in Nat

Absent == -1
Memory == [Nonces -> Nat \cup {Absent}]    \* when each nonce was used

-----------------------------------------------------------------------------
(* NonceCache: a map and the time of its last sweep *)

NonceCaches == [seen : Memory, lastGC : Int]

\* The zero time of lastGC lies so far back that the first Seen sweeps.
NewNonceCache == [seen |-> [n \in Nonces |-> Absent], lastGC |-> -NonceTTL - 1]

\* Mutated: a sweep forgets what is half as old.
GCNoncesEarly(c, now) ==
  [lastGC |-> now,
   seen |-> [n \in Nonces |-> IF 2 * (now - c.seen[n]) > NonceTTL THEN Absent ELSE c.seen[n]]]

\* At most once per lifetime, forget what is older.
GCNonces(c, now) ==
  IF now - c.lastGC > NonceTTL
  THEN [lastGC |-> now,
        seen |-> [n \in Nonces |-> IF now - c.seen[n] > NonceTTL THEN Absent ELSE c.seen[n]]]
  ELSE c

Seen(c, nonce, now) ==
  LET used == GCNonces(c, now).seen[nonce]
  IN  used # Absent /\ now - used <= NonceTTL

AfterSeen(c, nonce, now) ==
  IF Seen(c, nonce, now) THEN GCNonces(c, now)
  ELSE [GCNonces(c, now) EXCEPT !.seen[nonce] = now]

-----------------------------------------------------------------------------
(* RedisNonceCache: SET key NX with an expiry, on Redis's clock *)

NewRedisNonces == [n \in Nonces |-> Absent]

RedisKnows(redis, nonce, clock) == redis[nonce] # Absent /\ clock - redis[nonce] <= NonceTTL

AfterSetNX(redis, nonce, clock) ==
  IF RedisKnows(redis, nonce, clock) THEN redis ELSE [redis EXCEPT ![nonce] = clock]
=============================================================================
