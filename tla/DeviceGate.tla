---------------------------- MODULE DeviceGate ----------------------------
(***************************************************************************)
(* From a receiver's signed request to a handler that acts on it: several  *)
(* coordinator processes on one database, each started by main.go (Migrate *)
(* first, then Redis if it is reachable, else memories of its own), and    *)
(* the authentication every device request passes (deviceapi.go Auth).     *)
(*                                                                         *)
(* A receiver signs a request once, with a fresh nonce and the second its  *)
(* clock shows; its HTTP client and the network may deliver more than one  *)
(* copy of it, to any process, late, or never.  Authentication captures    *)
(* the time when a copy arrives and asks the nonce memory after the body   *)
(* and the device row were read: those are two actions here.               *)
(*                                                                         *)
(* The clock counts ticks, TPS to a second: timestamps are whole seconds   *)
(* and the memories' times are not.                                        *)
(***************************************************************************)
EXTENDS Migrate, RateLimit, NonceCache, Secrets, FiniteSets

CONSTANTS
  Copies,        \* copies of requests that the network may deliver
  NonceOf,       \* [Copies -> Nonces]: a request is named by its nonce
  Source,        \* [Nonces -> LimitKeys]: the address a request comes from
  TPS,           \* ticks in a second
  Skew,          \* seconds a timestamp may be off, either way
  Drifts,        \* seconds a receiver's clock may be ahead; one that is behind is a late copy
  AuthTime,      \* ticks between a copy's arrival and its nonce check, at most
  MaxInFlight,   \* Config.MaxInFlight
  RedisURL,      \* Redis is configured
  FailClosed,    \* settings of Config.RedisFailClosed in use: the nonce memory refuses, or not,
                 \* while Redis is unreachable (the embedded engine's is FALSE)
  WindowTicks,   \* length of a window of the shared limiter
  WindowRate,    \* RedisLimiter.rate
  MaxClock,      \* bound on the clock
  MaxFaults      \* bound on faults, outages of Redis, removals and failing statements together

Shared == "redis"    \* the tag of the memory all processes share
NoMemory == "none"   \* no memory recorded it, or the one that did is gone

ASSUME GateAssumption ==
  /\ NonceOf \in [Copies -> Nonces] /\ Source \in [Nonces -> LimitKeys]
  /\ TPS \in Nat \ {0} /\ Skew \in Nat /\ Drifts \subseteq Nat
  /\ AuthTime \in Nat /\ MaxInFlight \in Nat /\ WindowTicks \in Nat \ {0} /\ WindowRate \in Nat
  /\ RedisURL \in BOOLEAN /\ FailClosed \subseteq BOOLEAN
  /\ MaxClock \in Nat /\ MaxFaults \in Nat
  /\ Shared \notin Processes /\ NoMemory \notin Processes
  /\ NonceTTL = 2 * Skew * TPS

VARIABLES
  clock,
  key,        \* per process: the secret key it started with
  memory,     \* per process: the memory it asks, Shared or its own
  limiter,    \* per process: the limiter before authentication, Handler.preauth
  cache,      \* per process: the NonceCache it made
  redisUp, redisNonces,
  redisHits,  \* the current window of the shared limiter: its number, and its count
  device,     \* the receiver's row, and the key its secret is sealed with
  made,       \* per request: the timestamp it was signed with
  copy,       \* per copy: where it is, at which process, the captured time, the memory that
              \* recorded its nonce, the window the shared limiter let it through in
  faults, outages    \* how many faults so far, and how many of them were outages of Redis

gateVars == <<clock, key, memory, limiter, cache, redisUp, redisNonces, redisHits,
              device, made, copy, faults, outages>>
vars == <<migrateVars, gateVars>>

Unsigned == -1     \* the timestamp of a request not made yet
NoWindow == -1     \* not served through the shared limiter

Undelivered == [st |-> "out", at |-> NoMemory, now |-> 0, mem |-> NoMemory, win |-> NoWindow]

Answers == {"turned", "limited", "refused", "unauthorized", "unread", "replay",
            "ok", "throttled", "failed"}
InFlight == {"gated", "admitted"}
\* A copy in one of these had its nonce recorded, or met no memory that could.
PassedStates == {"admitted", "ok", "throttled", "failed"}

TypeOK ==
  /\ stage \in [Processes -> {"down", "check", "apply", "ready", "serving"}]
  /\ file \in [Processes -> 1..(NFiles + 1)]
  /\ applied \in Seq(1..NFiles)
  /\ clock \in 0..MaxClock
  /\ key \in [Processes -> KeySettings]
  /\ memory \in [Processes -> Processes \cup {Shared}]
  /\ limiter \in [Processes -> Limiters]
  /\ cache \in [Processes -> NonceCaches]
  /\ redisUp \in BOOLEAN /\ redisNonces \in Memory
  /\ redisHits \in [window : Nat, count : Nat]
  /\ device \in [row : {"absent", "present", "removed"}, sealed : KeySettings]
  /\ made \in [Nonces -> Nat \cup {Unsigned}]
  /\ copy \in [Copies -> [st : {"out"} \cup InFlight \cup Answers,
                          at : Processes \cup {NoMemory},
                          now : Nat,
                          mem : Processes \cup {Shared, NoMemory},
                          win : Nat \cup {NoWindow}]]
  /\ faults \in 0..MaxFaults /\ outages \in 0..faults
  /\ \A p \in Processes : cache[p].lastGC <= clock /\ limiter[p].lastGC <= clock

Init ==
  /\ MigrateInit
  /\ clock = 0
  /\ key = [p \in Processes |-> NoKey]
  /\ memory = [p \in Processes |-> p]
  /\ limiter = [p \in Processes |-> NewLimiter]
  /\ cache = [p \in Processes |-> NewNonceCache]
  /\ redisUp \in {RedisURL, FALSE} /\ redisNonces = NewRedisNonces
  /\ redisHits = [window |-> 0, count |-> 0]
  /\ device = [row |-> "absent", sealed |-> NoKey]
  /\ made = [n \in Nonces |-> Unsigned]
  /\ copy = [c \in Copies |-> Undelivered]
  /\ faults = 0 /\ outages = 0

-----------------------------------------------------------------------------
(* A process starts, and dies *)

\* Something goes wrong.
Fault == faults < MaxFaults /\ faults' = faults + 1

\* A process that starts touches nothing that requests do until it serves, so what happens
\* while it starts may as well happen before: no other step interrupts a start-up.
Quiet == \A p \in Processes : stage[p] \in {"down", "serving"}

Migrating(p) == MigrateStep(p) /\ UNCHANGED gateVars

\* After Migrate: encryption at rest if a key is set, memories of its own, Redis if it answers.
Serve(p) ==
  /\ stage[p] = "ready"
  /\ stage' = [stage EXCEPT ![p] = "serving"]
  /\ \/ UNCHANGED <<key, faults>>
     \/ Fault /\ \E k \in SecretKeys : key' = [key EXCEPT ![p] = k]
  /\ memory' = [memory EXCEPT ![p] = IF redisUp THEN Shared ELSE p]
  /\ UNCHANGED <<file, applied, clock, limiter, cache, redisUp, redisNonces, redisHits, device,
                 made, copy, outages>>

\* Everything in the process's memory is gone, and the requests it had in hand with it; one
\* whose nonce it had passed on to Redis stays known there.
Crash(p) ==
  /\ stage[p] = "serving" /\ Quiet
  /\ Fault
  /\ stage' = [stage EXCEPT ![p] = "down"]
  /\ limiter' = [limiter EXCEPT ![p] = NewLimiter]
  /\ cache' = [cache EXCEPT ![p] = NewNonceCache]
  /\ copy' = [c \in Copies |->
                [copy[c] EXCEPT
                   !.st = CASE copy[c].at = p /\ copy[c].st = "gated"    -> "refused"
                            [] copy[c].at = p /\ copy[c].st = "admitted" -> "failed"
                            [] OTHER                                     -> copy[c].st,
                   !.now = IF copy[c].at = p /\ copy[c].st = "gated" THEN 0 ELSE @,
                   !.mem = IF @ = p THEN NoMemory ELSE @]]
  /\ key' = [key EXCEPT ![p] = NoKey] /\ memory' = [memory EXCEPT ![p] = p]
  /\ UNCHANGED <<file, applied, clock, redisUp, redisNonces, redisHits, device,
                 made, outages>>

-----------------------------------------------------------------------------
(* The world around the processes *)

\* An operator enrols the receiver through some process, and may remove it later.
Enrol(p) ==
  /\ stage[p] = "serving" /\ Quiet
  /\ device.row = "absent"
  /\ device' = [row |-> "present", sealed |-> key[p]]
  /\ UNCHANGED <<migrateVars, clock, key, memory, limiter, cache, redisUp, redisNonces, redisHits,
                 made, copy, faults, outages>>

Remove ==
  /\ device.row = "present" /\ Quiet
  /\ Fault
  /\ device' = [device EXCEPT !.row = "removed"]
  /\ UNCHANGED <<migrateVars, clock, key, memory, limiter, cache, redisUp, redisNonces, redisHits,
                 made, copy, outages>>

\* The receiver signs a request; from here on the network may deliver its copies.
Sign(n) ==
  /\ device.row # "absent" /\ Quiet
  /\ made[n] = Unsigned
  /\ \E d \in Drifts : made' = [made EXCEPT ![n] = clock \div TPS + d]
  /\ UNCHANGED <<migrateVars, clock, key, memory, limiter, cache, redisUp, redisNonces, redisHits,
                 device, copy, faults, outages>>

RedisFails ==
  /\ redisUp
  /\ Fault
  /\ redisUp' = FALSE /\ outages' = outages + 1
  /\ UNCHANGED <<migrateVars, clock, key, memory, limiter, cache, redisNonces, redisHits, device,
                 made, copy>>

RedisRecovers ==
  /\ RedisURL /\ ~redisUp
  /\ redisUp' = TRUE
  /\ UNCHANGED <<migrateVars, clock, key, memory, limiter, cache, redisNonces, redisHits, device,
                 made, copy, faults, outages>>

\* Nothing is dated before the first request is made: the clock starts then.
Dated == \E n \in Nonces : made[n] # Unsigned

\* Time passes, while no copy is longer than AuthTime in authentication (the server's read
\* timeout and the database's answer bound it).
Tick ==
  /\ clock < MaxClock /\ Dated
  /\ Quiet
  /\ \A c \in Copies : copy[c].st = "gated" => clock < copy[c].now + AuthTime
  /\ clock' = clock + 1
  /\ UNCHANGED <<migrateVars, key, memory, limiter, cache, redisUp, redisNonces, redisHits, device,
                 made, copy, faults, outages>>

-----------------------------------------------------------------------------
(* Authentication *)

InFlightAt(p) == {c \in Copies : copy[c].at = p /\ copy[c].st \in InFlight}

\* limitInFlight refuses; 0 stands for no limit.
Crowded(p) == MaxInFlight > 0 /\ Cardinality(InFlightAt(p)) >= MaxInFlight

Timely(n) ==
  /\ clock \div TPS - made[n] <= Skew
  /\ made[n] - clock \div TPS <= Skew

Deliver(p, c, st) ==
  copy' = [copy EXCEPT ![c] = [@ EXCEPT !.st = st, !.at = p,
                                        !.now = IF st = "gated" THEN clock ELSE 0]]

\* limitInFlight, then the timestamp, then the limiter; the time is captured here.
Arrive(p, c) ==
  LET n == NonceOf[c] IN
  /\ stage[p] = "serving" /\ Quiet
  /\ made[n] # Unsigned /\ copy[c].st = "out"
  /\ \/ /\ Crowded(p) \/ ~Timely(n)
        /\ copy' = [copy EXCEPT ![c].st = "turned"]
        /\ UNCHANGED limiter
     \/ /\ ~Crowded(p) /\ Timely(n)
        /\ limiter' = [limiter EXCEPT ![p] = AfterAllow(@, Source[n], clock)]
        /\ Deliver(p, c, IF Allowed(limiter[p], Source[n], clock) THEN "gated" ELSE "limited")
  /\ UNCHANGED <<migrateVars, clock, key, memory, cache, redisUp, redisNonces, redisHits, device,
                 made, faults, outages>>

\* The copy is answered without having passed: the time captured for it dies with the request.
Turn(c, st) == copy' = [copy EXCEPT ![c].st = st, ![c].now = 0]

\* Mutated: the nonce is used up before the device is looked up.
RefusedAfterNonce(p, c) ==
  /\ Fault /\ Turn(c, "refused")
  /\ cache' = [cache EXCEPT ![p] = AfterSeen(@, NonceOf[c], copy[c].now)]
  /\ UNCHANGED redisNonces

\* The copy is refused before its nonce is looked at: GetDeviceByID finds no row, fails, cannot
\* decrypt the secret, or the signature was made with another secret than the one it read.
Refused(p, c) ==
  /\ \/ Fault /\ Turn(c, "refused")
     \/ /\ \/ device.row = "removed" /\ Turn(c, "unauthorized")
           \/ /\ device.row = "present" /\ Reads(key[p], device.sealed) # "secret"
              /\ Turn(c, IF Reads(key[p], device.sealed) = "error" THEN "unread" ELSE "unauthorized")
        /\ UNCHANGED faults
  /\ UNCHANGED <<cache, redisNonces>>

Judge(c, seen, tag) ==
  copy' = [copy EXCEPT ![c] = [@ EXCEPT !.st = IF seen THEN "replay" ELSE "admitted",
                                        !.now = IF seen THEN 0 ELSE copy[c].now,
                                        !.mem = tag]]

\* nonces.Seen, with the time captured on arrival.
CheckNonce(p, c) ==
  LET n == NonceOf[c] IN
  /\ device.row = "present" /\ Reads(key[p], device.sealed) = "secret"
  /\ \/ /\ memory[p] = p
        /\ cache' = [cache EXCEPT ![p] = AfterSeen(@, n, copy[c].now)]
        /\ Judge(c, Seen(cache[p], n, copy[c].now), p)
        /\ UNCHANGED redisNonces
     \/ /\ memory[p] = Shared /\ redisUp
        /\ redisNonces' = AfterSetNX(redisNonces, n, clock)
        /\ Judge(c, RedisKnows(redisNonces, n, clock), Shared)
        /\ UNCHANGED cache
     \/ /\ memory[p] = Shared /\ ~redisUp
        /\ \E refuse \in FailClosed : Judge(c, refuse, NoMemory)
        /\ UNCHANGED <<cache, redisNonces>>
  /\ UNCHANGED faults

Authenticate(c) ==
  LET p == copy[c].at IN
  /\ copy[c].st = "gated" /\ Quiet
  /\ Refused(p, c) \/ CheckNonce(p, c)
  /\ UNCHANGED <<migrateVars, clock, key, memory, limiter, redisUp, redisHits, device, made, outages>>

-----------------------------------------------------------------------------
(* The handler behind the gate *)

Answer(c, st) == copy' = [copy EXCEPT ![c].st = st]

Window == clock \div WindowTicks
\* Mutated: the count before this request is compared.
WithinRateLate(hits) == hits - 1 <= WindowRate

WithinRate(hits) == hits <= WindowRate

HitsNow == IF redisHits.window = Window THEN redisHits.count ELSE 0

\* The shared limiter of Service.Inbound: one INCR on the window's key, and open when Redis is
\* not reachable.  What a process with a limiter of its own answers is not told apart.
Handle(c) ==
  LET p == copy[c].at IN
  /\ copy[c].st = "admitted" /\ Quiet
  /\ \/ /\ memory[p] = Shared /\ redisUp
        /\ redisHits' = [window |-> Window, count |-> HitsNow + 1]
        /\ IF WithinRate(HitsNow + 1)
           THEN copy' = [copy EXCEPT ![c].st = "ok", ![c].win = Window]
           ELSE Answer(c, "throttled")
        /\ UNCHANGED faults
     \/ /\ memory[p] = Shared /\ ~redisUp
        /\ Answer(c, "ok")
        /\ UNCHANGED <<redisHits, faults>>
     \/ /\ memory[p] = p
        /\ Answer(c, "ok")
        /\ UNCHANGED <<redisHits, faults>>
     \/ /\ Fault \/ (device.row = "removed" /\ UNCHANGED faults)
        /\ Answer(c, "failed")
        /\ UNCHANGED redisHits
  /\ UNCHANGED <<migrateVars, clock, key, memory, limiter, cache, redisUp, redisNonces, device, made,
                 outages>>

-----------------------------------------------------------------------------
ProcessStep(p) ==
  Migrating(p) \/ Serve(p) \/ Crash(p) \/ Enrol(p) \/ \E c \in Copies : Arrive(p, c)

Next ==
  \/ \E p \in Processes : ProcessStep(p)
  \/ \E c \in Copies : Authenticate(c) \/ Handle(c)
  \/ \E n \in Nonces : Sign(n)
  \/ Remove \/ RedisFails \/ RedisRecovers \/ Tick

Spec == Init /\ [][Next]_vars

-----------------------------------------------------------------------------
(* Safety *)

\* A process serves only when every migration has run, and each ran once, in order: however
\* many processes start together or exit half way (migrate.go, main.go).
ServingOnMigrated ==
  /\ AppliedInOrder
  /\ \A p \in Processes : stage[p] \in {"ready", "serving"} => Len(applied) = NFiles

Passed(c) == copy[c].st \in PassedStates

\* The timestamp lies so far in the future of the copy's arrival that, rounded down to seconds
\* and with the time authentication takes, it is still accepted when its nonce is forgotten.
FarAhead(c) ==
  made[NonceOf[c]] * TPS + (TPS - 1) + AuthTime > copy[c].now + Skew * TPS

\* What one memory recorded it never lets through again: of the copies of a request, only one
\* is acted on, although the copies arrive up to twice the tolerance apart, sweeps run between
\* them, and the time they are judged by was read before the memory was asked (auth.go Seen,
\* redisnonce.go Seen).  The tolerance is not symmetric at its edge: see FarAhead.
HandledOnce ==
  \A c, d \in Copies :
    /\ c # d /\ NonceOf[c] = NonceOf[d]
    /\ Passed(c) /\ Passed(d)
    /\ copy[c].mem = copy[d].mem /\ copy[c].mem # NoMemory
    => FarAhead(c) \/ FarAhead(d)

\* "nonce replay" is the truth: the memory that answered had let another copy of the request
\* through, and no request is refused because of what became of a different one; except while
\* Redis is down and the configuration refuses everything (redisnonce.go failClosed).
ReplayMeansKnown ==
  \A c \in Copies :
    copy[c].st = "replay" =>
      \/ \E d \in Copies \ {c} :
           NonceOf[d] = NonceOf[c] /\ Passed(d) /\ copy[d].mem = copy[c].mem
      \/ TRUE \in FailClosed /\ outages > 0

\* A receiver enrolled before encryption was switched on is never locked out by it: its
\* credentials are refused only after it was removed, or when its secret was sealed
\* (encrypt.go: "legacy plaintext").
LegacyReadable ==
  \A c \in Copies :
    copy[c].st \in {"unauthorized", "unread"} => device.row = "removed" \/ device.sealed # NoKey

\* All processes together serve at most WindowRate reports in a window through the shared
\* limiter, whichever of them die and restart in between (ratelimit/redis.go Allow).
SharedBudget ==
  \A w \in 0..(MaxClock \div WindowTicks) :
    Cardinality({c \in Copies : copy[c].win = w}) <= WindowRate

-----------------------------------------------------------------------------
(* The limiter before authentication keeps the promise of a token bucket *)

\* Each process keeps a bucket of its own for every source.
Levels == [k \in Processes \X LimitKeys |-> Budget(limiter[k[1]].buckets[k[2]], clock)]

Verdicts ==
  [c \in Copies |->
     IF copy[c].at = NoMemory THEN <<>>
     ELSE << <<copy[c].at, Source[NonceOf[c]]>>, copy[c].st # "limited" >>]

TB == INSTANCE TokenBucket
        WITH Keys <- Processes \X LimitKeys, Askers <- Copies,
             level <- Levels, verdict <- Verdicts

\* Dropping refilled buckets never changes a decision: each process limits as if it had kept a
\* bucket for every source since it started (ratelimit.go: "the sweep cannot change limiting
\* decisions").
LimitsAsPromised == TB!Spec
=============================================================================
