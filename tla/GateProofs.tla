----------------------------- MODULE GateProofs -----------------------------
(***************************************************************************)
(* What holds of the gate for any number of processes, copies, keys and    *)
(* migration files: no process serves on a half-migrated database, what    *)
(* one nonce memory recorded it lets through once, a replay is answered    *)
(* only to a replay, and a receiver enrolled unencrypted keeps working.    *)
(***************************************************************************)
EXTENDS DeviceGate, TLAPS

-----------------------------------------------------------------------------
(* Migrations *)

\* A process that walks the files has left none unapplied behind it; one that is through has
\* seen them all applied.
WalkAt(s, f, n) ==
  /\ s \in {"check", "apply"} => f <= n + 1
  /\ s = "apply" => f <= NFiles
  /\ s \in {"ready", "serving"} => n = NFiles

Walk(p) == WalkAt(stage[p], file[p], Len(applied))

MigrateInv ==
  /\ stage \in [Processes -> {"down", "check", "apply", "ready", "serving"}]
  /\ file \in [Processes -> 1..(NFiles + 1)]
  /\ applied \in Seq(Nat)
  /\ AppliedInOrder
  /\ \A p \in Processes : Walk(p)

\* There is a first file that is not applied, and all before it are.
LEMMA FirstMissingFound ==
  ASSUME applied \in Seq(Nat), AppliedInOrder, NEW f \in 1..(NFiles + 1)
  PROVE  /\ FirstMissing(f) \in f..(NFiles + 1)
         /\ \A h \in f..(FirstMissing(f) - 1) : Recorded(h)
<1> DEFINE P(g) == /\ g <= NFiles => ~Recorded(g)
                   /\ \A h \in f..(g - 1) : Recorded(h)
<1>0. NFiles \in Nat /\ Len(applied) \in Nat /\ DOMAIN applied = 1..Len(applied)
  BY MigrateAssumption
<1>1. \A h \in Nat : Recorded(h) <=> h \in 1..Len(applied)
  BY <1>0 DEF Recorded, AppliedInOrder
<1>2. \E g \in f..(NFiles + 1) : P(g)
  <2>1. CASE f <= Len(applied)
    <3>1. Len(applied) + 1 \in f..(NFiles + 1)
      BY <1>0, <2>1 DEF AppliedInOrder
    <3>2. P(Len(applied) + 1)
      BY <1>0, <1>1, <2>1
    <3> QED BY <3>1, <3>2
  <2>2. CASE f > Len(applied)
    <3>1. P(f)
      BY <1>0, <1>1, <2>2
    <3> QED BY <3>1, <1>0
  <2> QED BY <1>0, <2>1, <2>2
<1>3. FirstMissing(f) = CHOOSE g \in f..(NFiles + 1) : P(g)
  BY DEF FirstMissing
<1> HIDE DEF P
<1>4. FirstMissing(f) \in f..(NFiles + 1) /\ P(FirstMissing(f))
  BY <1>2, <1>3
<1> QED BY <1>4 DEF P

LEMMA MigrateInvInit == Init => MigrateInv
BY MigrateAssumption DEF Init, MigrateInit, MigrateInv, Walk, WalkAt, AppliedInOrder

LEMMA MigrateInvStep == MigrateInv /\ [Next]_vars => MigrateInv'
<1> SUFFICES ASSUME MigrateInv, [Next]_vars PROVE MigrateInv'
  OBVIOUS
<1>0. NFiles \in Nat /\ Len(applied) \in Nat /\ Len(applied) <= NFiles
  BY MigrateAssumption DEF MigrateInv, AppliedInOrder
<1>d. DOMAIN applied = 1..Len(applied)
  BY DEF MigrateInv
<1>1. CASE UNCHANGED migrateVars
  BY <1>1 DEF MigrateInv, Walk, WalkAt, AppliedInOrder, migrateVars
<1>2. ASSUME NEW p \in Processes, MigrateBegin(p) PROVE MigrateInv'
  <2>1. /\ stage' = [stage EXCEPT ![p] = "check"]
        /\ file' = [file EXCEPT ![p] = 1]
        /\ applied' = applied
    BY <1>2 DEF MigrateBegin
  <2>2. \A q \in Processes : Walk(q)'
    <3> TAKE q \in Processes
    <3>1. CASE q = p
      <4>1. stage'[q] = "check" /\ file'[q] = 1
        BY <3>1, <2>1 DEF MigrateInv
      <4> QED BY <4>1, <1>0, <2>1 DEF Walk, WalkAt
    <3>2. CASE q # p
      <4>1. stage'[q] = stage[q] /\ file'[q] = file[q]
        BY <3>2, <2>1 DEF MigrateInv
      <4> QED BY <4>1, <2>1 DEF MigrateInv, Walk
    <3> QED BY <3>1, <3>2
  <2> QED BY <1>0, <1>d, <2>1, <2>2 DEF MigrateInv, AppliedInOrder
<1>3. ASSUME NEW p \in Processes, MigrateCheck(p) PROVE MigrateInv'
  <2> DEFINE f == file[p]
             g == FirstMissing(f)
  <2>1. f \in 1..(NFiles + 1) /\ f <= Len(applied) + 1
    BY <1>3 DEF MigrateInv, Walk, WalkAt, MigrateCheck
  <2>2. /\ g \in f..(NFiles + 1)
        /\ \A h \in f..(g - 1) : Recorded(h)
    BY <2>1, FirstMissingFound DEF MigrateInv
  <2> HIDE DEF f, g
  <2>3. g <= Len(applied) + 1
    <3>1. CASE g = f
      BY <3>1, <2>1
    <3>2. CASE g # f
      <4>1. Recorded(g - 1)
        BY <3>2, <2>1, <2>2, <1>0
      <4>2. g - 1 \in 1..Len(applied)
        BY <4>1, <1>0, <1>d DEF Recorded, MigrateInv, AppliedInOrder
      <4>3. g \in Nat
        BY <2>1, <2>2, <1>0
      <4> QED BY <4>2, <4>3, <1>0
    <3> QED BY <3>1, <3>2
  <2>4. /\ file' = [file EXCEPT ![p] = g]
        /\ stage' = [stage EXCEPT ![p] = IF file'[p] <= NFiles THEN "apply" ELSE "ready"]
        /\ applied' = applied
    BY <1>3 DEF MigrateCheck, f, g
  <2>5. stage' = [stage EXCEPT ![p] = IF g <= NFiles THEN "apply" ELSE "ready"]
    BY <2>4 DEF MigrateInv
  <2>6. g \in 1..(NFiles + 1) /\ (g > NFiles => Len(applied) = NFiles)
    BY <1>0, <2>1, <2>2, <2>3
  <2>7. \A q \in Processes : Walk(q)'
    <3> TAKE q \in Processes
    <3>1. CASE q = p
      <4>1. /\ stage'[q] = IF g <= NFiles THEN "apply" ELSE "ready"
            /\ file'[q] = g
        BY <3>1, <2>4, <2>5 DEF MigrateInv
      <4>2. CASE g <= NFiles
        BY <4>1, <4>2, <2>3, <2>4 DEF Walk, WalkAt
      <4>3. CASE g > NFiles
        BY <4>1, <4>3, <1>0, <2>4, <2>6 DEF Walk, WalkAt
      <4> QED BY <4>2, <4>3, <1>0, <2>6
    <3>2. CASE q # p
      <4>1. stage'[q] = stage[q] /\ file'[q] = file[q]
        BY <3>2, <2>4, <2>5 DEF MigrateInv
      <4> QED BY <4>1, <2>4 DEF MigrateInv, Walk
    <3> QED BY <3>1, <3>2
  <2> QED BY <2>4, <2>5, <2>6, <2>7 DEF MigrateInv, AppliedInOrder
<1>4. ASSUME NEW p \in Processes, MigrateCommit(p) PROVE MigrateInv'
  <2>1. file[p] = Len(applied) + 1 /\ file[p] <= NFiles
    <3>1. file[p] \in Nat /\ file[p] >= 1 /\ file[p] <= Len(applied) + 1 /\ file[p] <= NFiles
      <4>1. file[p] \in 1..(NFiles + 1) /\ Walk(p) /\ stage[p] = "apply"
        BY <1>4 DEF MigrateInv, MigrateCommit
      <4> QED BY <1>0, <4>1 DEF Walk, WalkAt
    <3>2. file[p] \notin 1..Len(applied)
      BY <1>0, <1>d, <1>4 DEF MigrateInv, MigrateCommit, Recorded, AppliedInOrder
    <3> QED BY <1>0, <3>1, <3>2
  <2>2. /\ applied' = Append(applied, file[p])
        /\ file' = [file EXCEPT ![p] = @ + 1]
        /\ stage' = [stage EXCEPT ![p] = "check"]
    BY <1>4 DEF MigrateCommit
  <2>3. applied' \in Seq(Nat) /\ Len(applied') = Len(applied) + 1 /\ AppliedInOrder'
    BY <1>0, <1>d, <2>1, <2>2 DEF MigrateInv, AppliedInOrder
  <2>4. \A q \in Processes : Walk(q)'
    <3> TAKE q \in Processes
    <3>1. CASE q = p
      <4>1. stage'[q] = "check" /\ file'[q] = file[p] + 1
        BY <3>1, <2>2 DEF MigrateInv
      <4> QED BY <4>1, <1>0, <2>1, <2>3 DEF Walk, WalkAt
    <3>2. CASE q # p
      <4>1. stage'[q] = stage[q] /\ file'[q] = file[q] /\ Walk(q)
        BY <3>2, <2>2 DEF MigrateInv
      <4>2. /\ stage[q] \in {"ready", "serving"} => Len(applied) = NFiles
            /\ stage[q] = "apply" => file[q] <= NFiles
            /\ stage[q] \in {"check", "apply"} => file[q] <= Len(applied) + 1
        BY <4>1 DEF Walk, WalkAt
      <4>3. file[q] \in Nat /\ Len(applied) < NFiles
        BY <1>0, <2>1 DEF MigrateInv
      <4>4. stage[q] \in {"ready", "serving"} => FALSE
        BY <4>2, <4>3, <1>0
      <4>5. stage[q] \in {"check", "apply"} => file[q] <= Len(applied') + 1
        BY <4>2, <4>3, <1>0, <2>3
      <4>6. WalkAt(stage[q], file[q], Len(applied'))
        BY <4>2, <4>4, <4>5 DEF WalkAt
      <4> QED BY <4>1, <4>6 DEF Walk
    <3> QED BY <3>1, <3>2
  <2> QED BY <1>0, <2>1, <2>2, <2>3, <2>4 DEF MigrateInv
<1>5. ASSUME NEW p \in Processes, MigrateFail(p) PROVE MigrateInv'
  BY <1>0, <1>5 DEF MigrateInv, Walk, WalkAt, AppliedInOrder, MigrateFail
<1>6. ASSUME NEW p \in Processes, Serve(p) PROVE MigrateInv'
  BY <1>0, <1>6 DEF MigrateInv, Walk, WalkAt, AppliedInOrder, Serve
<1>7. ASSUME NEW p \in Processes, Crash(p) PROVE MigrateInv'
  BY <1>0, <1>7 DEF MigrateInv, Walk, WalkAt, AppliedInOrder, Crash
<1>8. CASE Next
  <2>1. ASSUME NEW p \in Processes, ProcessStep(p) PROVE MigrateInv'
    <3>1. CASE Migrating(p)
      BY <3>1, <1>2, <1>3, <1>4, <1>5 DEF Migrating, MigrateStep
    <3>2. CASE Enrol(p) \/ \E c \in Copies : Arrive(p, c)
      BY <3>2, <1>1 DEF Enrol, Arrive
    <3> QED BY <2>1, <3>1, <3>2, <1>6, <1>7 DEF ProcessStep
  <2>2. CASE \E c \in Copies : Authenticate(c) \/ Handle(c)
    BY <2>2, <1>1 DEF Authenticate, Handle
  <2>3. CASE (\E n \in Nonces : Sign(n)) \/ Remove \/ RedisFails \/ RedisRecovers \/ Tick
    BY <2>3, <1>1 DEF Sign, Remove, RedisFails, RedisRecovers, Tick
  <2> QED BY <1>8, <2>1, <2>2, <2>3 DEF Next
<1> QED BY <1>1, <1>8 DEF vars

\* No process serves before every migration has run, each once and in order, however many
\* processes start together, fail half way, die and start again (migrate.go, main.go).
THEOREM Migrated == Spec => []ServingOnMigrated
<1>1. MigrateInv => ServingOnMigrated
  BY DEF MigrateInv, Walk, WalkAt, ServingOnMigrated
<1> QED BY <1>1, MigrateInvInit, MigrateInvStep, PTL DEF Spec
-----------------------------------------------------------------------------
(* Memories of nonces *)

\* The last tick at which a copy of the request is in authentication.
Horizon(n) == made[n] * TPS + Skew * TPS + (TPS - 1) + AuthTime

\* A nonce recorded at t is remembered for as long as a copy of its request may ask.
Lasts(t, n) == t # Absent /\ Horizon(n) <= t + NonceTTL
Keeps(t, n) == clock <= Horizon(n) => Lasts(t, n)

MadeType == made \in [Nonces -> Nat \cup {Unsigned}]

LEMMA HorizonType ==
  ASSUME MadeType, NEW n \in Nonces
  PROVE  Horizon(n) \in Int
<1>1. PICK a \in Int : a = made[n]
  BY DEF MadeType, Unsigned
<1>2. PICK x, w \in Int : x = a * TPS /\ w = Skew * TPS
  BY <1>1, GateAssumption
<1>3. Horizon(n) = x + w + (TPS - 1) + AuthTime
  BY <1>1, <1>2 DEF Horizon
<1> QED BY <1>2, <1>3, GateAssumption

\* A copy that is not too far ahead of its arrival is remembered long enough.
LEMMA NotAhead ==
  ASSUME MadeType, NEW c \in Copies, copy[c].now \in Nat, ~FarAhead(c)
  PROVE  Horizon(NonceOf[c]) <= copy[c].now + NonceTTL
<1>0. NonceOf[c] \in Nonces
  BY GateAssumption
<1>1. PICK a \in Int : a = made[NonceOf[c]]
  BY <1>0 DEF MadeType, Unsigned
<1>2. PICK x, w \in Int : x = a * TPS /\ w = Skew * TPS
  BY <1>1, GateAssumption
<1>3. Horizon(NonceOf[c]) = x + w + (TPS - 1) + AuthTime
  BY <1>1, <1>2 DEF Horizon
<1>4. ~(x + (TPS - 1) + AuthTime > copy[c].now + w)
  BY <1>1, <1>2 DEF FarAhead
<1>5. NonceTTL = w + w
  BY <1>2, GateAssumption
<1> QED BY <1>2, <1>3, <1>4, <1>5, GateAssumption

\* A copy that is timely when it arrives leaves authentication before the horizon.
LEMMA TimelyBefore ==
  ASSUME MadeType, NEW n \in Nonces, made[n] \in Nat, clock \in Nat, Timely(n)
  PROVE  clock + AuthTime <= Horizon(n)
<1>1. PICK a \in Nat : a = made[n]
  OBVIOUS
<1>2. PICK q \in Nat : q = clock \div TPS
  BY GateAssumption
<1>3. clock <= q * TPS + (TPS - 1)
  BY <1>2, GateAssumption
<1>4. PICK k \in Nat : q + k = a + Skew
  <2>1. q - a <= Skew
    BY <1>1, <1>2 DEF Timely
  <2>2. a + Skew - q \in Nat
    BY <2>1, GateAssumption
  <2> QED BY <2>2, GateAssumption
<1>5. (q + k) * TPS = q * TPS + k * TPS /\ (a + Skew) * TPS = a * TPS + Skew * TPS
  BY GateAssumption
<1>6. k * TPS \in Nat /\ q * TPS \in Nat /\ a * TPS \in Nat /\ Skew * TPS \in Nat
  BY GateAssumption
<1>7. PICK x, y, z, w \in Nat : x = a * TPS /\ y = q * TPS /\ z = k * TPS /\ w = Skew * TPS
  BY <1>6
<1>8. y + z = x + w
  BY <1>4, <1>5, <1>7
<1>9. clock <= y + (TPS - 1)
  BY <1>3, <1>7
<1>10. Horizon(n) = x + w + (TPS - 1) + AuthTime
  BY <1>1, <1>7 DEF Horizon
<1> QED BY <1>7, <1>8, <1>9, <1>10, GateAssumption

LEMMA CacheTypes ==
  ASSUME NEW l \in NonceCaches, NEW now \in Nat
  PROVE  /\ GCNonces(l, now) \in NonceCaches
         /\ \A n \in Nonces :
              \/ GCNonces(l, now).seen[n] = l.seen[n]
              \/ GCNonces(l, now).seen[n] = Absent /\ now - l.seen[n] > NonceTTL
         /\ \A m \in Nonces : AfterSeen(l, m, now) \in NonceCaches
<1>1. PICK swept : swept = [n \in Nonces |-> IF now - l.seen[n] > NonceTTL THEN Absent ELSE l.seen[n]]
  OBVIOUS
<1>2. swept \in Memory /\ l.seen \in Memory /\ l.lastGC \in Int
  BY <1>1 DEF NonceCaches, Memory
<1>3. PICK g : g = [lastGC |-> now, seen |-> swept]
  OBVIOUS
<1>4. g \in NonceCaches /\ g.seen = swept
  BY <1>2, <1>3 DEF NonceCaches
<1>5. GCNonces(l, now) = g \/ GCNonces(l, now) = l
  BY <1>1, <1>3 DEF GCNonces
<1>6. GCNonces(l, now) \in NonceCaches
  BY <1>4, <1>5
<1>7. ASSUME NEW n \in Nonces
      PROVE  \/ GCNonces(l, now).seen[n] = l.seen[n]
             \/ GCNonces(l, now).seen[n] = Absent /\ now - l.seen[n] > NonceTTL
  BY <1>1, <1>4, <1>5
<1>8. ASSUME NEW m \in Nonces PROVE AfterSeen(l, m, now) \in NonceCaches
  <2>1. PICK h \in NonceCaches : h = GCNonces(l, now)
    BY <1>6
  <2>2. [h EXCEPT !.seen[m] = now] \in NonceCaches
    BY DEF NonceCaches, Memory
  <2> QED BY <2>1, <2>2 DEF AfterSeen
<1> QED BY <1>6, <1>7, <1>8

\* Asked by a copy that is in authentication, the map knows what it was to keep, and it keeps
\* the rest: its sweep forgets only what is past its horizon.
LEMMA CacheKeeps ==
  ASSUME MadeType, clock \in Nat, NEW l \in NonceCaches, NEW m \in Nonces, NEW now \in Nat,
         now <= clock, NEW n \in Nonces, Keeps(l.seen[n], n)
  PROVE  /\ n = m /\ clock <= Horizon(n) => Seen(l, m, now)
         /\ Keeps(AfterSeen(l, m, now).seen[n], n)
<1>1. PICK h \in Int : h = Horizon(n)
  BY HorizonType
<1>2. PICK g \in NonceCaches : g = GCNonces(l, now)
  BY CacheTypes
<1>3. SUFFICES ASSUME clock <= h
               PROVE  /\ n = m => Seen(l, m, now)
                      /\ Lasts(AfterSeen(l, m, now).seen[n], n)
  BY <1>1 DEF Keeps
<1>4. PICK t : t = l.seen[n]
  OBVIOUS
<1>5. t \in Nat /\ h <= t + NonceTTL
  BY <1>1, <1>3, <1>4 DEF Keeps, Lasts, NonceCaches, Memory
<1>6. now - t <= NonceTTL
  BY <1>3, <1>5, NonceAssumption
<1>7. g.seen[n] = t
  <2>1. g.seen[n] = l.seen[n] \/ now - l.seen[n] > NonceTTL
    BY <1>2, CacheTypes
  <2> QED BY <1>4, <1>5, <1>6, <2>1, NonceAssumption
<1>8. t # Absent
  BY <1>5 DEF Absent
<1>9. n = m => Seen(l, m, now)
  BY <1>2, <1>6, <1>7, <1>8 DEF Seen
<1>10. AfterSeen(l, m, now).seen[n] = t
  <2>1. CASE Seen(l, m, now)
    BY <2>1, <1>2, <1>7 DEF AfterSeen
  <2>2. CASE ~Seen(l, m, now)
    <3>1. n # m
      BY <2>2, <1>9
    <3>2. AfterSeen(l, m, now) = [g EXCEPT !.seen[m] = now]
      BY <2>2, <1>2 DEF AfterSeen
    <3> QED BY <3>1, <3>2, <1>7 DEF NonceCaches, Memory
  <2> QED BY <2>1, <2>2
<1> QED BY <1>1, <1>5, <1>8, <1>9, <1>10 DEF Lasts

\* What the map's answer says of what it held, and what it holds afterwards.
LEMMA CacheAnswers ==
  ASSUME NEW l \in NonceCaches, NEW m \in Nonces, NEW now \in Nat
  PROVE  /\ Seen(l, m, now) => l.seen[m] # Absent
         /\ ~Seen(l, m, now) => AfterSeen(l, m, now).seen[m] = now
         /\ \A n \in Nonces : AfterSeen(l, m, now).seen[n] # Absent
                                => l.seen[n] # Absent \/ (n = m /\ ~Seen(l, m, now))
<1>1. PICK g \in NonceCaches : g = GCNonces(l, now)
  BY CacheTypes
<1>2. \A n \in Nonces : g.seen[n] # Absent => l.seen[n] # Absent
  BY <1>1, CacheTypes
<1>3. Seen(l, m, now) => l.seen[m] # Absent
  BY <1>1, <1>2 DEF Seen
<1>4. CASE Seen(l, m, now)
  <2>1. AfterSeen(l, m, now) = g
    BY <1>1, <1>4 DEF AfterSeen
  <2> QED BY <1>2, <1>3, <1>4, <2>1
<1>5. CASE ~Seen(l, m, now)
  <2>1. AfterSeen(l, m, now) = [g EXCEPT !.seen[m] = now]
    BY <1>1, <1>5 DEF AfterSeen
  <2>2. \A n \in Nonces : AfterSeen(l, m, now).seen[n] = IF n = m THEN now ELSE g.seen[n]
    BY <2>1 DEF NonceCaches, Memory
  <2> QED BY <1>2, <1>5, <2>2
<1> QED BY <1>4, <1>5

\* The same of Redis, on its own clock.
LEMMA RedisKeeps ==
  ASSUME MadeType, clock \in Nat, NEW r \in Memory, NEW m \in Nonces
  PROVE  /\ AfterSetNX(r, m, clock) \in Memory
         /\ \A n \in Nonces : Keeps(r[n], n) => Keeps(AfterSetNX(r, m, clock)[n], n)
         /\ Keeps(r[m], m) /\ clock <= Horizon(m) => RedisKnows(r, m, clock)
         /\ RedisKnows(r, m, clock) => r[m] # Absent
         /\ ~RedisKnows(r, m, clock) => AfterSetNX(r, m, clock)[m] = clock
         /\ \A n \in Nonces : AfterSetNX(r, m, clock)[n] # Absent
                                => r[n] # Absent \/ (n = m /\ ~RedisKnows(r, m, clock))
<1>1. PICK h \in Int : h = Horizon(m)
  BY HorizonType
<1>2. r[m] \in Nat \cup {Absent}
  BY DEF Memory
<1>3. Keeps(r[m], m) /\ clock <= h => RedisKnows(r, m, clock)
  BY <1>1, <1>2, NonceAssumption DEF Keeps, Lasts, RedisKnows, Absent
<1>4. RedisKnows(r, m, clock) => r[m] # Absent
  BY DEF RedisKnows
<1>5. CASE RedisKnows(r, m, clock)
  <2>1. AfterSetNX(r, m, clock) = r
    BY <1>5 DEF AfterSetNX
  <2> QED BY <1>1, <1>3, <1>4, <1>5, <2>1
<1>6. CASE ~RedisKnows(r, m, clock)
  <2>1. AfterSetNX(r, m, clock) = [r EXCEPT ![m] = clock]
    BY <1>6 DEF AfterSetNX
  <2>2. /\ AfterSetNX(r, m, clock) \in Memory
        /\ \A n \in Nonces : AfterSetNX(r, m, clock)[n] = IF n = m THEN clock ELSE r[n]
    BY <2>1 DEF Memory
  <2>3. Keeps(r[m], m) => Keeps(clock, m)
    BY <1>1, <1>3, <1>6 DEF Keeps
  <2> QED BY <1>1, <1>3, <1>4, <1>6, <2>2, <2>3
<1> QED BY <1>5, <1>6

-----------------------------------------------------------------------------
(* What a step does to the copies and the memories *)

States == {"out"} \cup InFlight \cup Answers
Memories == Processes \cup {Shared}
CopyRow == [st : States, at : Processes \cup {NoMemory}, now : Nat,
            mem : Memories \cup {NoMemory}, win : Nat \cup {NoWindow}]

\* A copy in authentication arrived in time, and not longer than AuthTime ago.
Flying(c) ==
  /\ copy[c].st # "out" => made[NonceOf[c]] \in Nat
  /\ copy[c].st = "gated" => /\ copy[c].at \in Processes
                             /\ copy[c].now <= clock /\ clock <= copy[c].now + AuthTime
                             /\ copy[c].now + AuthTime <= Horizon(NonceOf[c])

\* A process asks Redis only if Redis was there once.
HostInv ==
  /\ outages \in Nat
  /\ key \in [Processes -> KeySettings]
  /\ device \in [row : {"absent", "present", "removed"}, sealed : KeySettings]
  /\ memory \in [Processes -> Memories]
  /\ \A p \in Processes : memory[p] = Shared => redisUp \/ outages > 0

GateInv ==
  /\ HostInv /\ clock \in Nat /\ MadeType
  /\ cache \in [Processes -> NonceCaches] /\ redisNonces \in Memory
  /\ copy \in [Copies -> CopyRow]
  /\ \A c \in Copies : Flying(c)

\* What the memory `tag' holds of nonce n.
Held(tag, n) == IF tag = Shared THEN redisNonces[n] ELSE cache[tag].seen[n]

Barred == {"unauthorized", "unread"}

\* The row r of copy c becomes s with no memory asked.
Calm(r, s, c) ==
  /\ s \in CopyRow /\ s.mem = r.mem
  /\ r.st # "replay" /\ s.st # "replay"
  /\ s.st \in PassedStates <=> r.st \in PassedStates
  /\ s.st \in PassedStates => s.now = r.now
  /\ s.st # "out" => made[NonceOf[c]] \in Nat
  /\ s.st = "gated" => /\ s.at \in Processes /\ s.now = clock
                       /\ clock + AuthTime <= Horizon(NonceOf[c])
  /\ s.st \in Barred => device.row = "removed" \/ device.sealed # NoKey

Moves(c) ==
  /\ UNCHANGED <<clock, cache, redisNonces, made, device>>
  /\ \E s : Calm(copy[c], s, c) /\ copy' = [copy EXCEPT ![c] = s]

\* The memory s.mem is asked for nonce m with the time `now', and answers with s.st.
Asked(s, m, now) ==
  /\ \A tag \in Memories, n \in Nonces : Keeps(Held(tag, n), n) => Keeps(Held(tag, n)', n)
  /\ Keeps(Held(s.mem, m), m) => s.st = "replay"
  /\ s.st = "admitted" => Held(s.mem, m)' \in Nat /\ now <= Held(s.mem, m)'
  /\ s.st = "replay" => Held(s.mem, m) # Absent
  /\ \A tag \in Memories, n \in Nonces :
       Held(tag, n)' # Absent
         => Held(tag, n) # Absent \/ (tag = s.mem /\ n = m /\ s.st = "admitted")

Judged(c) ==
  /\ UNCHANGED <<clock, made, device, outages>>
  /\ copy[c].st = "gated"
  /\ cache' \in [Processes -> NonceCaches] /\ redisNonces' \in Memory
  /\ \E s \in CopyRow :
       /\ copy' = [copy EXCEPT ![c] = s]
       /\ s.st \in {"replay", "admitted"}
       /\ s.st = "admitted" => s.now = copy[c].now
       /\ \/ /\ s.mem = NoMemory /\ UNCHANGED <<cache, redisNonces>>
             /\ s.st = "replay" => TRUE \in FailClosed /\ outages > 0
          \/ s.mem \in Memories /\ Asked(s, NonceOf[c], copy[c].now)

\* What the crash of process p makes of a row.
Lost(r, s, p) ==
  /\ s.mem = IF r.mem = p THEN NoMemory ELSE r.mem
  /\ s.st \in PassedStates <=> r.st \in PassedStates
  /\ s.st \in PassedStates => s.now = r.now
  /\ s.st = "replay" <=> r.st = "replay"
  /\ s.st = "gated" => r.st = "gated" /\ s.now = r.now /\ s.at = r.at
  /\ r.st = "out" => s.st = "out"
  /\ s.st \in Barred => r.st \in Barred

Crashed(p) ==
  /\ UNCHANGED <<clock, redisNonces, made, device, outages>>
  /\ cache' = [cache EXCEPT ![p] = NewNonceCache]
  /\ copy' \in [Copies -> CopyRow]
  /\ \A c \in Copies : Lost(copy[c], copy'[c], p)

LEMMA ArriveMoves ==
  ASSUME GateInv, NEW p \in Processes, NEW c \in Copies, Arrive(p, c)
  PROVE  Moves(c)
<1>0. PICK r \in CopyRow : r = copy[c] /\ r.st = "out"
  BY DEF GateInv, Arrive
<1>1. made[NonceOf[c]] \in Nat /\ clock \in Nat /\ NonceOf[c] \in Nonces
  BY GateAssumption DEF GateInv, MadeType, Arrive
<1>2. UNCHANGED <<clock, cache, redisNonces, made, device>>
  BY DEF Arrive
<1>3. ASSUME NEW st \in {"turned", "limited"}, NEW s \in CopyRow, s.st = st, s.mem = r.mem,
             copy' = [copy EXCEPT ![c] = s]
      PROVE  Moves(c)
  <2>1. Calm(r, s, c)
    BY <1>0, <1>1, <1>3 DEF Calm, PassedStates, Barred
  <2> QED BY <1>0, <1>2, <1>3, <2>1 DEF Moves
<1>4. CASE copy' = [copy EXCEPT ![c].st = "turned"]
  <2>1. PICK s : s = [r EXCEPT !.st = "turned"]
    OBVIOUS
  <2>2. s \in CopyRow /\ s.st = "turned" /\ s.mem = r.mem
    <3>1. "turned" \in States
      BY DEF States, Answers
    <3> QED BY <2>1, <3>1 DEF CopyRow
  <2>3. copy' = [copy EXCEPT ![c] = s]
    BY <1>0, <1>4, <2>1 DEF GateInv
  <2> QED BY <1>3, <2>2, <2>3
<1>5. ASSUME Timely(NonceOf[c]), NEW st \in {"gated", "limited"}, Deliver(p, c, st)
      PROVE  Moves(c)
  <2>1. PICK n \in Nat : n = IF st = "gated" THEN clock ELSE 0
    BY <1>1
  <2>2. PICK s : s = [r EXCEPT !.st = st, !.at = p, !.now = n]
    OBVIOUS
  <2>3. st \in States
    BY DEF States, InFlight, Answers
  <2>4. s \in CopyRow /\ s.st = st /\ s.mem = r.mem /\ s.at = p /\ s.now = n
    BY <2>2, <2>3 DEF CopyRow
  <2>5. copy' = [copy EXCEPT ![c] = s]
    BY <1>0, <1>5, <2>1, <2>2 DEF Deliver
  <2>6. CASE st = "gated"
    <3>1. clock + AuthTime <= Horizon(NonceOf[c])
      BY <1>1, <1>5, TimelyBefore DEF GateInv
    <3>2. Calm(r, s, c)
      BY <1>0, <1>1, <2>1, <2>4, <2>6, <3>1 DEF Calm, PassedStates, Barred
    <3> QED BY <1>0, <1>2, <2>5, <3>2 DEF Moves
  <2>7. CASE st = "limited"
    BY <1>3, <2>4, <2>5, <2>7
  <2> QED BY <2>6, <2>7
<1> QED BY <1>4, <1>5 DEF Arrive

LEMMA HandleMoves ==
  ASSUME GateInv, NEW c \in Copies, Handle(c)
  PROVE  Moves(c)
<1>0. PICK r \in CopyRow : r = copy[c] /\ r.st = "admitted"
  BY DEF GateInv, Handle
<1>1. made[NonceOf[c]] \in Nat
  BY <1>0 DEF GateInv, Flying
<1>2. UNCHANGED <<clock, cache, redisNonces, made, device>>
  BY DEF Handle
<1>3. ASSUME NEW st \in {"ok", "throttled", "failed"}, NEW s, s.st = st,
             s \in CopyRow, s.mem = r.mem, s.now = r.now, copy' = [copy EXCEPT ![c] = s]
      PROVE  Moves(c)
  <2>1. Calm(r, s, c)
    BY <1>0, <1>1, <1>3 DEF Calm, PassedStates, Barred
  <2> QED BY <1>0, <1>2, <1>3, <2>1 DEF Moves
<1>4. ASSUME NEW st \in {"ok", "throttled", "failed"}, Answer(c, st)
      PROVE  Moves(c)
  <2>1. PICK s : s = [r EXCEPT !.st = st]
    OBVIOUS
  <2>2. copy' = [copy EXCEPT ![c] = s]
    BY <1>0, <1>4, <2>1 DEF Answer, GateInv
  <2>3. st \in States
    BY DEF States, Answers
  <2>4. s \in CopyRow /\ s.st = st /\ s.mem = r.mem /\ s.now = r.now
    BY <2>1, <2>3 DEF CopyRow
  <2> QED BY <1>3, <2>2, <2>4
<1>5. ASSUME copy' = [copy EXCEPT ![c].st = "ok", ![c].win = Window]
      PROVE  Moves(c)
  <2>1. PICK w \in Nat : w = Window
    <3>1. clock \in Nat /\ WindowTicks \in Nat \ {0}
      BY GateAssumption DEF GateInv
    <3> QED BY <3>1 DEF Window
  <2>2. PICK s : s = [r EXCEPT !.st = "ok", !.win = w]
    OBVIOUS
  <2>3. copy' = [copy EXCEPT ![c] = s]
    BY <1>0, <1>5, <2>1, <2>2 DEF GateInv
  <2>4. "ok" \in States
    BY DEF States, Answers
  <2>5. s \in CopyRow /\ s.st = "ok" /\ s.mem = r.mem /\ s.now = r.now
    BY <2>2, <2>4 DEF CopyRow
  <2> QED BY <1>3, <2>3, <2>5
<1> QED BY <1>4, <1>5 DEF Handle

LEMMA RefusedMoves ==
  ASSUME GateInv, NEW c \in Copies, copy[c].st = "gated", Refused(copy[c].at, c),
         UNCHANGED <<clock, made, device>>
  PROVE  Moves(c)
<1>0. PICK r \in CopyRow : r = copy[c] /\ r.st = "gated"
  BY DEF GateInv
<1>1. made[NonceOf[c]] \in Nat
  BY <1>0 DEF GateInv, Flying
<1>2. UNCHANGED <<clock, cache, redisNonces, made, device>>
  BY DEF Refused
<1>3. PICK st \in {"refused"} \cup Barred :
        /\ Turn(c, st)
        /\ st \in Barred => device.row = "removed" \/ device.sealed # NoKey
  <2>1. device.sealed = NoKey => Reads(key[copy[c].at], device.sealed) = "secret"
    BY DEF Reads
  <2> QED BY <2>1 DEF Refused, Barred
<1>4. PICK s : s = [r EXCEPT !.st = st, !.now = 0]
  OBVIOUS
<1>5. copy' = [copy EXCEPT ![c] = s]
  BY <1>0, <1>3, <1>4 DEF Turn, GateInv
<1>6. st \in States
  BY DEF States, Answers, Barred
<1>7. s \in CopyRow /\ s.st = st /\ s.mem = r.mem
  BY <1>4, <1>6 DEF CopyRow
<1>8. Calm(r, s, c)
  BY <1>0, <1>1, <1>3, <1>7 DEF Calm, PassedStates, Barred
<1> QED BY <1>0, <1>2, <1>5, <1>8 DEF Moves

LEMMA CrashLoses ==
  ASSUME GateInv, NEW p \in Processes, Crash(p)
  PROVE  Crashed(p)
<1>1. ASSUME NEW c \in Copies
      PROVE  copy'[c] \in CopyRow /\ Lost(copy[c], copy'[c], p)
  <2>0. PICK r \in CopyRow : r = copy[c]
    BY DEF GateInv
  <2>1. PICK st : st = CASE r.at = p /\ r.st = "gated"    -> "refused"
                         [] r.at = p /\ r.st = "admitted" -> "failed"
                         [] OTHER                         -> r.st
    OBVIOUS
  <2>2. PICK n : n = IF r.at = p /\ r.st = "gated" THEN 0 ELSE r.now
    OBVIOUS
  <2>3. PICK m : m = IF r.mem = p THEN NoMemory ELSE r.mem
    OBVIOUS
  <2>4. PICK s : s = [r EXCEPT !.st = st, !.now = n, !.mem = m]
    OBVIOUS
  <2>5. copy'[c] = s
    BY <2>0, <2>1, <2>2, <2>3, <2>4 DEF Crash
  <2>6. n \in Nat /\ m \in Memories \cup {NoMemory}
    BY <2>2, <2>3 DEF CopyRow
  <2>7. st \in States
    BY <2>1 DEF CopyRow, States, Answers
  <2>8. s \in CopyRow /\ s.st = st /\ s.now = n /\ s.mem = m /\ s.at = r.at
    BY <2>4, <2>6, <2>7 DEF CopyRow
  <2>g. ASSUME Lost(r, s, p) PROVE copy'[c] \in CopyRow /\ Lost(copy[c], copy'[c], p)
    BY <2>0, <2>5, <2>8, <2>g
  <2>9. CASE r.at = p /\ r.st = "gated"
    <3>1. s.st = "refused"
      BY <2>1, <2>8, <2>9
    <3> QED BY <2>3, <2>8, <2>9, <3>1, <2>g DEF Lost, PassedStates, Barred
  <2>10. CASE r.at = p /\ r.st = "admitted"
    <3>1. s.st = "failed" /\ s.now = r.now
      BY <2>1, <2>2, <2>8, <2>10
    <3> QED BY <2>3, <2>8, <2>10, <3>1, <2>g DEF Lost, PassedStates, Barred
  <2>11. CASE ~(r.at = p /\ r.st = "gated") /\ ~(r.at = p /\ r.st = "admitted")
    <3>1. s.st = r.st /\ s.now = r.now
      BY <2>1, <2>2, <2>8, <2>11
    <3> QED BY <2>3, <2>8, <3>1, <2>g DEF Lost, PassedStates, Barred
  <2> QED BY <2>9, <2>10, <2>11
<1>2. copy' = [c \in Copies |-> copy'[c]]
  BY DEF Crash
<1>3. /\ UNCHANGED <<clock, redisNonces, made, device, outages>>
      /\ cache' = [cache EXCEPT ![p] = NewNonceCache]
  BY DEF Crash
<1> QED BY <1>1, <1>2, <1>3 DEF Crashed

LEMMA CheckJudges ==
  ASSUME GateInv, NEW c \in Copies, copy[c].st = "gated", CheckNonce(copy[c].at, c),
         UNCHANGED <<clock, made, device, outages>>
  PROVE  Judged(c)
<1>0. PICK r \in CopyRow, p \in Processes, n \in Nonces, now \in Nat :
         /\ r = copy[c] /\ p = r.at /\ n = NonceOf[c] /\ now = r.now
         /\ now <= clock /\ clock <= Horizon(n)
  <2>1. PICK r \in CopyRow : r = copy[c]
    BY DEF GateInv
  <2>2. Flying(c)
    BY DEF GateInv
  <2>3. r.now \in Nat /\ NonceOf[c] \in Nonces
    BY GateAssumption DEF CopyRow
  <2>4. /\ r.at \in Processes /\ r.now <= clock
        /\ r.now + AuthTime <= Horizon(NonceOf[c]) /\ clock <= r.now + AuthTime
    BY <2>1, <2>2 DEF Flying
  <2>5. Horizon(NonceOf[c]) \in Int /\ clock \in Nat
    BY <2>3, HorizonType DEF GateInv
  <2>6. clock <= Horizon(NonceOf[c])
    BY <2>3, <2>4, <2>5, GateAssumption
  <2> QED BY <2>1, <2>3, <2>4, <2>6
<1>1. ASSUME NEW seen \in BOOLEAN, NEW tag \in Memories \cup {NoMemory}, Judge(c, seen, tag)
      PROVE  \E s \in CopyRow :
               /\ copy' = [copy EXCEPT ![c] = s] /\ s.mem = tag
               /\ s.st \in {"replay", "admitted"}
               /\ s.st = "replay" <=> seen
               /\ s.st = "admitted" => s.now = r.now
  <2>1. PICK st \in {"replay", "admitted"} : st = IF seen THEN "replay" ELSE "admitted"
    OBVIOUS
  <2>2. PICK t \in Nat : t = IF seen THEN 0 ELSE r.now
    BY <1>0
  <2>3. PICK s : s = [r EXCEPT !.st = st, !.now = t, !.mem = tag]
    OBVIOUS
  <2>4. st \in States
    BY DEF States, InFlight, Answers
  <2>5. s \in CopyRow /\ s.st = st /\ s.now = t /\ s.mem = tag
    BY <2>3, <2>4 DEF CopyRow
  <2>6. copy' = [copy EXCEPT ![c] = s]
    BY <1>0, <1>1, <2>1, <2>2, <2>3 DEF Judge, GateInv
  <2>7. (s.st = "replay" <=> seen) /\ (s.st = "admitted" => s.now = r.now)
    BY <2>1, <2>2, <2>5
  <2> QED BY <2>5, <2>6, <2>7
<1>2. CASE /\ cache' = [cache EXCEPT ![p] = AfterSeen(@, n, now)]
           /\ Judge(c, Seen(cache[p], n, now), p)
           /\ UNCHANGED redisNonces
  <2>1. PICK l \in NonceCaches : l = cache[p]
    BY DEF GateInv
  <2>2. PICK k \in NonceCaches : k = AfterSeen(l, n, now)
    BY CacheTypes
  <2>3. cache' = [cache EXCEPT ![p] = k] /\ cache' \in [Processes -> NonceCaches]
    BY <1>2, <2>1, <2>2 DEF GateInv
  <2>4. PICK seen \in BOOLEAN : seen = Seen(l, n, now)
    BY DEF Seen
  <2>5. PICK s \in CopyRow : /\ copy' = [copy EXCEPT ![c] = s] /\ s.mem = p
                             /\ s.st \in {"replay", "admitted"}
                             /\ s.st = "replay" <=> seen
                             /\ s.st = "admitted" => s.now = r.now
    BY <1>1, <1>2, <2>1, <2>4 DEF Memories
  <2>6. \A tag \in Memories, x \in Nonces :
          Held(tag, x)' = IF tag = p THEN k.seen[x] ELSE Held(tag, x)
    BY <1>2, <2>3, GateAssumption DEF Held, Memories, GateInv
  <2>7. \A x \in Nonces : Held(p, x) = l.seen[x]
    BY <2>1, GateAssumption DEF Held
  <2>8. \A x \in Nonces : Keeps(l.seen[x], x) => Keeps(k.seen[x], x)
    BY <1>0, <2>2, CacheKeeps DEF GateInv
  <2>9. Keeps(l.seen[n], n) => seen
    BY <1>0, <2>4, CacheKeeps DEF GateInv
  <2>10. /\ seen => l.seen[n] # Absent
         /\ ~seen => k.seen[n] = now
         /\ \A x \in Nonces : k.seen[x] # Absent => l.seen[x] # Absent \/ (x = n /\ ~seen)
    BY <2>2, <2>4, CacheAnswers
  <2>11. p \in Memories
    BY DEF Memories
  <2>12. /\ Keeps(Held(p, n), n) => s.st = "replay"
         /\ s.st = "admitted" => Held(p, n)' = now
         /\ s.st = "replay" => Held(p, n) # Absent
    BY <2>5, <2>6, <2>7, <2>9, <2>10, <2>11
  <2>13. \A tag \in Memories, x \in Nonces : Keeps(Held(tag, x), x) => Keeps(Held(tag, x)', x)
    BY <2>6, <2>7, <2>8
  <2>14. \A tag \in Memories, x \in Nonces :
           Held(tag, x)' # Absent
             => Held(tag, x) # Absent \/ (tag = p /\ x = n /\ s.st = "admitted")
    BY <2>5, <2>6, <2>7, <2>10
  <2>15. Asked(s, n, now)
    BY <1>0, <2>5, <2>12, <2>13, <2>14 DEF Asked
  <2>16. redisNonces' \in Memory
    BY <1>2 DEF GateInv
  <2> QED BY <1>0, <2>3, <2>5, <2>11, <2>15, <2>16 DEF Judged
<1>3. CASE /\ redisNonces' = AfterSetNX(redisNonces, n, clock)
           /\ Judge(c, RedisKnows(redisNonces, n, clock), Shared)
           /\ UNCHANGED cache
  <2>1. PICK l \in Memory, k \in Memory :
           l = redisNonces /\ k = AfterSetNX(l, n, clock) /\ redisNonces' = k
    BY <1>3, RedisKeeps DEF GateInv
  <2>4. PICK seen \in BOOLEAN : seen = RedisKnows(l, n, clock)
    BY DEF RedisKnows
  <2>5. PICK s \in CopyRow : /\ copy' = [copy EXCEPT ![c] = s] /\ s.mem = Shared
                             /\ s.st \in {"replay", "admitted"}
                             /\ s.st = "replay" <=> seen
                             /\ s.st = "admitted" => s.now = r.now
    BY <1>1, <1>3, <2>1, <2>4 DEF Memories
  <2>6. \A tag \in Memories, x \in Nonces :
          Held(tag, x)' = IF tag = Shared THEN k[x] ELSE Held(tag, x)
    BY <1>3, <2>1 DEF Held
  <2>7. \A x \in Nonces : Held(Shared, x) = l[x]
    BY <2>1 DEF Held
  <2>8. /\ \A x \in Nonces : Keeps(l[x], x) => Keeps(k[x], x)
        /\ Keeps(l[n], n) => seen
        /\ seen => l[n] # Absent
        /\ ~seen => k[n] = clock
        /\ \A x \in Nonces : k[x] # Absent => l[x] # Absent \/ (x = n /\ ~seen)
    BY <1>0, <2>1, <2>4, RedisKeeps DEF GateInv
  <2>11. Shared \in Memories
    BY DEF Memories
  <2>12. /\ Keeps(Held(Shared, n), n) => s.st = "replay"
         /\ s.st = "admitted" => Held(Shared, n)' = clock
         /\ s.st = "replay" => Held(Shared, n) # Absent
    BY <2>5, <2>6, <2>7, <2>8, <2>11
  <2>13. \A tag \in Memories, x \in Nonces : Keeps(Held(tag, x), x) => Keeps(Held(tag, x)', x)
    BY <2>6, <2>7, <2>8
  <2>14. \A tag \in Memories, x \in Nonces :
           Held(tag, x)' # Absent
             => Held(tag, x) # Absent \/ (tag = Shared /\ x = n /\ s.st = "admitted")
    BY <2>5, <2>6, <2>7, <2>8
  <2>15. Asked(s, n, now)
    BY <1>0, <2>5, <2>12, <2>13, <2>14 DEF Asked, GateInv
  <2>16. cache' \in [Processes -> NonceCaches]
    BY <1>3 DEF GateInv
  <2> QED BY <1>0, <2>1, <2>5, <2>11, <2>15, <2>16 DEF Judged
<1>4. CASE /\ memory[p] = Shared /\ ~redisUp
           /\ \E refuse \in FailClosed : Judge(c, refuse, NoMemory)
           /\ UNCHANGED <<cache, redisNonces>>
  <2>1. PICK refuse \in FailClosed : refuse \in BOOLEAN /\ Judge(c, refuse, NoMemory)
    BY <1>4, GateAssumption
  <2>2. PICK s \in CopyRow : /\ copy' = [copy EXCEPT ![c] = s] /\ s.mem = NoMemory
                             /\ s.st \in {"replay", "admitted"}
                             /\ s.st = "replay" <=> refuse
                             /\ s.st = "admitted" => s.now = r.now
    BY <2>1, <1>1
  <2>3. outages > 0 /\ cache' \in [Processes -> NonceCaches] /\ redisNonces' \in Memory
    BY <1>4 DEF GateInv, HostInv
  <2>4. s.st = "replay" => TRUE \in FailClosed
    BY <2>1, <2>2
  <2> QED BY <1>0, <1>4, <2>2, <2>3, <2>4 DEF Judged
<1> QED BY <1>0, <1>2, <1>3, <1>4 DEF CheckNonce

\* The device row is written by nothing but these.
Aside ==
  /\ UNCHANGED <<clock, cache, redisNonces, made, copy>>
  /\ \/ device' = device
     \/ device.row = "absent" /\ device'.row = "present"
     \/ device'.row = "removed"

Ticks ==
  /\ clock' = clock + 1 /\ UNCHANGED <<cache, redisNonces, made, copy, device>>
  /\ \A c \in Copies : copy[c].st = "gated" => clock < copy[c].now + AuthTime

Signs ==
  /\ UNCHANGED <<clock, cache, redisNonces, copy, device>>
  /\ \E n \in Nonces, t \in Nat : made[n] = Unsigned /\ made' = [made EXCEPT ![n] = t]

LEMMA Effects ==
  ASSUME GateInv, [Next]_vars
  PROVE  \/ Aside \/ Ticks \/ Signs
         \/ \E p \in Processes : Crashed(p)
         \/ \E c \in Copies : Moves(c) \/ Judged(c)
<1>1. CASE UNCHANGED vars
  BY <1>1 DEF vars, gateVars, Aside
<1>2. ASSUME NEW p \in Processes, Migrating(p) \/ Serve(p) \/ Enrol(p) PROVE Aside
  BY <1>2 DEF Migrating, gateVars, Serve, Enrol, Aside
<1>3. CASE Remove
  <2>1. /\ device' = [device EXCEPT !.row = "removed"]
        /\ UNCHANGED <<clock, cache, redisNonces, made, copy>>
    BY <1>3 DEF Remove
  <2>2. device'.row = "removed"
    BY <2>1 DEF GateInv, HostInv
  <2> QED BY <2>1, <2>2 DEF Aside
<1>4. CASE RedisFails \/ RedisRecovers
  BY <1>4 DEF RedisFails, RedisRecovers, Aside
<1>5. CASE Tick
  BY <1>5 DEF Tick, Ticks
<1>6. ASSUME NEW n \in Nonces, Sign(n) PROVE Signs
  <2>1. PICK d \in Nat : made' = [made EXCEPT ![n] = clock \div TPS + d]
    BY <1>6, GateAssumption DEF Sign
  <2>2. PICK t \in Nat : t = clock \div TPS + d
    BY GateAssumption DEF GateInv
  <2> QED BY <1>6, <2>1, <2>2 DEF Sign, Signs
<1>7. ASSUME NEW c \in Copies, Authenticate(c) PROVE Moves(c) \/ Judged(c)
  BY <1>7, RefusedMoves, CheckJudges DEF Authenticate
<1> QED BY <1>1, <1>2, <1>3, <1>4, <1>5, <1>6, <1>7, ArriveMoves, HandleMoves, CrashLoses
        DEF Next, ProcessStep

LEMMA HostInvStep ==
  ASSUME GateInv, [Next]_vars
  PROVE  HostInv'
<1>0. HostInv
  BY DEF GateInv
<1>1. CASE UNCHANGED <<key, device, memory, redisUp, outages>>
  BY <1>0, <1>1 DEF HostInv
<1>2. ASSUME NEW p \in Processes, Serve(p) PROVE HostInv'
  <2>1. /\ memory' = [memory EXCEPT ![p] = IF redisUp THEN Shared ELSE p]
        /\ UNCHANGED <<redisUp, device, outages>>
    BY <1>2 DEF Serve
  <2>2. key' \in [Processes -> KeySettings]
    BY <1>0, <1>2 DEF Serve, HostInv, KeySettings
  <2>3. memory' \in [Processes -> Memories]
    BY <1>0, <2>1 DEF HostInv, Memories
  <2>4. ASSUME NEW q \in Processes, memory'[q] = Shared PROVE redisUp \/ outages > 0
    BY <1>0, <2>1, <2>4, GateAssumption DEF HostInv
  <2> QED BY <1>0, <2>1, <2>2, <2>3, <2>4 DEF HostInv
<1>3. ASSUME NEW p \in Processes, Crash(p) PROVE HostInv'
  <2>1. /\ memory' = [memory EXCEPT ![p] = p] /\ key' = [key EXCEPT ![p] = NoKey]
        /\ UNCHANGED <<redisUp, device, outages>>
    BY <1>3 DEF Crash
  <2>2. key' \in [Processes -> KeySettings] /\ memory' \in [Processes -> Memories]
    BY <1>0, <2>1 DEF HostInv, KeySettings, Memories
  <2>3. ASSUME NEW q \in Processes, memory'[q] = Shared PROVE redisUp \/ outages > 0
    BY <1>0, <2>1, <2>3, GateAssumption DEF HostInv
  <2> QED BY <1>0, <2>1, <2>2, <2>3 DEF HostInv
<1>4. ASSUME NEW p \in Processes, Enrol(p) PROVE HostInv'
  BY <1>0, <1>4 DEF Enrol, HostInv
<1>5. CASE Remove
  BY <1>0, <1>5 DEF Remove, HostInv
<1>6. CASE RedisFails
  BY <1>0, <1>6 DEF RedisFails, HostInv
<1>7. CASE RedisRecovers
  BY <1>0, <1>7 DEF RedisRecovers, HostInv
<1>8. ASSUME NEW p \in Processes, Migrating(p) \/ \E c \in Copies : Arrive(p, c) PROVE HostInv'
  BY <1>8, <1>1 DEF Migrating, gateVars, Arrive
<1>9. ASSUME NEW c \in Copies, Authenticate(c) \/ Handle(c) PROVE HostInv'
  BY <1>9, <1>1 DEF Authenticate, Handle
<1>10. CASE Tick \/ \E n \in Nonces : Sign(n)
  BY <1>10, <1>1 DEF Tick, Sign
<1>11. CASE UNCHANGED vars
  BY <1>11, <1>1 DEF vars, gateVars
<1> QED BY <1>2, <1>3, <1>4, <1>5, <1>6, <1>7, <1>8, <1>9, <1>10, <1>11 DEF Next, ProcessStep

LEMMA GateInvInit == Init => GateInv
<1> SUFFICES ASSUME Init PROVE GateInv
  OBVIOUS
<1>1. NewNonceCache \in NonceCaches /\ NewRedisNonces \in Memory
  BY NonceAssumption DEF NewNonceCache, NewRedisNonces, NonceCaches, Memory, Absent
<1>2. Undelivered \in CopyRow /\ Undelivered.st = "out"
  BY DEF Undelivered, CopyRow, States
<1>3. \A c \in Copies : Flying(c)
  BY <1>2 DEF Init, Flying
<1>4. HostInv
  <2>1. memory \in [Processes -> Memories] /\ \A p \in Processes : memory[p] # Shared
    BY GateAssumption DEF Init, Memories
  <2>2. outages \in Nat /\ key \in [Processes -> KeySettings]
    BY DEF Init, KeySettings
  <2>3. device \in [row : {"absent", "present", "removed"}, sealed : KeySettings]
    BY DEF Init, KeySettings
  <2> QED BY <2>1, <2>2, <2>3 DEF HostInv
<1>5. clock \in Nat /\ MadeType /\ cache \in [Processes -> NonceCaches] /\ redisNonces \in Memory
  BY <1>1 DEF Init, MadeType
<1>6. copy \in [Copies -> CopyRow]
  BY <1>2 DEF Init
<1> QED BY <1>3, <1>4, <1>5, <1>6 DEF GateInv

\* A copy moves with the clock and the requests as they were.
LEMMA MoveFlies ==
  ASSUME GateInv, NEW c \in Copies, NEW s \in CopyRow, copy' = [copy EXCEPT ![c] = s],
         UNCHANGED <<clock, made>>,
         s.st # "out" => made[NonceOf[c]] \in Nat,
         s.st = "gated" => /\ s.at \in Processes /\ s.now = clock
                           /\ clock + AuthTime <= Horizon(NonceOf[c])
  PROVE  copy' \in [Copies -> CopyRow] /\ \A d \in Copies : Flying(d)'
<1>1. copy' \in [Copies -> CopyRow] /\ \A d \in Copies : copy'[d] = IF d = c THEN s ELSE copy[d]
  BY DEF GateInv
<1>2. ASSUME NEW d \in Copies PROVE Flying(d)'
  <2>1. CASE d = c
    <3>1. clock \in Nat /\ clock <= clock + AuthTime
      BY GateAssumption DEF GateInv
    <3> QED BY <1>1, <2>1, <3>1 DEF Flying, Horizon
  <2>2. CASE d # c
    BY <1>1, <2>2 DEF Flying, GateInv, Horizon
  <2> QED BY <2>1, <2>2
<1> QED BY <1>1, <1>2

LEMMA GateInvStep == GateInv /\ [Next]_vars => GateInv'
<1> SUFFICES ASSUME GateInv, [Next]_vars PROVE GateInv'
  OBVIOUS
<1>0. HostInv'
  BY HostInvStep
<1>1. CASE Aside
  BY <1>0, <1>1 DEF Aside, GateInv, MadeType, Flying, Horizon
<1>2. CASE Ticks
  <2>1. ASSUME NEW c \in Copies PROVE Flying(c)'
    <3>1. Flying(c) /\ copy[c].now \in Nat /\ clock \in Nat
      BY DEF GateInv, CopyRow
    <3> QED BY <1>2, <3>1, GateAssumption DEF Ticks, Flying, Horizon
  <2> QED BY <1>0, <1>2, <2>1 DEF Ticks, GateInv, MadeType
<1>3. CASE Signs
  <2>1. PICK n \in Nonces, t \in Nat : made[n] = Unsigned /\ made' = [made EXCEPT ![n] = t]
    BY <1>3 DEF Signs
  <2>2. MadeType'
    BY <2>1 DEF GateInv, MadeType
  <2>3. ASSUME NEW c \in Copies PROVE Flying(c)'
    <3>1. Flying(c) /\ NonceOf[c] \in Nonces
      BY GateAssumption DEF GateInv
    <3>2. CASE NonceOf[c] = n
      BY <1>3, <2>1, <3>1, <3>2 DEF Signs, Flying, Unsigned
    <3>3. CASE NonceOf[c] # n
      <4>1. made'[NonceOf[c]] = made[NonceOf[c]]
        BY <2>1, <3>1, <3>3 DEF GateInv, MadeType
      <4> QED BY <1>3, <3>1, <4>1 DEF Signs, Flying, Horizon
    <3> QED BY <3>2, <3>3
  <2> QED BY <1>0, <1>3, <2>2, <2>3 DEF Signs, GateInv
<1>4. ASSUME NEW p \in Processes, Crashed(p) PROVE GateInv'
  <2>1. NewNonceCache \in NonceCaches
    BY NonceAssumption DEF NewNonceCache, NonceCaches, Memory, Absent
  <2>2. cache' \in [Processes -> NonceCaches]
    BY <1>4, <2>1 DEF Crashed, GateInv
  <2>3. ASSUME NEW c \in Copies PROVE Flying(c)'
    <3>1. Flying(c) /\ Lost(copy[c], copy'[c], p)
      BY <1>4 DEF GateInv, Crashed
    <3> QED BY <1>4, <3>1 DEF Crashed, Flying, Lost, Horizon
  <2> QED BY <1>0, <1>4, <2>2, <2>3 DEF Crashed, GateInv, MadeType
<1>5. ASSUME NEW c \in Copies, Moves(c) PROVE GateInv'
  <2>1. PICK s \in CopyRow : Calm(copy[c], s, c) /\ copy' = [copy EXCEPT ![c] = s]
    BY <1>5 DEF Moves, Calm
  <2>2. copy' \in [Copies -> CopyRow] /\ \A d \in Copies : Flying(d)'
    BY <1>5, <2>1, MoveFlies DEF Moves, Calm
  <2> QED BY <1>0, <1>5, <2>2 DEF Moves, GateInv, MadeType
<1>6. ASSUME NEW c \in Copies, Judged(c) PROVE GateInv'
  <2>1. PICK s \in CopyRow : copy' = [copy EXCEPT ![c] = s] /\ s.st \in {"replay", "admitted"}
    BY <1>6 DEF Judged
  <2>2. made[NonceOf[c]] \in Nat
    BY <1>6 DEF Judged, GateInv, Flying
  <2>3. copy' \in [Copies -> CopyRow] /\ \A d \in Copies : Flying(d)'
    BY <1>6, <2>1, <2>2, MoveFlies DEF Judged
  <2> QED BY <1>0, <1>6, <2>3 DEF Judged, GateInv, MadeType
<1> QED BY <1>1, <1>2, <1>3, <1>4, <1>5, <1>6, Effects

-----------------------------------------------------------------------------
(* One memory lets one copy of a request through *)

\* What a memory let through it knows for as long as another copy may ask it.
Remembered(c) ==
  Passed(c) /\ ~FarAhead(c) /\ copy[c].mem # NoMemory
    => Keeps(Held(copy[c].mem, NonceOf[c]), NonceOf[c])

OnceInv == HandledOnce /\ \A c \in Copies : Remembered(c)

LEMMA OnceStays ==
  ASSUME OnceInv,
         \A d \in Copies :
           Passed(d)' => /\ Passed(d) /\ (FarAhead(d) => FarAhead(d)')
                         /\ copy'[d].mem \in {copy[d].mem, NoMemory},
         \A d \in Copies :
           Passed(d)' /\ copy'[d].mem # NoMemory /\ Keeps(Held(copy[d].mem, NonceOf[d]), NonceOf[d])
             => Keeps(Held(copy[d].mem, NonceOf[d]), NonceOf[d])'
  PROVE  OnceInv'
<1>1. ASSUME NEW d \in Copies PROVE Remembered(d)'
  BY <1>1 DEF OnceInv, Remembered
<1>2. HandledOnce'
  BY DEF OnceInv, HandledOnce
<1> QED BY <1>1, <1>2 DEF OnceInv

LEMMA OnceInvStep == GateInv /\ OnceInv /\ [Next]_vars => OnceInv'
<1> SUFFICES ASSUME GateInv, OnceInv, [Next]_vars PROVE OnceInv'
  OBVIOUS
<1>0. \A d \in Copies : NonceOf[d] \in Nonces /\ Horizon(NonceOf[d]) \in Int
  BY GateAssumption, HorizonType DEF GateInv
<1>1. CASE Aside
  BY <1>1, OnceStays DEF Aside, Passed, FarAhead, Held, Keeps, Lasts, Horizon
<1>2. CASE Ticks
  <2>1. ASSUME NEW d \in Copies,
               Keeps(Held(copy[d].mem, NonceOf[d]), NonceOf[d])
        PROVE  Keeps(Held(copy[d].mem, NonceOf[d]), NonceOf[d])'
    <3>1. PICK h \in Int, k \in Nat : h = Horizon(NonceOf[d]) /\ k = clock
      BY <1>0 DEF GateInv
    <3>2. Horizon(NonceOf[d])' = h /\ clock' = k + 1
      BY <1>2, <3>1 DEF Ticks, Horizon
    <3>3. Held(copy[d].mem, NonceOf[d])' = Held(copy[d].mem, NonceOf[d])
      BY <1>2 DEF Ticks, Held
    <3> QED BY <2>1, <3>1, <3>2, <3>3 DEF Keeps, Lasts
  <2> QED BY <1>2, <2>1, OnceStays DEF Ticks, Passed, FarAhead
<1>3. CASE Signs
  <2>1. PICK n \in Nonces, t \in Nat : made[n] = Unsigned /\ made' = [made EXCEPT ![n] = t]
    BY <1>3 DEF Signs
  <2>2. ASSUME NEW d \in Copies, Passed(d) PROVE made'[NonceOf[d]] = made[NonceOf[d]]
    <3>1. NonceOf[d] # n
      BY <2>1, <2>2 DEF GateInv, Flying, Passed, PassedStates, Unsigned
    <3> QED BY <1>0, <2>1, <3>1 DEF GateInv, MadeType
  <2> QED BY <1>3, <2>2, OnceStays DEF Signs, Passed, FarAhead, Held, Keeps, Lasts, Horizon
<1>4. ASSUME NEW p \in Processes, Crashed(p) PROVE OnceInv'
  <2>1. ASSUME NEW d \in Copies, Passed(d)'
        PROVE  /\ Passed(d) /\ (FarAhead(d) => FarAhead(d)')
               /\ copy'[d].mem \in {copy[d].mem, NoMemory}
    BY <1>4, <2>1 DEF Crashed, Lost, Passed, FarAhead
  <2>2. ASSUME NEW d \in Copies, copy'[d].mem # NoMemory,
               Keeps(Held(copy[d].mem, NonceOf[d]), NonceOf[d])
        PROVE  Keeps(Held(copy[d].mem, NonceOf[d]), NonceOf[d])'
    <3>1. copy'[d].mem = copy[d].mem /\ copy[d].mem # p /\ copy[d].mem \in Memories
      BY <1>4, <2>2 DEF Crashed, Lost, GateInv, CopyRow
    <3>2. Held(copy[d].mem, NonceOf[d])' = Held(copy[d].mem, NonceOf[d])
      BY <1>4, <3>1 DEF Crashed, Held, Memories, GateInv
    <3> QED BY <1>4, <2>2, <3>2 DEF Crashed, Keeps, Lasts, Horizon
  <2> QED BY <2>1, <2>2, OnceStays
<1>5. ASSUME NEW c \in Copies, Moves(c) PROVE OnceInv'
  <2>1. PICK s : Calm(copy[c], s, c) /\ copy' = [copy EXCEPT ![c] = s]
    BY <1>5 DEF Moves
  <2>2. \A d \in Copies : copy'[d] = IF d = c THEN s ELSE copy[d]
    BY <2>1 DEF GateInv
  <2>3. ASSUME NEW d \in Copies, Passed(d)'
        PROVE  Passed(d) /\ copy'[d].mem = copy[d].mem /\ copy'[d].now = copy[d].now
    BY <2>1, <2>2, <2>3 DEF Calm, Passed
  <2>4. ASSUME NEW d \in Copies, Passed(d)'
        PROVE  /\ FarAhead(d) => FarAhead(d)'
               /\ Held(copy[d].mem, NonceOf[d])' = Held(copy[d].mem, NonceOf[d])
    BY <1>5, <2>3, <2>4 DEF Moves, FarAhead, Held
  <2> QED BY <1>5, <2>3, <2>4, OnceStays DEF Moves, Keeps, Lasts, Horizon
<1>6. ASSUME NEW c \in Copies, Judged(c) PROVE OnceInv'
  <2>0. PICK m \in Nonces : m = NonceOf[c]
    BY <1>0
  <2>1. PICK s \in CopyRow :
          /\ copy' = [copy EXCEPT ![c] = s]
          /\ s.st \in {"replay", "admitted"}
          /\ s.st = "admitted" => s.now = copy[c].now
          /\ \/ s.mem = NoMemory /\ UNCHANGED <<cache, redisNonces>>
             \/ s.mem \in Memories /\ Asked(s, m, copy[c].now)
    BY <1>6, <2>0 DEF Judged
  <2>2. /\ \A d \in Copies : copy'[d] = IF d = c THEN s ELSE copy[d]
        /\ UNCHANGED <<clock, made>>
    BY <1>6, <2>1 DEF GateInv, Judged
  <2>4. ASSUME NEW tag \in Memories, NEW n \in Nonces, Keeps(Held(tag, n), n)
        PROVE  Keeps(Held(tag, n)', n)
    <3>1. CASE UNCHANGED <<cache, redisNonces>>
      BY <2>4, <3>1 DEF Held
    <3> QED BY <2>1, <2>4, <3>1 DEF Asked
  <2>5. ASSUME NEW d \in Copies, d # c
        PROVE  /\ copy'[d] = copy[d] /\ (Passed(d)' <=> Passed(d))
               /\ FarAhead(d)' <=> FarAhead(d)
               /\ Remembered(d)'
    <3>1. copy'[d] = copy[d]
      BY <2>2, <2>5
    <3>2. (Passed(d)' <=> Passed(d)) /\ (FarAhead(d)' <=> FarAhead(d))
      BY <2>2, <3>1 DEF Passed, FarAhead
    <3>3. copy[d].mem # NoMemory => copy[d].mem \in Memories
      BY DEF GateInv, CopyRow
    <3>4. Keeps(Held(copy[d].mem, NonceOf[d]), NonceOf[d])'
            <=> Keeps(Held(copy[d].mem, NonceOf[d])', NonceOf[d])
      BY <2>2 DEF Keeps, Lasts, Horizon
    <3>5. Held(copy[d].mem, NonceOf[d])' = IF copy[d].mem = Shared THEN redisNonces'[NonceOf[d]]
                                           ELSE cache'[copy[d].mem].seen[NonceOf[d]]
      BY <3>1 DEF Held
    <3>6. ASSUME Passed(d), ~FarAhead(d), copy[d].mem # NoMemory
          PROVE  Keeps(Held(copy[d].mem, NonceOf[d]), NonceOf[d])'
      <4>1. PICK tag \in Memories, n \in Nonces : tag = copy[d].mem /\ n = NonceOf[d]
        BY <1>0, <3>3, <3>6
      <4>2. Keeps(Held(tag, n), n)
        BY <3>6, <4>1 DEF OnceInv, Remembered
      <4>3. Keeps(Held(tag, n)', n)
        BY <2>4, <4>2
      <4>4. Held(tag, n)' = Held(copy[d].mem, NonceOf[d])'
        BY <3>5, <4>1 DEF Held
      <4> QED BY <3>4, <4>1, <4>3, <4>4
    <3> QED BY <3>1, <3>2, <3>6 DEF Remembered
  <2>6. CASE s.st = "replay" \/ s.mem = NoMemory
    <3>1. ~(Passed(c)' /\ copy'[c].mem # NoMemory)
      BY <2>2, <2>6 DEF Passed, PassedStates
    <3>2. Remembered(c)'
      BY <3>1 DEF Remembered
    <3>3. HandledOnce'
      BY <2>5, <3>1 DEF HandledOnce, OnceInv
    <3> QED BY <2>5, <3>2, <3>3 DEF OnceInv
  <2>7. CASE s.st = "admitted" /\ s.mem \in Memories /\ Asked(s, m, copy[c].now)
    <3>1. copy'[c] = s /\ s.now = copy[c].now /\ copy[c].now \in Nat
      BY <2>1, <2>2, <2>7 DEF CopyRow
    <3>2. FarAhead(c)' <=> FarAhead(c)
      BY <2>2, <3>1 DEF FarAhead
    <3>3. ASSUME NEW d \in Copies, d # c, NonceOf[d] = m, Passed(d), copy[d].mem = s.mem
          PROVE  FarAhead(d)
      <4>1. SUFFICES ASSUME ~FarAhead(d) PROVE FALSE
        OBVIOUS
      <4>2. s.mem # NoMemory
        BY <2>7, GateAssumption DEF Memories, Shared, NoMemory
      <4>3. Keeps(Held(s.mem, m), m)
        BY <3>3, <4>1, <4>2 DEF OnceInv, Remembered
      <4> QED BY <2>7, <4>3 DEF Asked
    <3>4. ASSUME ~FarAhead(c) PROVE Lasts(Held(s.mem, m)', m)
      <4>1. Horizon(m) <= copy[c].now + NonceTTL
        BY <2>0, <3>1, <3>4, NotAhead DEF GateInv
      <4>2. PICK t \in Nat : t = Held(s.mem, m)' /\ copy[c].now <= t
        BY <2>7 DEF Asked
      <4>3. Horizon(m) \in Int
        BY <1>0, <2>0
      <4>4. Horizon(m) <= t + NonceTTL /\ t # Absent
        BY <3>1, <4>1, <4>2, <4>3, NonceAssumption DEF Absent
      <4> QED BY <4>2, <4>4 DEF Lasts
    <3>5. Held(copy[c].mem, m)' = Held(s.mem, m)'
      BY <3>1 DEF Held
    <3>6. Remembered(c)'
      BY <2>0, <2>2, <3>2, <3>4, <3>5 DEF Remembered, Keeps, Lasts, Horizon
    <3>7. HandledOnce'
      <4>1. SUFFICES ASSUME NEW d \in Copies, NEW e \in Copies, d # e, NonceOf[d] = NonceOf[e],
                            Passed(d)', Passed(e)', copy'[d].mem = copy'[e].mem,
                            copy'[d].mem # NoMemory
                     PROVE  FarAhead(d)' \/ FarAhead(e)'
        BY DEF HandledOnce
      <4>2. CASE d # c /\ e # c
        BY <2>5, <4>1, <4>2 DEF HandledOnce, OnceInv
      <4>3. CASE d = c
        BY <2>0, <2>5, <3>1, <3>3, <4>1, <4>3
      <4>4. CASE e = c
        BY <2>0, <2>5, <3>1, <3>3, <4>1, <4>4
      <4> QED BY <4>2, <4>3, <4>4
    <3> QED BY <2>5, <3>6, <3>7 DEF OnceInv
  <2> QED BY <2>1, <2>6, <2>7
<1> QED BY <1>1, <1>2, <1>3, <1>4, <1>5, <1>6, Effects

\* Of the copies of a request one memory lets one through, unless its timestamp was too far ahead
\* (auth.go Seen, redisnonce.go Seen).
THEOREM ReplaysCaught == Spec => []HandledOnce
<1>1. Init => OnceInv
  BY DEF Init, OnceInv, HandledOnce, Remembered, Passed, PassedStates, Undelivered
<1>2. OnceInv => HandledOnce
  BY DEF OnceInv
<1> QED BY <1>1, <1>2, GateInvInit, GateInvStep, OnceInvStep, PTL DEF Spec

-----------------------------------------------------------------------------
(* Refusals are true *)

\* What a memory holds it got from a copy it let through.
KnownBy(tag, n) ==
  Held(tag, n) # Absent
    => \E d \in Copies : NonceOf[d] = n /\ Passed(d) /\ copy[d].mem = tag

KnownInv ==
  /\ ReplayMeansKnown
  /\ \A tag \in Memories, n \in Nonces : KnownBy(tag, n)

LEMMA OutagesGrow ==
  ASSUME GateInv, [Next]_vars
  PROVE  outages > 0 => outages' > 0
<1>0. outages \in Nat
  BY DEF GateInv, HostInv
<1>1. CASE UNCHANGED outages
  BY <1>1
<1>2. CASE RedisFails
  BY <1>0, <1>2 DEF RedisFails
<1>3. ASSUME NEW p \in Processes, ProcessStep(p) PROVE UNCHANGED outages
  BY <1>3 DEF ProcessStep, Migrating, gateVars, Serve, Crash, Enrol, Arrive
<1>4. ASSUME NEW c \in Copies, Authenticate(c) \/ Handle(c) PROVE UNCHANGED outages
  BY <1>4 DEF Authenticate, Handle
<1>5. CASE Remove \/ RedisRecovers \/ Tick \/ \E n \in Nonces : Sign(n)
  <2>1. UNCHANGED outages
    BY <1>5 DEF Remove, RedisRecovers, Tick, Sign
  <2> QED BY <1>1, <2>1
<1>6. CASE UNCHANGED vars
  BY <1>1, <1>6 DEF vars, gateVars
<1> QED BY <1>1, <1>2, <1>3, <1>4, <1>5, <1>6 DEF Next

LEMMA KnownStays ==
  ASSUME KnownInv, outages > 0 => outages' > 0,
         \A d \in Copies : /\ Passed(d) => Passed(d)'
                           /\ copy'[d].st = "replay" => copy[d].st = "replay",
         \A c, d \in Copies : copy[c].mem = copy[d].mem => copy'[c].mem = copy'[d].mem,
         \A tag \in Memories, n \in Nonces :
           Held(tag, n)' # Absent
             => /\ Held(tag, n) # Absent
                /\ \A d \in Copies : copy[d].mem = tag => copy'[d].mem = tag
  PROVE  KnownInv'
<1>1. ReplayMeansKnown'
  <2> SUFFICES ASSUME NEW c \in Copies, copy'[c].st = "replay", ~(TRUE \in FailClosed /\ outages' > 0)
               PROVE  \E d \in Copies \ {c} :
                        NonceOf[d] = NonceOf[c] /\ Passed(d)' /\ copy'[d].mem = copy'[c].mem
    BY DEF ReplayMeansKnown
  <2>1. PICK d \in Copies \ {c} : NonceOf[d] = NonceOf[c] /\ Passed(d) /\ copy[d].mem = copy[c].mem
    BY DEF KnownInv, ReplayMeansKnown
  <2> QED BY <2>1
<1>2. ASSUME NEW tag \in Memories, NEW n \in Nonces PROVE KnownBy(tag, n)'
  BY DEF KnownInv, KnownBy
<1> QED BY <1>1, <1>2 DEF KnownInv

LEMMA KnownInvStep == GateInv /\ KnownInv /\ [Next]_vars => KnownInv'
<1> SUFFICES ASSUME GateInv, KnownInv, [Next]_vars PROVE KnownInv'
  OBVIOUS
<1>0. outages > 0 => outages' > 0
  BY OutagesGrow
<1>1. CASE Aside
  BY <1>0, <1>1, KnownStays DEF Aside, Passed, Held
<1>2. CASE Ticks
  BY <1>0, <1>2, KnownStays DEF Ticks, Passed, Held
<1>3. CASE Signs
  BY <1>0, <1>3, KnownStays DEF Signs, Passed, Held
<1>4. ASSUME NEW p \in Processes, Crashed(p) PROVE KnownInv'
  <2>1. ASSUME NEW d \in Copies
        PROVE  /\ Passed(d) => Passed(d)'
               /\ copy'[d].st = "replay" => copy[d].st = "replay"
               /\ copy'[d].mem = IF copy[d].mem = p THEN NoMemory ELSE copy[d].mem
    BY <1>4 DEF Crashed, Lost, Passed
  <2>2. ASSUME NEW tag \in Memories, NEW n \in Nonces, Held(tag, n)' # Absent
        PROVE  tag # p /\ Held(tag, n) # Absent
    <3>1. NewNonceCache.seen[n] = Absent
      BY DEF NewNonceCache
    <3>2. p # Shared
      BY GateAssumption
    <3>3. tag # p
      BY <1>4, <2>2, <3>1, <3>2 DEF Crashed, Held, GateInv
    <3>4. Held(tag, n)' = Held(tag, n)
      BY <1>4, <3>3 DEF Crashed, Held, Memories, GateInv
    <3> QED BY <2>2, <3>3, <3>4
  <2> QED BY <1>0, <2>1, <2>2, KnownStays
<1>5. ASSUME NEW c \in Copies, Moves(c) PROVE KnownInv'
  <2>1. PICK s : Calm(copy[c], s, c) /\ copy' = [copy EXCEPT ![c] = s]
    BY <1>5 DEF Moves
  <2>2. \A d \in Copies : copy'[d] = IF d = c THEN s ELSE copy[d]
    BY <2>1 DEF GateInv
  <2>3. ASSUME NEW d \in Copies
        PROVE  /\ Passed(d) => Passed(d)'
               /\ copy'[d].st = "replay" => copy[d].st = "replay"
               /\ copy'[d].mem = copy[d].mem
    BY <2>1, <2>2 DEF Calm, Passed
  <2>4. \A tag \in Memories, n \in Nonces : Held(tag, n)' = Held(tag, n)
    BY <1>5 DEF Moves, Held
  <2> QED BY <1>0, <2>3, <2>4, KnownStays
<1>6. ASSUME NEW c \in Copies, Judged(c) PROVE KnownInv'
  <2>0. PICK m \in Nonces : m = NonceOf[c]
    BY GateAssumption
  <2>1. PICK s \in CopyRow :
          /\ copy' = [copy EXCEPT ![c] = s]
          /\ s.st \in {"replay", "admitted"}
          /\ \/ /\ s.mem = NoMemory /\ UNCHANGED <<cache, redisNonces>>
                /\ s.st = "replay" => TRUE \in FailClosed /\ outages > 0
             \/ s.mem \in Memories /\ Asked(s, m, copy[c].now)
    BY <1>6, <2>0 DEF Judged
  <2>2. \A d \in Copies : copy'[d] = IF d = c THEN s ELSE copy[d]
    BY <2>1 DEF GateInv
  <2>3. ~Passed(c)
    BY <1>6 DEF Judged, Passed, PassedStates
  <2>4. ASSUME NEW d \in Copies, Passed(d)
        PROVE  d # c /\ Passed(d)' /\ copy'[d] = copy[d]
    BY <2>2, <2>3, <2>4 DEF Passed
  <2>5. ASSUME NEW tag \in Memories, NEW n \in Nonces, Held(tag, n)' # Absent
        PROVE  \E d \in Copies : NonceOf[d] = n /\ Passed(d)' /\ copy'[d].mem = tag
    <3>1. ASSUME Held(tag, n) # Absent
          PROVE  \E d \in Copies : NonceOf[d] = n /\ Passed(d)' /\ copy'[d].mem = tag
      <4>1. PICK d \in Copies : NonceOf[d] = n /\ Passed(d) /\ copy[d].mem = tag
        BY <3>1 DEF KnownInv, KnownBy
      <4> QED BY <2>4, <4>1
    <3>2. CASE UNCHANGED <<cache, redisNonces>>
      <4>1. Held(tag, n)' = Held(tag, n)
        BY <3>2 DEF Held
      <4> QED BY <2>5, <3>1, <4>1
    <3>3. CASE Asked(s, m, copy[c].now)
      <4>1. Held(tag, n) # Absent \/ (tag = s.mem /\ n = m /\ s.st = "admitted")
        BY <2>5, <3>3 DEF Asked
      <4>2. CASE tag = s.mem /\ n = m /\ s.st = "admitted"
        <5>1. Passed(c)' /\ copy'[c].mem = tag
          BY <2>2, <4>2 DEF Passed, PassedStates
        <5> QED BY <2>0, <4>2, <5>1
      <4> QED BY <3>1, <4>1, <4>2
    <3> QED BY <2>1, <3>2, <3>3
  <2>6. ReplayMeansKnown'
    <3> SUFFICES ASSUME NEW e \in Copies, copy'[e].st = "replay",
                        ~(TRUE \in FailClosed /\ outages' > 0)
                 PROVE  \E d \in Copies \ {e} :
                          NonceOf[d] = NonceOf[e] /\ Passed(d)' /\ copy'[d].mem = copy'[e].mem
      BY DEF ReplayMeansKnown
    <3>1. CASE e # c
      <4>1. copy'[e] = copy[e]
        BY <2>2, <3>1
      <4>2. PICK d \in Copies \ {e} :
              NonceOf[d] = NonceOf[e] /\ Passed(d) /\ copy[d].mem = copy[e].mem
        BY <1>0, <4>1 DEF KnownInv, ReplayMeansKnown
      <4> QED BY <2>4, <4>1, <4>2
    <3>2. CASE e = c
      <4>1. copy'[c] = s /\ s.st = "replay"
        BY <2>2, <3>2
      <4>2. s.mem \in Memories /\ Asked(s, m, copy[c].now)
        BY <1>0, <2>1, <4>1
      <4>3. PICK d \in Copies : NonceOf[d] = m /\ Passed(d) /\ copy[d].mem = s.mem
        BY <4>1, <4>2 DEF Asked, KnownInv, KnownBy
      <4> QED BY <2>0, <2>4, <3>2, <4>1, <4>3
    <3> QED BY <3>1, <3>2
  <2> QED BY <2>5, <2>6 DEF KnownInv, KnownBy
<1> QED BY <1>1, <1>2, <1>3, <1>4, <1>5, <1>6, Effects

\* A request is refused as a replay only when another copy of it got through that memory, or in
\* an outage of Redis that the settings answer so (deviceapi.go Auth, redisnonce.go failClosed).
THEOREM ReplaysAreTrue == Spec => []ReplayMeansKnown
<1>1. Init => KnownInv
  <2> SUFFICES ASSUME Init PROVE KnownInv
    OBVIOUS
  <2>1. \A tag \in Memories, n \in Nonces : Held(tag, n) = Absent
    BY GateAssumption DEF Init, Held, Memories, NewNonceCache, NewRedisNonces
  <2>2. ReplayMeansKnown
    BY DEF Init, ReplayMeansKnown, Undelivered
  <2> QED BY <2>1, <2>2 DEF KnownInv, KnownBy
<1>2. KnownInv => ReplayMeansKnown
  BY DEF KnownInv
<1> QED BY <1>1, <1>2, GateInvInit, GateInvStep, KnownInvStep, PTL DEF Spec

LegacyInv == LegacyReadable /\ (device.row = "absent" => device.sealed = NoKey)

LEMMA LegacyInvStep == GateInv /\ LegacyInv /\ [Next]_vars => LegacyInv'
<1> SUFFICES ASSUME GateInv, LegacyInv, [Next]_vars PROVE LegacyInv'
  OBVIOUS
<1>1. CASE Aside
  BY <1>1 DEF Aside, LegacyInv, LegacyReadable
<1>2. CASE Ticks \/ Signs
  BY <1>2 DEF Ticks, Signs, LegacyInv, LegacyReadable
<1>3. ASSUME NEW p \in Processes, Crashed(p) PROVE LegacyInv'
  BY <1>3 DEF Crashed, Lost, Barred, LegacyInv, LegacyReadable
<1>4. ASSUME NEW c \in Copies, Moves(c) PROVE LegacyInv'
  BY <1>4 DEF Moves, Calm, Barred, LegacyInv, LegacyReadable, GateInv
<1>5. ASSUME NEW c \in Copies, Judged(c) PROVE LegacyInv'
  BY <1>5 DEF Judged, LegacyInv, LegacyReadable, GateInv
<1> QED BY <1>1, <1>2, <1>3, <1>4, <1>5, Effects

\* Encryption at rest, switched on at any of the processes at any time, locks out no receiver
\* whose secret was stored before (encrypt.go).
THEOREM LegacyKeepsWorking == Spec => []LegacyReadable
<1>1. Init => LegacyInv
  BY DEF Init, LegacyInv, LegacyReadable, Undelivered
<1>2. LegacyInv => LegacyReadable
  BY DEF LegacyInv
<1> QED BY <1>1, <1>2, GateInvInit, GateInvStep, LegacyInvStep, PTL DEF Spec

=============================================================================
