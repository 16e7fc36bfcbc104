--------------------------- MODULE LimiterProofs ---------------------------
(***************************************************************************)
(* The limiters, for any number of sources, processes, copies and windows, *)
(* any rate and any burst.  The one in a process, with its map, timestamps *)
(* and sweep, is a token bucket for every source (LimitsAsPromised).  The  *)
(* counters in Redis are one budget for all processes, because a window's  *)
(* counter is the number of copies that were let in on it (SharedBudget).  *)
(* The types of the limiter's map complete the type invariant (TypeOK).    *)
(***************************************************************************)
EXTENDS GateProofs, FiniteSetTheorems, SequenceTheorems

-----------------------------------------------------------------------------
(* Buckets *)

LEMMA FullType == Full \in Nat /\ Unit \in Nat /\ Refill \in Nat
BY RateAssumption DEF Full

LEMMA NoBucketIsNone == NoBucket \notin Buckets
BY DEF NoBucket, Buckets

LEMMA RefilledType ==
  ASSUME NEW b \in Buckets, NEW now \in Nat, b.last <= now
  PROVE  /\ Refilled(b, now) \in Nat
         /\ Refilled(b, now + 1) = Refilled(b, now) + Refill
<1>0. b.tokens \in Nat /\ b.last \in Nat /\ now - b.last \in Nat
  BY FullType DEF Buckets
<1>1. PICK d \in Nat : d = now - b.last
  BY <1>0
<1>2. d * Refill \in Nat /\ (d + 1) * Refill = d * Refill + Refill
  BY FullType
<1>3. (now + 1) - b.last = d + 1
  BY <1>0, <1>1
<1> QED BY <1>0, <1>1, <1>2, <1>3, FullType DEF Refilled

\* What a bucket, or the absence of one, holds; it gains Refill units per tick up to full.
LEMMA BudgetType ==
  ASSUME NEW b \in Buckets \cup {NoBucket}, NEW now \in Nat, b.last <= now
  PROVE  /\ Budget(b, now) \in 0..Full
         /\ Budget(b, now + 1) =
              IF Budget(b, now) + Refill > Full THEN Full ELSE Budget(b, now) + Refill
<1>1. CASE b = NoBucket
  BY <1>1, FullType DEF Budget
<1>2. CASE b # NoBucket
  <2>1. PICK t \in Nat : t = Refilled(b, now) /\ Refilled(b, now + 1) = t + Refill
    BY <1>2, RefilledType
  <2>2. Budget(b, now) = AtMostFull(t) /\ Budget(b, now + 1) = AtMostFull(t + Refill)
    BY <1>2, <2>1 DEF Budget
  <2> QED BY <2>2, FullType DEF AtMostFull
<1> QED BY <1>1, <1>2

\* A sweep drops only what holds as much as a new bucket would.
LEMMA SweepSound ==
  ASSUME NEW l \in Limiters, NEW now \in Nat, NEW k \in LimitKeys, l.buckets[k].last <= now
  PROVE  /\ GC(l, now).buckets[k] \in {l.buckets[k], NoBucket}
         /\ Budget(GC(l, now).buckets[k], now) = Budget(l.buckets[k], now)
<1> DEFINE b == l.buckets[k]
<1>0. b \in Buckets \cup {NoBucket}
  BY DEF Limiters
<1>1. GC(l, now).buckets[k] = b \/ GC(l, now).buckets[k] = Swept(l.buckets, now)[k]
  BY DEF GC
<1>2. Swept(l.buckets, now)[k] =
        IF b # NoBucket /\ Refilled(b, now) >= Full THEN NoBucket ELSE b
  BY DEF Swept
<1> HIDE DEF b
<1>3. ASSUME b # NoBucket, Refilled(b, now) >= Full
      PROVE  Budget(b, now) = Budget(NoBucket, now)
  <2>1. PICK t \in Nat : t = Refilled(b, now)
    BY <1>0, <1>3, RefilledType DEF b
  <2> QED BY <1>3, <2>1, FullType DEF Budget, AtMostFull
<1> QED BY <1>1, <1>2, <1>3 DEF b

\* A bucket just written holds what was written.
LEMMA FreshBucket ==
  ASSUME NEW t \in 0..Full, NEW now \in Nat
  PROVE  /\ [tokens |-> t, last |-> now] \in Buckets
         /\ Budget([tokens |-> t, last |-> now], now) = t
<1> DEFINE b == [tokens |-> t, last |-> now]
<1>1. b \in Buckets /\ b.tokens = t /\ b.last = now
  BY DEF Buckets
<1>2. b # NoBucket
  BY <1>1, NoBucketIsNone
<1> HIDE DEF b
<1>3. Refilled(b, now) = t
  BY <1>1, FullType DEF Refilled
<1>4. Budget(b, now) = t
  BY <1>2, <1>3, FullType DEF Budget, AtMostFull
<1> QED BY <1>1, <1>4 DEF b

LEMMA GCType ==
  ASSUME NEW l \in Limiters, NEW now \in Nat
  PROVE  GC(l, now) \in Limiters
<1>1. Swept(l.buckets, now) \in [LimitKeys -> Buckets \cup {NoBucket}]
  BY DEF Swept, Limiters
<1> QED BY <1>1 DEF GC, Limiters

\* Allow charges the asker's key if it lets the asker through, and no other key.
LEMMA AllowCharges ==
  ASSUME NEW l \in Limiters, NEW now \in Nat, NEW src \in LimitKeys,
         \A k \in LimitKeys : l.buckets[k].last <= now
  PROVE  /\ AfterAllow(l, src, now) \in Limiters
         /\ \A k \in LimitKeys : AfterAllow(l, src, now).buckets[k].last <= now
         /\ Allowed(l, src, now) <=> Budget(l.buckets[src], now) >= Unit
         /\ Budget(AfterAllow(l, src, now).buckets[src], now) =
              IF Allowed(l, src, now) THEN Budget(l.buckets[src], now) - Unit
              ELSE Budget(l.buckets[src], now)
         /\ \A k \in LimitKeys \ {src} :
              Budget(AfterAllow(l, src, now).buckets[k], now) = Budget(l.buckets[k], now)
<1>1. PICK t \in 0..Full : t = Budget(l.buckets[src], now)
  BY BudgetType DEF Limiters
<1>2. Budget(GC(l, now).buckets[src], now) = t
  BY <1>1, SweepSound
<1>3. PICK u \in 0..Full : u = IF t >= Unit THEN t - Unit ELSE t
  <2>1. t \in Nat /\ t <= Full
    BY FullType
  <2>2. CASE t >= Unit
    BY <2>1, <2>2, FullType
  <2>3. CASE ~(t >= Unit)
    BY <2>3
  <2> QED BY <2>2, <2>3
<1> DEFINE fresh == [tokens |-> u, last |-> now]
           swept == GC(l, now)
           after == AfterAllow(l, src, now)
<1>4. after = [swept EXCEPT !.buckets[src] = fresh]
  BY <1>2, <1>3 DEF AfterAllow
<1>5. fresh \in Buckets /\ Budget(fresh, now) = u /\ fresh.last <= now
  BY <1>3, FreshBucket
<1>6. swept \in Limiters
  BY GCType
<1>7. \A k \in LimitKeys : /\ swept.buckets[k] \in {l.buckets[k], NoBucket}
                           /\ Budget(swept.buckets[k], now) = Budget(l.buckets[k], now)
  BY SweepSound
<1>8. NoBucket.last <= now
  BY DEF NoBucket
<1> HIDE DEF fresh, swept, after
<1>9. /\ after \in Limiters
      /\ after.buckets[src] = fresh
      /\ \A k \in LimitKeys \ {src} : after.buckets[k] = swept.buckets[k]
  BY <1>4, <1>5, <1>6 DEF Limiters
<1>10. Allowed(l, src, now) <=> t >= Unit
  BY <1>2 DEF Allowed
<1>11. \A k \in LimitKeys : after.buckets[k].last <= now
  <2> TAKE k \in LimitKeys
  <2>1. CASE k = src
    BY <2>1, <1>5, <1>9
  <2>2. CASE k # src
    BY <2>2, <1>7, <1>8, <1>9
  <2> QED BY <2>1, <2>2
<1> QED BY <1>1, <1>3, <1>5, <1>7, <1>9, <1>10, <1>11 DEF after

-----------------------------------------------------------------------------
(* The copies, as far as the limiter's verdicts go *)

Tags == Memories \cup {NoMemory}

LimitInv ==
  /\ clock \in Nat
  /\ limiter \in [Processes -> Limiters]
  /\ \A p \in Processes, k \in LimitKeys : limiter[p].buckets[k].last <= clock
  /\ copy \in [Copies -> CopyRow]
  /\ \A c \in Copies : copy[c].st \in {"out", "turned"} <=> copy[c].at = NoMemory

VerdictOn(r, c) ==
  IF r.at = NoMemory THEN <<>>
  ELSE << <<r.at, Source[NonceOf[c]]>>, r.st # "limited" >>

LEMMA VerdictsAre == Verdicts = [c \in Copies |-> VerdictOn(copy[c], c)]
BY DEF Verdicts, VerdictOn

LEMMA RowFields ==
  ASSUME NEW r \in CopyRow
  PROVE  r.st \in States /\ r.at \in Processes \cup {NoMemory} /\ r.now \in Nat
BY DEF CopyRow

\* A copy goes on, or is answered, behind the limiter.
Beyond(r, s) ==
  /\ s.at = r.at
  /\ \/ s.st = r.st
     \/ r.st \in InFlight /\ s.st \in States \ {"out", "turned", "limited"}

LEMMA BeyondKeeps ==
  ASSUME LimitInv, \A c \in Copies : Beyond(copy[c], copy'[c])
  PROVE  /\ Verdicts' = Verdicts
         /\ \A c \in Copies : copy'[c].st \in {"out", "turned"} <=> copy'[c].at = NoMemory
<1>1. ASSUME NEW c \in Copies
      PROVE  /\ VerdictOn(copy'[c], c) = VerdictOn(copy[c], c)
             /\ copy'[c].st \in {"out", "turned"} <=> copy'[c].at = NoMemory
  <2>1. copy[c].st \in {"out", "turned"} <=> copy[c].at = NoMemory
    BY DEF LimitInv
  <2>2. Beyond(copy[c], copy'[c])
    OBVIOUS
  <2> QED BY <2>1, <2>2 DEF Beyond, VerdictOn, InFlight
<1>2. Verdicts' = [c \in Copies |-> VerdictOn(copy'[c], c)]
  BY DEF Verdicts, VerdictOn
<1> QED BY <1>1, <1>2, VerdictsAre

\* One copy moves on.
MovesOn(c) ==
  \E s : s \in CopyRow /\ Beyond(copy[c], s) /\ copy' = [copy EXCEPT ![c] = s]

LEMMA OneBeyond ==
  ASSUME LimitInv, NEW c \in Copies, MovesOn(c)
  PROVE  /\ copy' \in [Copies -> CopyRow]
         /\ \A d \in Copies : Beyond(copy[d], copy'[d])
<1>1. PICK s : s \in CopyRow /\ Beyond(copy[c], s) /\ copy' = [copy EXCEPT ![c] = s]
  BY DEF MovesOn
<1>2. \A d \in Copies : copy'[d] = IF d = c THEN s ELSE copy[d]
  BY <1>1 DEF LimitInv
<1>3. \A d \in Copies : Beyond(copy[d], copy[d])
  BY DEF Beyond
<1> QED BY <1>1, <1>2, <1>3 DEF LimitInv

LEMMA AuthenticateBeyond ==
  ASSUME LimitInv, NEW c \in Copies, Authenticate(c)
  PROVE  MovesOn(c)
<1>0. copy \in [Copies -> CopyRow] /\ copy[c].st = "gated"
  BY DEF LimitInv, Authenticate
<1>r. PICK r \in CopyRow : r = copy[c]
  BY <1>0
<1>1. ASSUME NEW st \in {"refused", "unauthorized", "unread"}, Turn(c, st)
      PROVE  MovesOn(c)
  <2>1. st \in States \ {"out", "turned", "limited"}
    BY DEF States, Answers
  <2>2. PICK s : s = [r EXCEPT !.st = st, !.now = 0]
    OBVIOUS
  <2>3. s \in CopyRow /\ s.at = r.at /\ s.st = st
    BY <2>1, <2>2 DEF CopyRow
  <2>4. copy' = [copy EXCEPT ![c] = s]
    BY <1>0, <1>r, <1>1, <2>2 DEF Turn
  <2> QED BY <1>0, <1>r, <2>1, <2>3, <2>4 DEF Beyond, MovesOn, InFlight
<1>2. ASSUME NEW seen \in BOOLEAN, NEW tag \in Tags, Judge(c, seen, tag)
      PROVE  MovesOn(c)
  <2>1. PICK st \in {"replay", "admitted"} : st = IF seen THEN "replay" ELSE "admitted"
    OBVIOUS
  <2>2. PICK n \in Nat : n = IF seen THEN 0 ELSE r.now
    BY RowFields
  <2>3. PICK s : s = [r EXCEPT !.st = st, !.now = n, !.mem = tag]
    OBVIOUS
  <2>4. st \in States \ {"out", "turned", "limited"}
    BY DEF States, Answers, InFlight
  <2>5. s \in CopyRow /\ s.at = r.at /\ s.st = st
    BY <2>3, <2>4 DEF CopyRow, Tags
  <2>6. copy' = [copy EXCEPT ![c] = s]
    BY <1>0, <1>r, <1>2, <2>1, <2>2, <2>3 DEF Judge
  <2> QED BY <1>0, <1>r, <2>4, <2>5, <2>6 DEF Beyond, MovesOn, InFlight
<1>3. CASE Refused(copy[c].at, c)
  <2>1. PICK st \in {"refused", "unauthorized", "unread"} : Turn(c, st)
    BY <1>3 DEF Refused
  <2> QED BY <2>1, <1>1
<1>4. CASE CheckNonce(copy[c].at, c)
  <2>1. \A refuse \in FailClosed : refuse \in BOOLEAN
    BY GateAssumption
  <2>2. copy[c].at \in Tags /\ Shared \in Tags /\ NoMemory \in Tags
    BY <1>0, RowFields DEF Tags, Memories
  <2>3. PICK seen \in BOOLEAN, tag \in Tags : Judge(c, seen, tag)
    BY <1>4, <2>1, <2>2 DEF CheckNonce, Seen, RedisKnows
  <2> QED BY <2>3, <1>2
<1> QED BY <1>3, <1>4 DEF Authenticate

LEMMA HandleBeyond ==
  ASSUME LimitInv, NEW c \in Copies, Handle(c)
  PROVE  MovesOn(c)
<1>0. copy \in [Copies -> CopyRow] /\ copy[c].st = "admitted"
  BY DEF LimitInv, Handle
<1>r. PICK r \in CopyRow : r = copy[c]
  BY <1>0
<1>1. ASSUME NEW st \in {"ok", "throttled", "failed"}, NEW s,
             s \in CopyRow /\ s.at = r.at /\ s.st = st,
             copy' = [copy EXCEPT ![c] = s]
      PROVE  MovesOn(c)
  <2>1. st \in States \ {"out", "turned", "limited"}
    BY DEF States, Answers
  <2> QED BY <1>0, <1>r, <1>1, <2>1 DEF Beyond, MovesOn, InFlight
<1>2. ASSUME NEW st \in {"ok", "throttled", "failed"}, Answer(c, st)
      PROVE  MovesOn(c)
  <2>1. PICK s : s = [r EXCEPT !.st = st]
    OBVIOUS
  <2>2. copy' = [copy EXCEPT ![c] = s]
    BY <1>0, <1>r, <1>2, <2>1 DEF Answer
  <2>3. st \in States
    BY DEF States, Answers
  <2>4. s \in CopyRow /\ s.at = r.at /\ s.st = st
    BY <2>1, <2>3 DEF CopyRow
  <2> QED BY <1>1, <2>2, <2>4
<1>3. ASSUME copy' = [copy EXCEPT ![c].st = "ok", ![c].win = Window]
      PROVE  MovesOn(c)
  <2>1. PICK w \in Nat : w = Window
    <3>1. clock \in Nat /\ WindowTicks \in Nat \ {0}
      BY GateAssumption DEF LimitInv
    <3> QED BY <3>1 DEF Window
  <2>2. PICK s : s = [r EXCEPT !.st = "ok", !.win = w]
    OBVIOUS
  <2>3. copy' = [copy EXCEPT ![c] = s]
    BY <1>0, <1>r, <1>3, <2>1, <2>2
  <2>4. "ok" \in States
    BY DEF States, Answers
  <2>5. s \in CopyRow /\ s.at = r.at /\ s.st = "ok"
    BY <2>2, <2>4 DEF CopyRow
  <2> QED BY <1>1, <2>3, <2>5
<1> QED BY <1>2, <1>3 DEF Handle

\* The process that has the copy dies: what is in its hands is answered with an error.
LEMMA CrashBeyond ==
  ASSUME LimitInv, NEW p \in Processes, Crash(p)
  PROVE  /\ copy' \in [Copies -> CopyRow]
         /\ \A c \in Copies :
              /\ copy'[c].at = copy[c].at
              /\ \/ copy'[c].st = copy[c].st
                 \/ copy[c].st \in InFlight /\ copy'[c].st \in {"refused", "failed"}
<1>1. ASSUME NEW c \in Copies
      PROVE  /\ copy'[c] \in CopyRow
             /\ copy'[c].at = copy[c].at
             /\ \/ copy'[c].st = copy[c].st
                \/ copy[c].st \in InFlight /\ copy'[c].st \in {"refused", "failed"}
  <2>1. PICK st : st = CASE copy[c].at = p /\ copy[c].st = "gated"    -> "refused"
                         [] copy[c].at = p /\ copy[c].st = "admitted" -> "failed"
                         [] OTHER                                     -> copy[c].st
    OBVIOUS
  <2>2. PICK n : n = IF copy[c].at = p /\ copy[c].st = "gated" THEN 0 ELSE copy[c].now
    OBVIOUS
  <2>3. PICK m : m = IF copy[c].mem = p THEN NoMemory ELSE copy[c].mem
    OBVIOUS
  <2>4. copy'[c] = [copy[c] EXCEPT !.st = st, !.now = n, !.mem = m]
    BY <2>1, <2>2, <2>3 DEF Crash
  <2>5. copy[c] \in CopyRow
    BY DEF LimitInv
  <2>6. n \in Nat /\ m \in Tags
    BY <2>2, <2>3, <2>5 DEF CopyRow, Tags, Memories
  <2>7. \/ st = copy[c].st
        \/ copy[c].st \in InFlight /\ st \in {"refused", "failed"}
    BY <2>1 DEF InFlight
  <2>8. st \in States
    BY <2>5, <2>7 DEF CopyRow, States, Answers
  <2> QED BY <2>4, <2>5, <2>6, <2>7, <2>8 DEF CopyRow, Tags
<1>2. copy' = [c \in Copies |-> copy'[c]]
  BY DEF Crash
<1> QED BY <1>1, <1>2

-----------------------------------------------------------------------------
(* Steps *)

LevelOf(k) == Budget(limiter[k[1]].buckets[k[2]], clock)
Keys == Processes \X LimitKeys

LEMMA LevelsAre ==
  /\ Levels = [k \in Keys |-> LevelOf(k)]
  /\ Levels' = [k \in Keys |-> LevelOf(k)']
BY DEF Levels, LevelOf, Keys

\* Requests that are denied before the limiter, or behind it, and all else that neither takes
\* time nor a bucket.
LEMMA Unlimited ==
  ASSUME LimitInv, UNCHANGED <<clock, limiter, copy>>
  PROVE  LimitInv' /\ UNCHANGED TB!bucketVars
BY DEF LimitInv, Levels, Verdicts, TB!bucketVars

LEMMA TickTicks ==
  ASSUME LimitInv, Tick
  PROVE  LimitInv' /\ TB!TimePasses
<1>1. clock' = clock + 1 /\ UNCHANGED <<limiter, copy>> /\ clock \in Nat
  BY DEF Tick, LimitInv
<1>2. LimitInv'
  <2>1. ASSUME NEW p \in Processes, NEW k \in LimitKeys
        PROVE  limiter[p].buckets[k].last <= clock + 1
    <3>1. limiter[p].buckets[k] \in Buckets \cup {NoBucket}
      BY DEF LimitInv, Limiters
    <3>2. limiter[p].buckets[k].last \in Int
      BY <3>1 DEF Buckets, NoBucket
    <3> QED BY <3>2, <1>1 DEF LimitInv
  <2> QED BY <1>1, <2>1 DEF LimitInv
<1>3. ASSUME NEW k \in Keys
      PROVE  LevelOf(k)' = IF LevelOf(k) + Refill > Full THEN Full ELSE LevelOf(k) + Refill
  <2>1. PICK b : b = limiter[k[1]].buckets[k[2]]
    OBVIOUS
  <2>2. b \in Buckets \cup {NoBucket} /\ b.last <= clock
    BY <2>1 DEF LimitInv, Limiters, Keys
  <2>3. LevelOf(k) = Budget(b, clock) /\ LevelOf(k)' = Budget(b, clock + 1)
    BY <1>1, <2>1 DEF LevelOf
  <2> QED BY <1>1, <2>2, <2>3, BudgetType
<1>4. Verdicts' = Verdicts
  BY <1>1 DEF Verdicts
<1>5. Levels' = [k \in Keys |-> IF Levels[k] + Refill > Full THEN Full ELSE Levels[k] + Refill]
  BY <1>3, LevelsAre
<1> QED BY <1>2, <1>4, <1>5 DEF TB!TimePasses, Keys

\* The process's buckets are gone: all its sources may spend a full bucket again.
LEMMA CrashRestarts ==
  ASSUME LimitInv, NEW p \in Processes, Crash(p)
  PROVE  LimitInv' /\ TB!Restart({p} \X LimitKeys)
<1>1. limiter' = [limiter EXCEPT ![p] = NewLimiter] /\ clock' = clock /\ clock \in Nat
  BY DEF Crash, LimitInv
<1>2. /\ NewLimiter \in Limiters
      /\ \A k \in LimitKeys : NewLimiter.buckets[k] = NoBucket
  BY RateAssumption DEF NewLimiter, Limiters
<1>3. Verdicts' = Verdicts /\ copy' \in [Copies -> CopyRow]
      /\ \A c \in Copies : copy'[c].st \in {"out", "turned"} <=> copy'[c].at = NoMemory
  <2>1. \A c \in Copies : Beyond(copy[c], copy'[c])
    BY CrashBeyond DEF Beyond, States, Answers
  <2> QED BY <2>1, BeyondKeeps, CrashBeyond
<1>4. \A q \in Processes : limiter'[q] = IF q = p THEN NewLimiter ELSE limiter[q]
  BY <1>1 DEF LimitInv
<1>5. LimitInv'
  <2>1. NoBucket.last <= clock
    BY <1>1 DEF NoBucket
  <2>2. limiter' \in [Processes -> Limiters]
    BY <1>1, <1>2 DEF LimitInv
  <2>3. \A q \in Processes, k \in LimitKeys : limiter'[q].buckets[k].last <= clock'
    BY <1>1, <1>2, <1>4, <2>1 DEF LimitInv
  <2> QED BY <1>1, <1>3, <2>2, <2>3 DEF LimitInv
<1>6. ASSUME NEW k \in Keys
      PROVE  LevelOf(k)' = IF k \in {p} \X LimitKeys THEN Full ELSE LevelOf(k)
  <2>1. k[1] \in Processes /\ k[2] \in LimitKeys /\ (k \in {p} \X LimitKeys <=> k[1] = p)
    BY DEF Keys
  <2>2. CASE k[1] = p
    BY <2>1, <2>2, <1>2, <1>4 DEF LevelOf, Budget
  <2>3. CASE k[1] # p
    BY <2>1, <2>3, <1>1, <1>4 DEF LevelOf
  <2> QED BY <2>2, <2>3
<1>7. Levels' = [k \in Keys |-> IF k \in {p} \X LimitKeys THEN Full ELSE Levels[k]]
  BY <1>6, LevelsAre
<1> QED BY <1>3, <1>5, <1>7 DEF TB!Restart, Keys

\* A copy that reaches the limiter is let through, and charged, exactly when its source's
\* bucket at this process has a token.
LEMMA ArriveAsks ==
  ASSUME LimitInv, NEW p \in Processes, NEW c \in Copies, Arrive(p, c)
  PROVE  LimitInv' /\ [TB!Next]_(TB!bucketVars)
<1> DEFINE src == Source[NonceOf[c]]
<1>0. /\ src \in LimitKeys /\ clock' = clock /\ clock \in Nat
      /\ p # NoMemory
      /\ copy \in [Copies -> CopyRow] /\ copy[c] \in CopyRow /\ copy[c].st = "out"
  BY GateAssumption DEF Arrive, LimitInv
<1>1. CASE copy' = [copy EXCEPT ![c].st = "turned"] /\ UNCHANGED limiter
  <2>1. PICK s : s = [copy[c] EXCEPT !.st = "turned"]
    OBVIOUS
  <2>2. s \in CopyRow /\ s.at = copy[c].at /\ s.st = "turned"
    <3>1. "turned" \in States
      BY DEF States, Answers
    <3> QED BY <1>0, <2>1, <3>1 DEF CopyRow
  <2>3. /\ copy' \in [Copies -> CopyRow]
        /\ \A d \in Copies : copy'[d] = IF d = c THEN s ELSE copy[d]
    BY <1>0, <1>1, <2>1, <2>2
  <2>4. ASSUME NEW d \in Copies
        PROVE  /\ VerdictOn(copy'[d], d) = VerdictOn(copy[d], d)
               /\ copy'[d].st \in {"out", "turned"} <=> copy'[d].at = NoMemory
    <3>1. copy[d].st \in {"out", "turned"} <=> copy[d].at = NoMemory
      BY DEF LimitInv
    <3>2. CASE d = c
      BY <1>0, <2>2, <2>3, <3>1, <3>2 DEF VerdictOn
    <3>3. CASE d # c
      BY <2>3, <3>1, <3>3
    <3> QED BY <3>2, <3>3
  <2>5. Verdicts' = [d \in Copies |-> VerdictOn(copy'[d], d)]
    BY DEF Verdicts, VerdictOn
  <2>6. Verdicts' = Verdicts
    BY <2>4, <2>5, VerdictsAre
  <2>7. Levels' = Levels
    BY <1>0, <1>1 DEF Levels
  <2>8. LimitInv'
    BY <1>0, <1>1, <2>3, <2>4 DEF LimitInv
  <2> QED BY <2>6, <2>7, <2>8 DEF TB!bucketVars
<1>2. CASE /\ limiter' = [limiter EXCEPT ![p] = AfterAllow(@, src, clock)]
           /\ Deliver(p, c, IF Allowed(limiter[p], src, clock) THEN "gated" ELSE "limited")
  <2>1. PICK l \in Limiters : l = limiter[p] /\ \A k \in LimitKeys : l.buckets[k].last <= clock
    BY DEF LimitInv
  <2>2. PICK after \in Limiters :
           /\ after = AfterAllow(l, src, clock)
           /\ \A k \in LimitKeys : after.buckets[k].last <= clock
           /\ Allowed(l, src, clock) <=> Budget(l.buckets[src], clock) >= Unit
           /\ Budget(after.buckets[src], clock) =
                IF Allowed(l, src, clock) THEN Budget(l.buckets[src], clock) - Unit
                ELSE Budget(l.buckets[src], clock)
           /\ \A k \in LimitKeys \ {src} :
                Budget(after.buckets[k], clock) = Budget(l.buckets[k], clock)
    BY <1>0, <2>1, AllowCharges
  <2> HIDE DEF src
  <2>3. /\ limiter' \in [Processes -> Limiters]
        /\ \A q \in Processes : limiter'[q] = IF q = p THEN after ELSE limiter[q]
    BY <1>2, <2>1, <2>2 DEF LimitInv
  <2>4. \A q \in Processes, k \in LimitKeys : limiter'[q].buckets[k].last <= clock'
    BY <1>0, <2>2, <2>3 DEF LimitInv
  <2> DEFINE asked == <<p, src>>
  <2>5. asked \in Keys /\ LevelOf(asked) = Budget(l.buckets[src], clock)
    BY <1>0, <2>1 DEF Keys, LevelOf
  <2>6. /\ Allowed(l, src, clock) <=> LevelOf(asked) >= Unit
        /\ LevelOf(asked)' = IF Allowed(l, src, clock) THEN LevelOf(asked) - Unit ELSE LevelOf(asked)
    BY <1>0, <2>2, <2>3, <2>5 DEF LevelOf
  <2>7. ASSUME NEW k \in Keys, k # asked
        PROVE  LevelOf(k)' = LevelOf(k)
    <3>1. k[1] \in Processes /\ k[2] \in LimitKeys /\ (k[1] # p \/ k[2] # src)
      BY <2>7 DEF Keys
    <3>2. CASE k[1] # p
      BY <3>1, <3>2, <1>0, <2>3 DEF LevelOf
    <3>3. CASE k[1] = p /\ k[2] # src
      BY <3>1, <3>3, <1>0, <2>1, <2>2, <2>3 DEF LevelOf
    <3> QED BY <3>1, <3>2, <3>3
  <2>8. PICK st \in {"gated", "limited"} :
           st = IF Allowed(l, src, clock) THEN "gated" ELSE "limited"
    OBVIOUS
  <2>9. PICK s : /\ s \in CopyRow /\ s.at = p /\ s.st = st
                 /\ copy' = [copy EXCEPT ![c] = s]
    <3>1. PICK n \in Nat : n = IF st = "gated" THEN clock ELSE 0
      BY <1>0
    <3>2. PICK s : s = [copy[c] EXCEPT !.st = st, !.at = p, !.now = n]
      OBVIOUS
    <3>3. st \in States
      BY DEF States, InFlight, Answers
    <3>4. s \in CopyRow /\ s.at = p /\ s.st = st
      BY <1>0, <3>2, <3>3 DEF CopyRow
    <3>5. Deliver(p, c, st)
      BY <1>2, <2>1, <2>8
    <3>6. copy' = [copy EXCEPT ![c] = s]
      BY <3>1, <3>2, <3>5 DEF Deliver
    <3> QED BY <3>4, <3>6
  <2>10. /\ copy' \in [Copies -> CopyRow]
         /\ \A d \in Copies : copy'[d] = IF d = c THEN s ELSE copy[d]
    BY <1>0, <2>9
  <2>11. /\ \A d \in Copies : copy'[d].st \in {"out", "turned"} <=> copy'[d].at = NoMemory
    BY <1>0, <2>9, <2>10 DEF LimitInv
  <2>12. LimitInv'
    BY <1>0, <2>3, <2>4, <2>10, <2>11 DEF LimitInv
  <2>13. Verdicts[c] = <<>> /\ Verdicts' = [Verdicts EXCEPT ![c] = <<asked, st # "limited">>]
    <3>1. VerdictOn(copy[c], c) = <<>>
      BY <1>0 DEF LimitInv, VerdictOn
    <3>2. VerdictOn(copy'[c], c) = <<asked, st # "limited">>
      BY <1>0, <2>9, <2>10 DEF VerdictOn, src
    <3>3. \A d \in Copies \ {c} : VerdictOn(copy'[d], d) = VerdictOn(copy[d], d)
      BY <2>10
    <3>4. Verdicts' = [d \in Copies |-> VerdictOn(copy'[d], d)]
      BY DEF Verdicts, VerdictOn
    <3> HIDE DEF asked
    <3> QED BY <3>1, <3>2, <3>3, <3>4, VerdictsAre
  <2>14. Levels[asked] = LevelOf(asked)
    BY <2>5, LevelsAre
  <2> HIDE DEF asked
  <2>15. CASE Allowed(l, src, clock)
    <3>1. Levels' = [Levels EXCEPT ![asked] = @ - Unit]
      BY <2>5, <2>6, <2>7, <2>15, LevelsAre
    <3>2. TB!Allow(c, asked)
      BY <2>6, <2>8, <2>13, <2>14, <2>15, <3>1 DEF TB!Allow, TB!Untold
    <3> QED BY <2>5, <2>12, <3>2 DEF TB!Next, Keys
  <2>16. CASE ~Allowed(l, src, clock)
    <3>1. Levels' = Levels
      BY <2>5, <2>6, <2>7, <2>16, LevelsAre
    <3>2. LevelOf(asked) < Unit
      <4>1. l.buckets[src] \in Buckets \cup {NoBucket} /\ l.buckets[src].last <= clock
        BY <1>0, <2>1 DEF Limiters, src
      <4>2. LevelOf(asked) \in Nat
        BY <1>0, <2>5, <4>1, BudgetType, FullType DEF asked
      <4> QED BY <2>6, <2>16, <4>2, FullType
    <3>3. TB!Deny(c, asked)
      BY <2>8, <2>13, <2>14, <2>16, <3>1, <3>2 DEF TB!Deny, TB!Untold
    <3> QED BY <2>5, <2>12, <3>3 DEF TB!Next, Keys
  <2> QED BY <2>15, <2>16
<1> QED BY <1>1, <1>2 DEF Arrive

LEMMA LimitInit == Init => LimitInv /\ TB!Init
<1> SUFFICES ASSUME Init PROVE LimitInv /\ TB!Init
  OBVIOUS
<1>1. /\ clock = 0
      /\ limiter = [p \in Processes |-> NewLimiter]
      /\ copy = [c \in Copies |-> Undelivered]
  BY DEF Init
<1>2. /\ NewLimiter \in Limiters
      /\ \A k \in LimitKeys : NewLimiter.buckets[k] = NoBucket
  BY RateAssumption DEF NewLimiter, Limiters
<1>3. Undelivered \in CopyRow /\ Undelivered.st = "out" /\ Undelivered.at = NoMemory
  BY DEF Undelivered, CopyRow, States, Tags, Memories
<1>4. LimitInv
  BY <1>1, <1>2, <1>3 DEF LimitInv, NoBucket
<1>5. Levels = [k \in Keys |-> Full]
  <2>1. \A k \in Keys : LevelOf(k) = Full
    BY <1>1, <1>2 DEF Keys, LevelOf, Budget
  <2> QED BY <2>1, LevelsAre
<1>6. Verdicts = [c \in Copies |-> <<>>]
  BY <1>1, <1>3 DEF Verdicts
<1> QED BY <1>4, <1>5, <1>6 DEF TB!Init, TB!Untold, Keys

LEMMA LimitStep == LimitInv /\ [Next]_vars => LimitInv' /\ [TB!Next]_(TB!bucketVars)
<1> SUFFICES ASSUME LimitInv, [Next]_vars
             PROVE  LimitInv' /\ [TB!Next]_(TB!bucketVars)
  OBVIOUS
<1>1. CASE UNCHANGED <<clock, limiter, copy>>
  BY <1>1, Unlimited
<1>2. ASSUME UNCHANGED <<clock, limiter>>, copy' \in [Copies -> CopyRow],
             \A c \in Copies : Beyond(copy[c], copy'[c])
      PROVE  LimitInv' /\ [TB!Next]_(TB!bucketVars)
  <2>1. /\ Verdicts' = Verdicts
        /\ \A c \in Copies : copy'[c].st \in {"out", "turned"} <=> copy'[c].at = NoMemory
    BY <1>2, BeyondKeeps
  <2>2. Levels' = Levels
    BY <1>2 DEF Levels
  <2>3. LimitInv'
    BY <1>2, <2>1 DEF LimitInv
  <2> QED BY <2>1, <2>2, <2>3 DEF TB!bucketVars
<1>3. ASSUME NEW p \in Processes, ProcessStep(p)
      PROVE  LimitInv' /\ [TB!Next]_(TB!bucketVars)
  <2>1. CASE Migrating(p)
    BY <2>1, <1>1 DEF Migrating, gateVars
  <2>2. CASE Serve(p) \/ Enrol(p)
    BY <2>2, <1>1 DEF Serve, Enrol
  <2>3. CASE Crash(p)
    <3>1. LimitInv' /\ TB!Restart({p} \X LimitKeys)
      BY <2>3, CrashRestarts
    <3>2. {p} \X LimitKeys \in SUBSET (Processes \X LimitKeys)
      OBVIOUS
    <3> QED BY <3>1, <3>2 DEF TB!Next
  <2>4. ASSUME NEW c \in Copies, Arrive(p, c)
        PROVE  LimitInv' /\ [TB!Next]_(TB!bucketVars)
    BY <2>4, ArriveAsks
  <2> QED BY <1>3, <2>1, <2>2, <2>3, <2>4 DEF ProcessStep
<1>4. ASSUME NEW c \in Copies, Authenticate(c) \/ Handle(c)
      PROVE  LimitInv' /\ [TB!Next]_(TB!bucketVars)
  <2>1. UNCHANGED <<clock, limiter>>
    BY <1>4 DEF Authenticate, Handle
  <2>2. MovesOn(c)
    BY <1>4, AuthenticateBeyond, HandleBeyond
  <2> QED BY <2>1, <2>2, <1>2, OneBeyond
<1>5. CASE (\E n \in Nonces : Sign(n)) \/ Remove \/ RedisFails \/ RedisRecovers
  BY <1>5, <1>1 DEF Sign, Remove, RedisFails, RedisRecovers
<1>6. CASE Tick
  BY <1>6, TickTicks DEF TB!Next
<1>7. CASE UNCHANGED vars
  BY <1>7, <1>1 DEF vars, gateVars
<1> QED BY <1>3, <1>4, <1>5, <1>6, <1>7 DEF Next

\* The limiter of every process, which drops a bucket when it finds it full and makes a new one
\* on the next request, decides as one that keeps a bucket per source for as long as the process
\* lives (ratelimit.go: "the sweep cannot change limiting decisions").
THEOREM LimiterIsTokenBucket == Spec => LimitsAsPromised
<1> QED BY LimitInit, LimitStep, PTL DEF Spec, LimitsAsPromised, TB!Spec

-----------------------------------------------------------------------------
(* The shared limiter *)

\* The copies that were served through the shared limiter in window w.
Served(w) == {c \in Copies : copy[c].win = w}

\* The window Redis counts is the last one in which it let anything through, and it has
\* counted whatever it let through there.
BudgetInv ==
  /\ redisHits \in [window : Nat, count : Nat]
  /\ redisHits.window <= Window
  /\ Cardinality(Served(redisHits.window)) <= redisHits.count
  /\ \A w \in Nat : /\ IsFiniteSet(Served(w)) /\ Cardinality(Served(w)) <= WindowRate
                    /\ w > redisHits.window => Served(w) = {}

WinsKept == \A d \in Copies : copy'[d].win = copy[d].win

\* Copy c is counted, and let through if the count allows it.
Counted(c) ==
  /\ UNCHANGED clock
  /\ redisHits' = [window |-> Window, count |-> HitsNow + 1]
  /\ \/ WinsKept
     \/ /\ WithinRate(HitsNow + 1)
        /\ \A d \in Copies : copy'[d].win = IF d = c THEN Window ELSE copy[d].win

LEMMA WindowType ==
  ASSUME NEW t \in Nat
  PROVE  t \div WindowTicks \in Nat /\ t \div WindowTicks <= (t + 1) \div WindowTicks
BY GateAssumption

\* A row that changes elsewhere keeps its window.
LEMMA OneWin ==
  ASSUME LimitInv, NEW c \in Copies, NEW s, s.win = copy[c].win, copy' = [copy EXCEPT ![c] = s]
  PROVE  WinsKept
<1>1. \A d \in Copies : copy'[d] = IF d = c THEN s ELSE copy[d]
  BY DEF LimitInv
<1> QED BY <1>1 DEF WinsKept

LEMMA ArriveKeepsWins ==
  ASSUME LimitInv, NEW p \in Processes, NEW c \in Copies, Arrive(p, c)
  PROVE  WinsKept
<1>0. PICK r \in CopyRow : r = copy[c]
  BY DEF LimitInv
<1>1. CASE copy' = [copy EXCEPT ![c].st = "turned"]
  <2>1. PICK s : s = [r EXCEPT !.st = "turned"]
    OBVIOUS
  <2>2. copy' = [copy EXCEPT ![c] = s] /\ s.win = r.win
    BY <1>0, <1>1, <2>1 DEF CopyRow
  <2> QED BY <1>0, <2>2, OneWin
<1>2. ASSUME NEW st, Deliver(p, c, st) PROVE WinsKept
  <2>1. PICK n : n = IF st = "gated" THEN clock ELSE 0
    OBVIOUS
  <2>2. PICK s : s = [r EXCEPT !.st = st, !.at = p, !.now = n]
    OBVIOUS
  <2>3. copy' = [copy EXCEPT ![c] = s]
    BY <1>0, <1>2, <2>1, <2>2 DEF Deliver
  <2>4. s.win = r.win
    BY <2>2 DEF CopyRow
  <2> QED BY <1>0, <2>3, <2>4, OneWin
<1> QED BY <1>1, <1>2 DEF Arrive

LEMMA AuthenticateKeepsWins ==
  ASSUME LimitInv, NEW c \in Copies, Authenticate(c)
  PROVE  WinsKept
<1>0. PICK r \in CopyRow : r = copy[c]
  BY DEF LimitInv
<1>1. ASSUME NEW st, Turn(c, st) PROVE WinsKept
  <2>1. PICK s : s = [r EXCEPT !.st = st, !.now = 0]
    OBVIOUS
  <2>2. copy' = [copy EXCEPT ![c] = s]
    BY <1>0, <1>1, <2>1 DEF Turn, LimitInv
  <2>3. s.win = r.win
    BY <2>1 DEF CopyRow
  <2> QED BY <1>0, <2>2, <2>3, OneWin
<1>2. ASSUME NEW seen, NEW tag, Judge(c, seen, tag) PROVE WinsKept
  <2>1. PICK st, n : st = (IF seen THEN "replay" ELSE "admitted") /\ n = IF seen THEN 0 ELSE r.now
    OBVIOUS
  <2>2. PICK s : s = [r EXCEPT !.st = st, !.now = n, !.mem = tag]
    OBVIOUS
  <2>3. copy' = [copy EXCEPT ![c] = s]
    BY <1>0, <1>2, <2>1, <2>2 DEF Judge
  <2>4. s.win = r.win
    BY <2>2 DEF CopyRow
  <2> QED BY <1>0, <2>3, <2>4, OneWin
<1> QED BY <1>1, <1>2 DEF Authenticate, Refused, CheckNonce

LEMMA HandleCounts ==
  ASSUME LimitInv, NEW c \in Copies, Handle(c)
  PROVE  (UNCHANGED <<clock, redisHits>> /\ WinsKept) \/ Counted(c)
<1>0. PICK r \in CopyRow : r = copy[c]
  BY DEF LimitInv
<1>1. ASSUME NEW st, Answer(c, st) PROVE WinsKept
  <2>1. PICK s : s = [r EXCEPT !.st = st]
    OBVIOUS
  <2>2. copy' = [copy EXCEPT ![c] = s] /\ s.win = r.win
    BY <1>0, <1>1, <2>1 DEF Answer, LimitInv, CopyRow
  <2> QED BY <1>0, <2>2, OneWin
<1>2. ASSUME copy' = [copy EXCEPT ![c].st = "ok", ![c].win = Window]
      PROVE  \A d \in Copies : copy'[d].win = IF d = c THEN Window ELSE copy[d].win
  <2>1. PICK w : w = Window
    OBVIOUS
  <2>2. PICK s : s = [r EXCEPT !.st = "ok", !.win = w]
    OBVIOUS
  <2>3. copy' = [copy EXCEPT ![c] = s]
    BY <1>0, <1>2, <2>1, <2>2 DEF LimitInv
  <2>4. s.win = w
    BY <2>2 DEF CopyRow
  <2> QED BY <2>1, <2>3, <2>4 DEF LimitInv
<1>3. UNCHANGED clock
  BY DEF Handle
<1> QED BY <1>1, <1>2, <1>3 DEF Handle, Counted

LEMMA CrashKeepsWins ==
  ASSUME LimitInv, NEW p \in Processes, Crash(p)
  PROVE  WinsKept
<1>1. ASSUME NEW c \in Copies PROVE copy'[c].win = copy[c].win
  <2>0. PICK r \in CopyRow : r = copy[c]
    BY DEF LimitInv
  <2>1. PICK st, n, m : copy'[c] = [r EXCEPT !.st = st, !.now = n, !.mem = m]
    BY <2>0 DEF Crash
  <2> QED BY <2>0, <2>1 DEF CopyRow
<1> QED BY <1>1 DEF WinsKept

LEMMA StepCounts ==
  ASSUME LimitInv, [Next]_vars
  PROVE  \/ clock' \in {clock, clock + 1} /\ UNCHANGED redisHits /\ WinsKept
         \/ \E c \in Copies : Counted(c)
<1>1. CASE UNCHANGED <<clock, redisHits, copy>>
  BY <1>1 DEF WinsKept
<1>2. CASE Tick
  BY <1>2 DEF Tick, WinsKept
<1>3. ASSUME NEW p \in Processes, ProcessStep(p)
      PROVE  UNCHANGED <<clock, redisHits>> /\ WinsKept
  <2>1. CASE Migrating(p) \/ Serve(p) \/ Enrol(p)
    BY <2>1 DEF Migrating, gateVars, Serve, Enrol, WinsKept
  <2>2. CASE Crash(p)
    BY <2>2, CrashKeepsWins DEF Crash
  <2>3. ASSUME NEW c \in Copies, Arrive(p, c)
        PROVE  UNCHANGED <<clock, redisHits>> /\ WinsKept
    BY <2>3, ArriveKeepsWins DEF Arrive
  <2> QED BY <1>3, <2>1, <2>2, <2>3 DEF ProcessStep
<1>4. ASSUME NEW c \in Copies, Authenticate(c)
      PROVE  UNCHANGED <<clock, redisHits>> /\ WinsKept
  BY <1>4, AuthenticateKeepsWins DEF Authenticate
<1>5. CASE (\E n \in Nonces : Sign(n)) \/ Remove \/ RedisFails \/ RedisRecovers
  BY <1>5, <1>1 DEF Sign, Remove, RedisFails, RedisRecovers
<1>6. CASE UNCHANGED vars
  BY <1>6, <1>1 DEF vars, gateVars
<1> QED BY <1>2, <1>3, <1>4, <1>5, <1>6, HandleCounts DEF Next

LEMMA BudgetInvStep == LimitInv /\ BudgetInv /\ [Next]_vars => BudgetInv'
<1> SUFFICES ASSUME LimitInv, BudgetInv, [Next]_vars PROVE BudgetInv'
  OBVIOUS
<1>0. PICK w \in Nat, v \in Nat, n \in Nat :
        w = Window /\ v = redisHits.window /\ n = redisHits.count /\ v <= w
  <2>1. Window \in Nat
    BY WindowType DEF LimitInv, Window
  <2> QED BY <2>1 DEF BudgetInv
<1>1. ASSUME clock' \in {clock, clock + 1}, UNCHANGED redisHits, WinsKept PROVE BudgetInv'
  <2>1. \A x \in Nat : Served(x)' = Served(x)
    BY <1>1 DEF WinsKept, Served
  <2>2. Window' \in Nat /\ w <= Window'
    <3>1. clock \in Nat
      BY DEF LimitInv
    <3> QED BY <1>0, <1>1, <3>1, WindowType DEF Window
  <2>3. redisHits'.window <= Window'
    BY <1>0, <1>1, <2>2
  <2>4. Served(redisHits.window)' = Served(v)
    BY <1>0, <1>1, <2>1 DEF Served
  <2> QED BY <1>0, <1>1, <2>1, <2>3, <2>4 DEF BudgetInv
<1>2. ASSUME NEW c \in Copies, Counted(c) PROVE BudgetInv'
  <2>1. PICK k \in Nat : k = HitsNow /\ k = IF v = w THEN n ELSE 0
    BY <1>0 DEF HitsNow
  <2>2. /\ redisHits' = [window |-> w, count |-> k + 1]
        /\ redisHits'.window = w /\ redisHits'.count = k + 1
        /\ Window' = w
    BY <1>0, <1>2, <2>1 DEF Counted, Window
  <2>3. IsFiniteSet(Served(w)) /\ Cardinality(Served(w)) \in Nat /\ Cardinality(Served(w)) <= k
    <3>1. IsFiniteSet(Served(w))
      BY DEF BudgetInv
    <3>2. CASE v = w
      BY <1>0, <2>1, <3>1, <3>2, FS_CardinalityType DEF BudgetInv
    <3>3. CASE v # w
      <4>1. Served(w) = {}
        BY <1>0, <3>3 DEF BudgetInv
      <4> QED BY <2>1, <3>1, <3>3, <4>1, FS_EmptySet
    <3> QED BY <3>2, <3>3
  <2>4. ASSUME NEW x \in Nat, x # w \/ WinsKept
        PROVE  Served(x)' \subseteq Served(x)
    BY <1>0, <1>2, <2>4 DEF Counted, WinsKept, Served
  <2>5. ASSUME NEW x \in Nat, Served(x)' \subseteq Served(x)
        PROVE  /\ IsFiniteSet(Served(x)') /\ Cardinality(Served(x)') <= WindowRate
               /\ Cardinality(Served(x)') <= Cardinality(Served(x))
               /\ x > w => Served(x)' = {}
    <3>1. PICK old, new : old = Served(x) /\ new = Served(x)'
      OBVIOUS
    <3>2. IsFiniteSet(old) /\ Cardinality(old) <= WindowRate /\ (x > v => old = {})
      BY <1>0, <3>1 DEF BudgetInv
    <3>3. IsFiniteSet(new) /\ Cardinality(new) <= Cardinality(old)
      BY <2>5, <3>1, <3>2, FS_Subset
    <3>4. Cardinality(new) \in Nat /\ Cardinality(old) \in Nat
      BY <3>2, <3>3, FS_CardinalityType
    <3>5. Cardinality(new) <= WindowRate
      BY <3>2, <3>3, <3>4, GateAssumption
    <3>6. x > w => new = {}
      BY <1>0, <2>5, <3>1, <3>2
    <3> QED BY <3>1, <3>3, <3>5, <3>6
  <2>6. /\ IsFiniteSet(Served(w)') /\ Cardinality(Served(w)') <= WindowRate
        /\ Cardinality(Served(w)') <= k + 1
    <3>1. CASE WinsKept
      <4>1. IsFiniteSet(Served(w)') /\ Cardinality(Served(w)') \in Nat
        BY <2>4, <2>5, <3>1, FS_CardinalityType
      <4> QED BY <2>3, <2>4, <2>5, <3>1, <4>1
    <3>2. CASE /\ WithinRate(HitsNow + 1)
               /\ \A d \in Copies : copy'[d].win = IF d = c THEN Window ELSE copy[d].win
      <4>1. PICK old : old = Served(w) /\ IsFiniteSet(old)
        BY <2>3
      <4>2. Served(w)' = old \cup {c}
        BY <1>0, <3>2, <4>1 DEF Served
      <4>3. IsFiniteSet(old \cup {c}) /\ Cardinality(old \cup {c}) <= Cardinality(old) + 1
        <5>1. Cardinality(old) \in Nat
          BY <4>1, FS_CardinalityType
        <5>2. /\ IsFiniteSet(old \cup {c})
              /\ Cardinality(old \cup {c}) \in {Cardinality(old), Cardinality(old) + 1}
          BY <4>1, FS_AddElement
        <5> QED BY <5>1, <5>2
      <4>4. Cardinality(old \cup {c}) \in Nat
        BY <4>3, FS_CardinalityType
      <4>5. k + 1 <= WindowRate
        BY <2>1, <3>2 DEF WithinRate
      <4> QED BY <2>1, <2>3, <4>1, <4>2, <4>3, <4>4, <4>5, GateAssumption
    <3> QED BY <1>2, <3>1, <3>2 DEF Counted
  <2>7. ASSUME NEW x \in Nat
        PROVE  /\ IsFiniteSet(Served(x)') /\ Cardinality(Served(x)') <= WindowRate
               /\ x > w => Served(x)' = {}
    BY <2>4, <2>5, <2>6
  <2>8. Served(redisHits.window)' = Served(w)'
    BY <2>2 DEF Served
  <2>9. redisHits' \in [window : Nat, count : Nat]
    BY <2>1, <2>2
  <2> QED BY <2>2, <2>6, <2>7, <2>8, <2>9 DEF BudgetInv
<1> QED BY <1>1, <1>2, StepCounts

LEMMA BudgetInit == Init => BudgetInv
<1> SUFFICES ASSUME Init PROVE BudgetInv
  OBVIOUS
<1>1. \A w \in Nat : Served(w) = {}
  BY DEF Init, Served, Undelivered, NoWindow
<1>2. /\ redisHits \in [window : Nat, count : Nat]
      /\ redisHits.window = 0 /\ redisHits.count = 0
      /\ Window = 0
  BY GateAssumption DEF Init, Window
<1>3. ASSUME NEW w \in Nat
      PROVE  /\ IsFiniteSet(Served(w)) /\ Cardinality(Served(w)) = 0
             /\ Cardinality(Served(w)) <= WindowRate
  BY <1>1, FS_EmptySet, GateAssumption
<1> QED BY <1>1, <1>2, <1>3 DEF BudgetInv

\* The processes that share Redis serve together at most WindowRate reports in a window,
\* however they die, restart, lose Redis and find it again (ratelimit/redis.go Allow).
THEOREM BudgetIsShared == Spec => []SharedBudget
<1>1. BudgetInv => SharedBudget
  <2>1. \A w \in 0..(MaxClock \div WindowTicks) : w \in Nat
    BY GateAssumption
  <2> QED BY <2>1 DEF BudgetInv, SharedBudget, Served
<1>2. LimitInv /\ [Next]_vars => LimitInv'
  BY LimitStep
<1>3. Init => LimitInv
  BY LimitInit
<1> QED BY <1>1, <1>2, <1>3, BudgetInit, BudgetInvStep, PTL DEF Spec

-----------------------------------------------------------------------------
(* Types *)

\* What the other invariants leave open: the bounds, and that nothing was swept in the future.
BoundInv ==
  /\ clock <= MaxClock
  /\ redisUp \in BOOLEAN
  /\ faults \in 0..MaxFaults /\ outages \in 0..faults
  /\ \A p \in Processes : cache[p].lastGC <= clock /\ limiter[p].lastGC <= clock

LEMMA SweptNow ==
  /\ \A l \in Limiters, now \in Nat, src \in LimitKeys :
       AfterAllow(l, src, now).lastGC \in {l.lastGC, now}
  /\ \A l \in NonceCaches, now \in Nat, n \in Nonces :
       AfterSeen(l, n, now).lastGC \in {l.lastGC, now}
<1>1. ASSUME NEW l \in Limiters, NEW now \in Nat, NEW src \in LimitKeys
      PROVE  AfterAllow(l, src, now).lastGC \in {l.lastGC, now}
  <2>1. PICK g \in Limiters : g = GC(l, now)
    BY GCType
  <2>2. g.lastGC \in {l.lastGC, now}
    BY <2>1 DEF GC
  <2>3. PICK b : AfterAllow(l, src, now) = [g EXCEPT !.buckets[src] = b]
    BY <2>1 DEF AfterAllow
  <2>4. AfterAllow(l, src, now).lastGC = g.lastGC
    BY <2>3 DEF Limiters
  <2> QED BY <2>2, <2>4
<1>2. ASSUME NEW l \in NonceCaches, NEW now \in Nat, NEW n \in Nonces
      PROVE  AfterSeen(l, n, now).lastGC \in {l.lastGC, now}
  <2>1. PICK g \in NonceCaches : g = GCNonces(l, now)
    BY CacheTypes
  <2>2. g.lastGC \in {l.lastGC, now}
    BY <2>1 DEF GCNonces
  <2>3. AfterSeen(l, n, now) = g \/ AfterSeen(l, n, now) = [g EXCEPT !.seen[n] = now]
    BY <2>1 DEF AfterSeen
  <2>4. AfterSeen(l, n, now).lastGC = g.lastGC
    BY <2>3 DEF NonceCaches
  <2> QED BY <2>2, <2>4
<1> QED BY <1>1, <1>2

LEMMA BoundInvStep == GateInv /\ LimitInv /\ BoundInv /\ [Next]_vars => BoundInv'
<1> SUFFICES ASSUME GateInv, LimitInv, BoundInv, [Next]_vars PROVE BoundInv'
  OBVIOUS
<1>0. /\ clock \in Nat /\ cache \in [Processes -> NonceCaches]
      /\ limiter \in [Processes -> Limiters] /\ MaxFaults \in Nat /\ MaxClock \in Nat
  BY GateAssumption DEF GateInv, LimitInv
<1>1. CASE UNCHANGED <<clock, cache, limiter, redisUp, faults, outages>>
  BY <1>1 DEF BoundInv
<1>2. ASSUME Fault, UNCHANGED <<clock, cache, limiter>>, redisUp' \in BOOLEAN,
             outages' \in {outages, outages + 1}
      PROVE  BoundInv'
  BY <1>0, <1>2 DEF BoundInv, Fault
<1>3. ASSUME NEW p \in Processes, Serve(p) PROVE BoundInv'
  BY <1>1, <1>2, <1>3 DEF Serve, BoundInv
<1>4. ASSUME NEW p \in Processes, Crash(p) PROVE BoundInv'
  <2>1. NewNonceCache.lastGC <= clock /\ NewLimiter.lastGC <= clock
    BY <1>0, NonceAssumption, RateAssumption DEF NewNonceCache, NewLimiter
  <2>2. /\ cache' = [cache EXCEPT ![p] = NewNonceCache]
        /\ limiter' = [limiter EXCEPT ![p] = NewLimiter]
        /\ Fault /\ UNCHANGED <<clock, redisUp, outages>>
    BY <1>4 DEF Crash
  <2>3. \A q \in Processes : cache'[q].lastGC <= clock /\ limiter'[q].lastGC <= clock
    BY <1>0, <2>1, <2>2 DEF BoundInv
  <2>4. faults' \in 0..MaxFaults /\ outages' \in 0..faults'
    BY <1>0, <2>2 DEF BoundInv, Fault
  <2> QED BY <2>2, <2>3, <2>4 DEF BoundInv
<1>5. ASSUME NEW p \in Processes, NEW c \in Copies, Arrive(p, c) PROVE BoundInv'
  <2>1. CASE UNCHANGED limiter
    BY <1>1, <1>5, <2>1 DEF Arrive
  <2>2. CASE limiter' = [limiter EXCEPT ![p] = AfterAllow(@, Source[NonceOf[c]], clock)]
    <3>1. PICK l \in Limiters : l = AfterAllow(limiter[p], Source[NonceOf[c]], clock)
                               /\ l.lastGC \in {limiter[p].lastGC, clock}
      <4>1. limiter[p] \in Limiters /\ Source[NonceOf[c]] \in LimitKeys
        BY <1>0, GateAssumption
      <4>2. \A k \in LimitKeys : limiter[p].buckets[k].last <= clock
        BY DEF LimitInv
      <4> QED BY <1>0, <4>1, <4>2, SweptNow, AllowCharges
    <3>2. \A q \in Processes : limiter'[q] = IF q = p THEN l ELSE limiter[q]
      BY <1>0, <2>2, <3>1
    <3>3. UNCHANGED <<clock, cache, redisUp, faults, outages>>
      BY <1>5 DEF Arrive
    <3> QED BY <1>0, <3>1, <3>2, <3>3 DEF BoundInv
  <2> QED BY <1>5, <2>1, <2>2 DEF Arrive
<1>6. ASSUME NEW c \in Copies, Authenticate(c) PROVE BoundInv'
  <2>0. UNCHANGED <<clock, limiter, redisUp, outages>>
    BY <1>6 DEF Authenticate
  <2>1. CASE Refused(copy[c].at, c)
    BY <1>1, <1>2, <2>0, <2>1 DEF Refused, BoundInv
  <2>2. CASE CheckNonce(copy[c].at, c) /\ UNCHANGED cache
    BY <1>1, <2>0, <2>2 DEF CheckNonce
  <2>3. CASE CheckNonce(copy[c].at, c) /\ cache' # cache
    <3>1. PICK p \in Processes, n \in Nonces, now \in Nat :
            p = copy[c].at /\ n = NonceOf[c] /\ now = copy[c].now /\ now <= clock
      <4>1. Flying(c) /\ copy[c].st = "gated" /\ copy[c] \in CopyRow
        BY <1>6 DEF GateInv, Authenticate
      <4>2. copy[c].now \in Nat
        BY <4>1 DEF CopyRow
      <4> QED BY <4>1, <4>2, GateAssumption DEF Flying
    <3>2. cache' = [cache EXCEPT ![p] = AfterSeen(@, n, now)] /\ UNCHANGED faults
      BY <2>3, <3>1 DEF CheckNonce
    <3>3. PICK l \in NonceCaches : l = AfterSeen(cache[p], n, now)
                                  /\ l.lastGC \in {cache[p].lastGC, now}
      BY <1>0, <3>1, SweptNow, CacheTypes
    <3>4. \A q \in Processes : cache'[q] = IF q = p THEN l ELSE cache[q]
      BY <1>0, <3>2, <3>3
    <3> QED BY <1>0, <2>0, <3>1, <3>2, <3>3, <3>4 DEF BoundInv
  <2> QED BY <1>6, <2>1, <2>2, <2>3 DEF Authenticate
<1>7. ASSUME NEW c \in Copies, Handle(c) PROVE BoundInv'
  BY <1>1, <1>2, <1>7 DEF Handle, BoundInv
<1>8. CASE Tick
  <2>1. ASSUME NEW p \in Processes
        PROVE  cache[p].lastGC <= clock + 1 /\ limiter[p].lastGC <= clock + 1
    <3>1. cache[p].lastGC \in Int /\ limiter[p].lastGC \in Int
      BY <1>0 DEF NonceCaches, Limiters
    <3> QED BY <1>0, <3>1 DEF BoundInv
  <2>2. clock + 1 <= MaxClock
    BY <1>0, <1>8 DEF Tick
  <2> QED BY <1>8, <2>1, <2>2 DEF Tick, BoundInv
<1>9. CASE RedisFails \/ Remove
  BY <1>2, <1>9 DEF RedisFails, Remove, BoundInv
<1>10. CASE RedisRecovers
  BY <1>10 DEF RedisRecovers, BoundInv
<1>11. ASSUME NEW p \in Processes, Migrating(p) \/ Enrol(p) PROVE BoundInv'
  BY <1>1, <1>11 DEF Migrating, gateVars, Enrol
<1>12. ASSUME NEW n \in Nonces, Sign(n) PROVE BoundInv'
  BY <1>1, <1>12 DEF Sign
<1>13. CASE UNCHANGED vars
  BY <1>1, <1>13 DEF vars, gateVars
<1> QED BY <1>3, <1>4, <1>5, <1>6, <1>7, <1>8, <1>9, <1>10, <1>11, <1>12, <1>13
        DEF Next, ProcessStep

LEMMA BoundInit == Init => BoundInv
<1> SUFFICES ASSUME Init PROVE BoundInv
  OBVIOUS
<1>1. NewNonceCache.lastGC <= 0 /\ NewLimiter.lastGC <= 0
  BY NonceAssumption, RateAssumption DEF NewNonceCache, NewLimiter
<1>2. redisUp \in BOOLEAN
  BY GateAssumption DEF Init
<1> QED BY <1>1, <1>2, GateAssumption DEF Init, BoundInv

\* Every variable keeps its type, clocks of sweeps are never ahead, and the row of a copy names
\* processes, memories and windows that exist.
THEOREM GateTypes == Spec => []TypeOK
<1>1. MigrateInv /\ GateInv /\ LimitInv /\ BudgetInv /\ BoundInv => TypeOK
  <2> SUFFICES ASSUME MigrateInv, GateInv, LimitInv, BudgetInv, BoundInv PROVE TypeOK
    OBVIOUS
  <2>1. applied \in Seq(1..NFiles)
    <3>1. PICK k \in Nat : k = Len(applied) /\ k <= NFiles /\ applied \in [1..k -> Nat]
      BY DEF MigrateInv, AppliedInOrder
    <3>2. \A i \in 1..k : applied[i] \in 1..NFiles
      BY <3>1, MigrateAssumption DEF MigrateInv, AppliedInOrder
    <3>3. applied \in [1..k -> 1..NFiles]
      BY <3>1, <3>2
    <3>4. [1..k -> 1..NFiles] \subseteq Seq(1..NFiles)
      BY SeqDef
    <3> QED BY <3>3, <3>4
  <2>2. clock \in 0..MaxClock
    BY GateAssumption DEF BoundInv, GateInv
  <2>3. /\ stage \in [Processes -> {"down", "check", "apply", "ready", "serving"}]
        /\ file \in [Processes -> 1..(NFiles + 1)]
    BY DEF MigrateInv
  <2>4. /\ key \in [Processes -> KeySettings]
        /\ memory \in [Processes -> Processes \cup {Shared}]
        /\ device \in [row : {"absent", "present", "removed"}, sealed : KeySettings]
    BY DEF GateInv, HostInv, Memories
  <2>5. copy \in [Copies -> [st : {"out"} \cup InFlight \cup Answers,
                             at : Processes \cup {NoMemory},
                             now : Nat,
                             mem : Processes \cup {Shared, NoMemory},
                             win : Nat \cup {NoWindow}]]
    <3>1. Memories \cup {NoMemory} = Processes \cup {Shared, NoMemory}
      BY DEF Memories
    <3> QED BY <3>1 DEF GateInv, CopyRow, States
  <2>6. /\ cache \in [Processes -> NonceCaches] /\ redisNonces \in Memory
        /\ made \in [Nonces -> Nat \cup {Unsigned}]
    BY DEF GateInv, MadeType
  <2> QED BY <2>1, <2>2, <2>3, <2>4, <2>5, <2>6 DEF LimitInv, BudgetInv, BoundInv, TypeOK
<1>2. LimitInv /\ [Next]_vars => LimitInv'
  BY LimitStep
<1>3. Init => LimitInv
  BY LimitInit
<1> QED BY <1>1, <1>2, <1>3, MigrateInvInit, MigrateInvStep, GateInvInit, GateInvStep,
           BudgetInit, BudgetInvStep, BoundInit, BoundInvStep, PTL DEF Spec
=============================================================================
