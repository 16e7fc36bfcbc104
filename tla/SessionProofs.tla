--------------------------- MODULE SessionProofs ---------------------------
EXTENDS CoordinatorProofs

(* The rows of the sessions table, for every value of the constants.  Each step of the
   coordinator writes at most one of six statements to the table (SessionsStep); from that
   come the UNIQUE indexes as an invariant of the rows, what a row keeps from one step to the
   next, and that the instructions of a pending session identify it. *)

(* CreateSession of call c succeeds: no unique index objects to the row it inserts. *)
Inserts(c) ==
  /\ calls[c].pc = "create" /\ calls'[c].pc = "done"
  /\ \E code \in GeneratedCodes(c) :
       ~Conflicts(Candidate(c, code)) /\ InsertSession(c, Candidate(c, code))

(* The report keeps everything its outcome is judged by. *)
SameData(r) ==
  /\ reports'[r].sig = reports[r].sig /\ reports'[r].number = reports[r].number
  /\ reports'[r].session = reports[r].session /\ reports'[r].found = reports[r].found

(* The UPDATE of VerifySession runs for report r, whether or not its answer comes back. *)
Verifies(r) ==
  /\ reports[r].pc = "verify" /\ SameData(r)
  /\ VerifySession(reports[r].session, reports[r].sig.sender)
  /\ reports'[r].won = Pending(reports[r].session)
  /\ \/ /\ Pending(reports[r].session)
        /\ reports'[r].pc = "notify" /\ reports'[r].outcome = "matched"
     \/ reports'[r].pc = "record" /\ reports'[r].outcome = "error"

(* VerifySession in Service.Inbound, for the winner of a race. *)
LEMMA VerifyStep ==
  ASSUME TypeInv, NEW r \in Reports, VerifyMatched(r), Pending(reports[r].session)
  PROVE  Verifies(r)
<1> DEFINE x == [reports[r] EXCEPT !.pc = "notify", !.outcome = "matched", !.won = TRUE]
<1>1. /\ x.pc = "notify" /\ x.outcome = "matched" /\ x.won = TRUE /\ x.sig = reports[r].sig
      /\ x.number = reports[r].number /\ x.session = reports[r].session
      /\ x.found = reports[r].found
  BY DEF TypeInv, TypeOK, VerifyTypeOK, ReportState
<1>2. reports'[r] = x
  BY DEF VerifyMatched, Advance, TypeInv, TypeOK, VerifyTypeOK
<1>3. Pending(reports[r].session) = TRUE
  BY DEF Pending
<1> HIDE DEF x
<1> QED BY <1>1, <1>2, <1>3 DEF VerifyMatched, Verifies, SameData

(* VerifySession whose UPDATE took effect and whose answer was an error. *)
LEMMA VerifyFaultStep ==
  ASSUME TypeInv, NEW r \in Reports, reports[r].pc = "verify",
         VerifySession(reports[r].session, reports[r].sig.sender),
         Advance(r, [reports[r] EXCEPT !.pc = "record", !.outcome = "error",
                                       !.won = Pending(reports[r].session)])
  PROVE  Verifies(r)
<1> DEFINE p == Pending(reports[r].session)
           x == [reports[r] EXCEPT !.pc = "record", !.outcome = "error", !.won = p]
<1>1. p \in BOOLEAN
  BY DEF Pending
<1>2. reports'[r] = x
  BY DEF Advance, TypeInv, TypeOK, VerifyTypeOK
<1> HIDE DEF p
<1>3. /\ x.pc = "record" /\ x.outcome = "error" /\ x.won = p /\ x.sig = reports[r].sig
      /\ x.number = reports[r].number /\ x.session = reports[r].session
      /\ x.found = reports[r].found
  BY <1>1 DEF TypeInv, TypeOK, VerifyTypeOK, ReportState
<1> HIDE DEF x
<1> QED BY <1>2, <1>3 DEF Verifies, SameData, p

(* The sessions table is written by six statements only: the INSERT of CreateSession, the
   UPDATEs of IncrementAttempts, VerifySession and ExpireDue, and the ON DELETE SET NULL of
   DeleteDevice. *)
LEMMA SessionsStep ==
  ASSUME TypeInv, [Next]_vars
  PROVE  \/ UNCHANGED sessions
         \/ \E c \in Calls : Inserts(c)
         \/ \E r \in Reports : reports[r].pc = "attempt" /\ IncrementAttempts(reports[r].session)
         \/ \E r \in Reports : Verifies(r)
         \/ ExpireDue
         \/ \E d \in Devices : DeleteDevice(d)
<1>1. CASE UNCHANGED vars
  BY <1>1 DEF vars, storeVars
<1>2. ASSUME NEW c \in Calls, BeginStart(c) \/ StartPickNumber(c) \/ StartNoNumber(c)
      PROVE  UNCHANGED sessions
  BY <1>2 DEF BeginStart, StartPickNumber, StartNoNumber, storeVars
<1>3. ASSUME NEW c \in Calls, Proceed(c, [calls[c] EXCEPT !.pc = "done", !.result = "created"])
                              \/ Proceed(c, [calls[c] EXCEPT !.pc = "done", !.result = "error"])
      PROVE  calls'[c].pc = "done"
  BY <1>3 DEF Proceed, TypeInv, TypeOK, VerifyTypeOK, CallState
<1>4. ASSUME NEW c \in Calls, StartCreateSession(c) \/ StartFault(c)
      PROVE  UNCHANGED sessions \/ Inserts(c)
  BY <1>3, <1>4 DEF StartCreateSession, StartFault, Inserts
<1>5. ASSUME NEW r \in Reports, Receive(r) \/ Resolve(r) \/ Gate(r) \/ Match(r) \/ Notify(r)
                                \/ CountFailures(r) \/ CountFlood(r) \/ CreateBlock(r)
                                \/ RecordEvent(r)
      PROVE  UNCHANGED sessions
  BY <1>5 DEF Receive, Resolve, Gate, Match, Notify, CountFailures, CountFlood, CreateBlock,
              RecordEvent, storeVars
<1>6. ASSUME NEW r \in Reports, ClaimMismatch(r) \/ VerifyMatched(r) \/ ReportFault(r)
      PROVE  \/ UNCHANGED sessions
             \/ reports[r].pc = "attempt" /\ IncrementAttempts(reports[r].session)
             \/ Verifies(r)
  <2>1. CASE VerifyMatched(r) /\ ~Pending(reports[r].session)
    BY <2>1 DEF VerifyMatched, VerifySession
  <2>2. CASE VerifyMatched(r) /\ Pending(reports[r].session)
    BY <2>2, VerifyStep
  <2> QED BY <1>6, <2>1, <2>2, VerifyFaultStep DEF ClaimMismatch, ReportFault
<1>7. CASE Tick \/ Provision \/ Prune
  BY <1>7 DEF Tick, Provision, Prune, CreateDevice, SetHeartbeat, CreateNumber,
              DeleteInboundEventsBefore
<1>8. CASE RemoveDevice \/ Sweep
  BY <1>8, CoordinatorAssumption DEF RemoveDevice, Sweep
<1> QED BY <1>1, <1>2, <1>4, <1>5, <1>6, <1>7, <1>8 DEF Next, VerifyNext, StartStep, InboundStep

(* Two rows one of the partial UNIQUE indexes of schema.sql forbids to stand together. *)
Clash(x, y) ==
  /\ x.status = "pending" /\ y.status = "pending"
  /\ x.number = y.number /\ x.number # None
  /\ \/ x.code # None /\ x.code = y.code
     \/ x.channel \in VoiceChannels /\ y.channel \in VoiceChannels

(* No two pending rows clash: what the indexes promise of the whole table. *)
UniqueRows == \A c, d \in Calls : Clash(sessions[c], sessions[d]) => c = d

(* A statement that makes no row pending and moves no code, channel or number (but to NULL)
   cannot make two rows clash. *)
LEMMA RowsShrink ==
  ASSUME TypeInv, UniqueRows,
         \A c \in Calls : sessions'[c].status = "pending" =>
            /\ sessions[c].status = "pending"
            /\ sessions'[c].number \in {sessions[c].number, None}
            /\ sessions'[c].code = sessions[c].code /\ sessions'[c].channel = sessions[c].channel
  PROVE  UniqueRows'
  BY DEF UniqueRows, Clash

(* Every step keeps the rows unique: the INSERT because Conflicts refuses a clashing row, the
   other statements because they only shrink the set of pending rows. *)
LEMMA NextUnique ==
  ASSUME TypeInv, UniqueRows, [Next]_vars
  PROVE  UniqueRows'
<1>1. CASE UNCHANGED sessions
  BY <1>1 DEF UniqueRows, Clash
<1>2. ASSUME NEW c \in Calls, Inserts(c)
      PROVE  UniqueRows'
  <2>1. PICK code \in GeneratedCodes(c) :
          ~Conflicts(Candidate(c, code)) /\ InsertSession(c, Candidate(c, code))
    BY <1>2 DEF Inserts
  <2> DEFINE row == Candidate(c, code)
  <2>2. sessions' = [sessions EXCEPT ![c] = row] /\ row.status = "pending"
    BY <2>1 DEF InsertSession, Candidate
  <2>3. \A d \in Calls : ~Clash(row, sessions[d]) /\ ~Clash(sessions[d], row)
    BY <2>1 DEF Conflicts, Clash, Pending
  <2> HIDE DEF row
  <2>4. \A d \in Calls : sessions'[d] = IF d = c THEN row ELSE sessions[d]
    BY <2>2 DEF TypeInv, TypeOK, StoreTypeOK
  <2> QED BY <2>3, <2>4 DEF UniqueRows
<1>3. ASSUME NEW r \in Reports, reports[r].pc = "attempt", IncrementAttempts(reports[r].session)
      PROVE  UniqueRows'
  BY <1>3, RowsShrink, SessionRowType DEF IncrementAttempts, TypeInv, TypeOK, StoreTypeOK,
     SessionRow
<1>4. ASSUME NEW r \in Reports, Verifies(r)
      PROVE  UniqueRows'
  BY <1>4, RowsShrink, SessionRowType DEF Verifies, VerifySession, TypeInv, TypeOK, StoreTypeOK,
     SessionRow
<1>5. CASE ExpireDue
  BY <1>5, RowsShrink, SessionRowType DEF ExpireDue, SessionRow
<1>6. ASSUME NEW d \in Devices, DeleteDevice(d)
      PROVE  UniqueRows'
  BY <1>6, RowsShrink, SessionRowType DEF DeleteDevice, SessionRow
<1> QED BY <1>1, <1>2, <1>3, <1>4, <1>5, <1>6, SessionsStep

(* The partial UNIQUE indexes on (number, code) and on voice sessions per number hold of the
   table at all times. *)
THEOREM UniqueInvariant == Spec => []UniqueRows
<1>1. Init => UniqueRows
  BY DEF Init, StoreInit, UniqueRows, Clash, NoSession
<1> QED BY <1>1, NextUnique, TypeInvariant, PTL DEF Spec

(* Two pending voice sessions never share a line: the caller who dials it has one session to
   mean. *)
THEOREM OneVoice == Spec => []OneVoicePerLine
<1>1. UniqueRows => OneVoicePerLine
  BY StoreAssumption DEF UniqueRows, Clash, OneVoicePerLine, VoicePendingOn, PendingOn, Pending
<1> QED BY <1>1, UniqueInvariant, PTL

(* Start has inserted the row of call c. *)
Opened(c) == sessions[c].status # "none"

(* What a call of Service.Start and its row have in common: the row appears when Start returns
   and not before, has no sender until it is verified, expires at most TTL after a time that
   has come, and holds a code on the channels that ask for one. *)
CallSafe(c) ==
  /\ calls[c].pc # "done" => ~Opened(c)
  /\ ~Opened(c) => sessions[c].verified = None
  /\ calls[c].pc \in {"pick", "create"} => calls[c].expires <= now + TTL
  /\ Opened(c) => /\ sessions[c].expires <= now + TTL
                  /\ sessions[c].channel \in {"sms", "dtmf"} => sessions[c].code \in Codes

CallsSafe == \A c \in Calls : CallSafe(c)

(* What no statement may change in an inserted row: what was promised in the answer of Start,
   and, once it is verified, by whom. *)
Kept(c) ==
  Opened(c) =>
    /\ Opened(c)'
    /\ sessions'[c].channel = sessions[c].channel /\ sessions'[c].binding = sessions[c].binding
    /\ sessions'[c].code = sessions[c].code /\ sessions'[c].claimed = sessions[c].claimed
    /\ sessions'[c].expires = sessions[c].expires
    /\ sessions'[c].number \in {sessions[c].number, None}
    /\ sessions[c].status = "verified" =>
         sessions'[c].status = "verified" /\ sessions'[c].verified = sessions[c].verified

(* Every step keeps what Start promised of a row, and a verified row stays verified by the same
   sender. *)
LEMMA RowsKept ==
  ASSUME TypeInv, CallsSafe, [Next]_vars, NEW d \in Calls
  PROVE  Kept(d)
<1>0. sessions[d] \in SessionRow /\ sessions \in [Calls -> SessionRow]
  BY DEF TypeInv, TypeOK, StoreTypeOK
<1>1. CASE UNCHANGED sessions
  BY <1>1 DEF Kept, Opened
<1>2. ASSUME NEW c \in Calls, Inserts(c)
      PROVE  Kept(d)
  BY <1>0, <1>2 DEF Inserts, InsertSession, CallsSafe, CallSafe, Kept, Opened
<1>3. ASSUME NEW r \in Reports, reports[r].pc = "attempt", IncrementAttempts(reports[r].session)
      PROVE  Kept(d)
  BY <1>0, <1>3 DEF IncrementAttempts, SessionRow, Kept, Opened
<1>4. ASSUME NEW r \in Reports, Verifies(r)
      PROVE  Kept(d)
  BY <1>0, <1>4 DEF Verifies, VerifySession, Pending, SessionRow, Kept, Opened
<1>5. CASE ExpireDue
  BY <1>0, <1>5 DEF ExpireDue, Due, Pending, SessionRow, Kept, Opened
<1>6. ASSUME NEW e \in Devices, DeleteDevice(e)
      PROVE  Kept(d)
  BY <1>0, <1>6 DEF DeleteDevice, SessionRow, Kept, Opened
<1> QED BY <1>1, <1>2, <1>3, <1>4, <1>5, <1>6, SessionsStep

(* No step turns the clock back. *)
LEMMA ClockAdvances ==
  ASSUME TypeInv, [Next]_vars
  PROVE  now \in Nat /\ now' \in Nat /\ now <= now'
<1>1. now \in Nat /\ (UNCHANGED now \/ now' = now + 1)
  BY DEF TypeInv, TypeOK, StoreTypeOK, Next, VerifyNext, StartStep, InboundStep, vars, storeVars,
     BeginStart, StartPickNumber, StartNoNumber, StartCreateSession, StartFault, Receive,
     Resolve, Gate, Match, ClaimMismatch, VerifyMatched, Notify, CountFailures, CountFlood,
     CreateBlock, RecordEvent, ReportFault, Tick, Provision, RemoveDevice, Sweep, Prune,
     CreateDevice, SetHeartbeat, CreateNumber, DeleteDevice, ExpireDue, DeleteInboundEventsBefore
<1> QED BY <1>1

(* The row of d is still absent after the step. *)
StaysUnopened(d) == ~Opened(d)' /\ sessions'[d].verified = sessions[d].verified

(* A row appears by the INSERT of its own call only. *)
LEMMA Unopened ==
  ASSUME TypeInv, [Next]_vars, NEW d \in Calls, ~Opened(d)
  PROVE  StaysUnopened(d) \/ Inserts(d)
<1>0. sessions[d] \in SessionRow /\ sessions \in [Calls -> SessionRow]
  BY DEF TypeInv, TypeOK, StoreTypeOK
<1>1. CASE UNCHANGED sessions
  BY <1>1 DEF StaysUnopened, StaysUnopened, Opened
<1>2. ASSUME NEW c \in Calls, Inserts(c)
      PROVE  StaysUnopened(d) \/ Inserts(d)
  BY <1>0, <1>2 DEF Inserts, InsertSession, StaysUnopened, Opened
<1>3. ASSUME NEW r \in Reports, reports[r].pc = "attempt", IncrementAttempts(reports[r].session)
      PROVE  StaysUnopened(d)
  BY <1>0, <1>3 DEF IncrementAttempts, SessionRow, StaysUnopened, Opened
<1>4. ASSUME NEW r \in Reports, Verifies(r)
      PROVE  StaysUnopened(d)
  BY <1>0, <1>4 DEF Verifies, VerifySession, Pending, SessionRow, StaysUnopened, Opened
<1>5. CASE ExpireDue
  BY <1>0, <1>5 DEF ExpireDue, Due, Pending, SessionRow, StaysUnopened, Opened
<1>6. ASSUME NEW e \in Devices, DeleteDevice(e)
      PROVE  StaysUnopened(d)
  BY <1>0, <1>6 DEF DeleteDevice, SessionRow, StaysUnopened, Opened
<1> QED BY <1>1, <1>2, <1>3, <1>4, <1>5, <1>6, SessionsStep

(* A step leaves a call alone, ends it, or moves it on with the expiry Start computed once,
   before the retry loop. *)
LEMMA CallStep ==
  ASSUME TypeInv, [Next]_vars, NEW d \in Calls
  PROVE  \/ calls'[d] = calls[d]
         \/ calls'[d].pc = "done"
         \/ calls'[d].pc = "count" /\ calls[d].pc # "done"
         \/ calls'[d].pc = "pick" /\ calls[d].pc = "idle" /\ calls'[d].expires = now + TTL
         \/ /\ calls[d].pc \in {"pick", "create"} /\ calls'[d].pc \in {"pick", "create"}
            /\ calls'[d].expires = calls[d].expires
<1> DEFINE G ==
      \/ calls'[d] = calls[d]
      \/ calls'[d].pc = "done"
      \/ calls'[d].pc = "count" /\ calls[d].pc # "done"
      \/ calls'[d].pc = "pick" /\ calls[d].pc = "idle" /\ calls'[d].expires = now + TTL
      \/ /\ calls[d].pc \in {"pick", "create"} /\ calls'[d].pc \in {"pick", "create"}
         /\ calls'[d].expires = calls[d].expires
<1> SUFFICES G
  OBVIOUS
<1>0. calls \in [Calls -> CallState] /\ calls[d] \in CallState
  BY DEF TypeInv, TypeOK, VerifyTypeOK
<1>1. ASSUME NEW c \in Calls, NEW x, Proceed(c, x)
      PROVE  calls'[d] = IF c = d THEN x ELSE calls[d]
  BY <1>0, <1>1 DEF Proceed
<1>4. ASSUME NEW c \in Calls, NEW result,
             Proceed(c, [calls[c] EXCEPT !.pc = "done", !.result = result])
      PROVE  G
  <2>1. [calls[c] EXCEPT !.pc = "done", !.result = result].pc = "done"
    BY <1>0 DEF TypeInv, TypeOK, VerifyTypeOK, CallState
  <2> QED BY <1>1, <1>4, <2>1
<1>2. ASSUME NEW c \in Calls, BeginStart(c)
      PROVE  G
  <2>1. PICK req \in Requests :
          \/ Proceed(c, [calls[c] EXCEPT !.pc = "pick", !.req = req, !.expires = now + TTL])
          \/ Proceed(c, [calls[c] EXCEPT !.pc = "done", !.req = req, !.result = "invalid"])
    BY <1>2 DEF BeginStart
  <2>2. CASE Proceed(c, [calls[c] EXCEPT !.pc = "done", !.req = req, !.result = "invalid"])
    <3> DEFINE x == [calls[c] EXCEPT !.pc = "done", !.req = req, !.result = "invalid"]
    <3>1. x.pc = "done"
      BY DEF TypeInv, TypeOK, VerifyTypeOK, CallState
    <3>2. calls'[d] = IF c = d THEN x ELSE calls[d]
      BY <1>1, <2>2
    <3> HIDE DEF x
    <3> QED BY <3>1, <3>2
  <2>3. CASE Proceed(c, [calls[c] EXCEPT !.pc = "pick", !.req = req, !.expires = now + TTL])
    <3> DEFINE x == [calls[c] EXCEPT !.pc = "pick", !.req = req, !.expires = now + TTL]
    <3>1. x.pc = "pick" /\ x.expires = now + TTL
      BY DEF TypeInv, TypeOK, VerifyTypeOK, CallState
    <3>2. calls'[d] = IF c = d THEN x ELSE calls[d]
      BY <1>1, <2>3
    <3>3. calls[c].pc = "idle"
      BY <1>2 DEF BeginStart
    <3> HIDE DEF x
    <3> QED BY <3>1, <3>2, <3>3
  <2> QED BY <2>1, <2>2, <2>3
<1>3. ASSUME NEW c \in Calls, StartPickNumber(c)
      PROVE  G
  <2>1. calls[c].pc = "pick"
    BY <1>3 DEF StartPickNumber
  <2>2. ASSUME NEW n, Proceed(c, [calls[c] EXCEPT !.pc = "create", !.number = n])
        PROVE  G
    <3> DEFINE x == [calls[c] EXCEPT !.pc = "create", !.number = n]
    <3>1. x.pc = "create" /\ x.expires = calls[c].expires
      BY DEF TypeInv, TypeOK, VerifyTypeOK, CallState
    <3>2. calls'[d] = IF c = d THEN x ELSE calls[d]
      BY <1>1, <2>2
    <3> HIDE DEF x
    <3> QED BY <2>1, <3>1, <3>2
  <2>3. ASSUME Proceed(c, [calls[c] EXCEPT !.pc = "count"])
        PROVE  G
    <3> DEFINE x == [calls[c] EXCEPT !.pc = "count"]
    <3>1. x.pc = "count"
      BY DEF TypeInv, TypeOK, VerifyTypeOK, CallState
    <3>2. calls'[d] = IF c = d THEN x ELSE calls[d]
      BY <1>1, <2>3
    <3> HIDE DEF x
    <3> QED BY <2>1, <3>1, <3>2
  <2> HIDE DEF G
  <2> QED BY <1>3, <2>2, <2>3 DEF StartPickNumber
<1>5. ASSUME NEW c \in Calls, StartCreateSession(c)
      PROVE  G
  <2>1. CASE Retry(c)
    <3>1. CASE c # d
      BY <1>1, <2>1, <3>1 DEF Retry
    <3>2. CASE c = d
      <4> DEFINE next == IF calls[c].attempt + 1 = MaxAttempts THEN "count" ELSE "pick"
                 x == [calls[c] EXCEPT !.attempt = @ + 1, !.number = None, !.pc = next]
      <4>1. next \in {"count", "pick"}
        OBVIOUS
      <4>2. x.pc = next /\ x.expires = calls[c].expires
        BY <1>0, <3>2 DEF CallState
      <4>3. calls'[d] = x
        BY <1>1, <2>1, <3>2 DEF Retry
      <4>4. calls[d].pc = "create"
        BY <1>5, <3>2 DEF StartCreateSession
      <4> HIDE DEF next, x
      <4> QED BY <3>2, <4>1, <4>2, <4>3, <4>4
    <3> QED BY <3>1, <3>2
  <2>2. CASE ~Retry(c)
    BY <1>4, <1>5, <2>2 DEF StartCreateSession
  <2> QED BY <2>1, <2>2
<1>6. ASSUME NEW c \in Calls, StartFault(c) \/ StartNoNumber(c)
      PROVE  G
  BY <1>4, <1>6 DEF StartFault, StartNoNumber
<1>7. ASSUME UNCHANGED calls PROVE G
  BY <1>7
<1>8. CASE Tick \/ Provision \/ RemoveDevice \/ Sweep \/ Prune \/ UNCHANGED vars
  BY <1>7, <1>8 DEF Tick, Provision, RemoveDevice, Sweep, Prune, vars, verifyVars
<1>9. ASSUME NEW r \in Reports, Receive(r) \/ InboundStep(r) \/ ReportFault(r)
      PROVE  G
  BY <1>7, <1>9 DEF InboundStep, Receive, Resolve, Gate, Match, ClaimMismatch, VerifyMatched,
     Notify,
              CountFailures, CountFlood, CreateBlock, RecordEvent, ReportFault
<1> HIDE DEF G
<1> QED BY <1>2, <1>3, <1>5, <1>6, <1>7, <1>8, <1>9 DEF Next, VerifyNext, StartStep

(* Every step keeps CallSafe. *)
LEMMA NextCalls ==
  ASSUME TypeInv, CallsSafe, [Next]_vars
  PROVE  CallsSafe'
<1> SUFFICES ASSUME NEW d \in Calls PROVE CallSafe(d)'
  BY DEF CallsSafe
<1>0. /\ CallSafe(d) /\ calls[d] \in CallState /\ sessions[d] \in SessionRow
      /\ sessions \in [Calls -> SessionRow]
  BY DEF CallsSafe, TypeInv, TypeOK, StoreTypeOK, VerifyTypeOK
<1>1. now + TTL \in Nat /\ now' + TTL \in Nat /\ now + TTL <= now' + TTL
  BY ClockAdvances, VerifyAssumption
<1>2. CASE Inserts(d)
  <2>1. PICK code \in GeneratedCodes(d) : InsertSession(d, Candidate(d, code))
    BY <1>2 DEF Inserts
  <2>2. calls[d].pc = "create" /\ calls'[d].pc = "done"
    BY <1>2 DEF Inserts
  <2>3. sessions'[d] = Candidate(d, code)
    BY <1>0, <2>1 DEF InsertSession
  <2>4. /\ sessions'[d].expires = calls[d].expires
        /\ sessions'[d].channel \in {"sms", "dtmf"} => sessions'[d].code \in Codes
    BY <2>3 DEF Candidate, GeneratedCodes, ChannelNeedsCode
  <2>5. sessions'[d].expires <= now' + TTL
    BY <1>0, <1>1, <2>2, <2>4 DEF CallSafe, CallState
  <2>6. sessions'[d].status = "pending"
    BY <2>3 DEF Candidate
  <2> QED BY <2>2, <2>4, <2>5, <2>6 DEF CallSafe, Opened
<1>3. CASE ~Inserts(d)
  <2>1. Opened(d)' => Opened(d)
    BY <1>3, Unopened DEF StaysUnopened
  <2>5. ~Opened(d)' => sessions'[d].verified = None
    BY <1>0, <1>3, RowsKept, Unopened DEF CallSafe, StaysUnopened, Kept
  <2>2. calls'[d].pc # "done" => ~Opened(d)'
    BY <1>0, <2>1, CallStep DEF CallSafe
  <2>3. calls'[d].pc \in {"pick", "create"} => calls'[d].expires <= now' + TTL
    BY <1>0, <1>1, CallStep DEF CallSafe, CallState
  <2>4. Opened(d)' => /\ sessions'[d].expires <= now' + TTL
                      /\ sessions'[d].channel \in {"sms", "dtmf"} => sessions'[d].code \in Codes
    BY <1>0, <1>1, <2>1, RowsKept DEF CallSafe, Kept, SessionRow
  <2> QED BY <2>2, <2>3, <2>4, <2>5 DEF CallSafe, Opened
<1> QED BY <1>2, <1>3

(* A row and the call of Start that inserts it agree at all times. *)
THEOREM CallsInvariant == Spec => []CallsSafe
<1>1. Init => CallsSafe
  BY DEF Init, StoreInit, VerifyInit, CallsSafe, CallSafe, Opened, NoSession
<1> QED BY <1>1, NextCalls, TypeInvariant, PTL DEF Spec

(* In a table of unique rows, the signal the instructions of a live session ask for matches
   that session and no other, provided that extractCode sees its code. *)
LEMMA UniqueAnswers ==
  TypeInv /\ CallsSafe /\ UniqueRows => InstructionsWork
<1> SUFFICES ASSUME TypeInv, CallsSafe, UniqueRows, NEW c \in Calls, NEW sender \in Senders,
                    Live(c), sessions[c].number # None,
                    sessions[c].channel = "call" => sender = sessions[c].claimed
             PROVE  MatchSession(sessions[c].number, AskedFor(c, sender)) =
                      IF sessions[c].channel = "call" \/ Digits[sessions[c].code] \in 4..12
                      THEN {c} ELSE {}
  BY DEF InstructionsWork
<1> DEFINE n == sessions[c].number
           sig == AskedFor(c, sender)
           seen == Digits[sessions[c].code] \in 4..12
<1>1. /\ sessions[c].channel \in {"sms", "dtmf", "call"} /\ Pending(c)
      /\ sessions[c].expires > now
      /\ sessions[c].channel \in {"sms", "dtmf"} => sessions[c].code \in Codes
  BY SessionRowType DEF SessionRow, Channels, VoiceChannels, Live, CallsSafe, CallSafe, Opened,
     Pending
<1>2. \A d \in PendingOn(n) :
        /\ sessions[d].code = sessions[c].code /\ sessions[c].code # None => d = c
        /\ sessions[d].channel \in VoiceChannels /\ sessions[c].channel \in VoiceChannels => d = c
  BY <1>1 DEF PendingOn, UniqueRows, Clash, Pending
<1>3. c \in PendingOn(n)
  BY <1>1 DEF PendingOn
<1>3a. ASSUME sig.body = sessions[c].code, sessions[c].code \in Codes
      PROVE  /\ ExtractCode(sig.body) = IF seen THEN sessions[c].code ELSE NoCode
             /\ sessions[c].code # NoCode
  BY <1>3a, VerifyAssumption DEF ExtractCode
<1>4. CASE sessions[c].channel = "sms"
  <2>1. FindPendingByCode(n, sessions[c].code, "sms") = {c}
    BY <1>1, <1>2, <1>3, <1>4, StoreAssumption DEF FindPendingByCode
  <2>2. sig.type = "sms" /\ sig.body = sessions[c].code
    BY <1>4 DEF AskedFor
  <2>3. MatchSession(n, sig) =
          IF ExtractCode(sig.body) = NoCode THEN {}
          ELSE FindPendingByCode(n, ExtractCode(sig.body), "sms")
    BY <2>2 DEF MatchSession
  <2>4. MatchSession(n, sig) = IF seen THEN {c} ELSE {}
    BY <1>1, <1>4, <1>3a, <2>1, <2>2, <2>3
  <2> QED BY <1>4, <2>4
<1>5. CASE sessions[c].channel = "dtmf"
  <2>1. FindPendingByCode(n, sessions[c].code, "dtmf") = {c}
    BY <1>1, <1>2, <1>3, <1>5, StoreAssumption DEF FindPendingByCode
  <2>2. sig.type = "call" /\ sig.body = sessions[c].code /\ sig.body # Blank
    BY <1>1, <1>5, VerifyAssumption DEF AskedFor
  <2>3. MatchSession(n, sig) =
          IF ExtractCode(sig.body) = NoCode THEN {}
          ELSE FindPendingByCode(n, ExtractCode(sig.body), "dtmf")
    BY <2>2 DEF MatchSession
  <2>4. MatchSession(n, sig) = IF seen THEN {c} ELSE {}
    BY <1>1, <1>5, <1>3a, <2>1, <2>2, <2>3
  <2> QED BY <1>5, <2>4
<1>6. CASE sessions[c].channel = "call"
  <2>1. FindPendingMissedCall(n, sender) = {c}
    BY <1>1, <1>2, <1>3, <1>6 DEF FindPendingMissedCall, VoiceChannels
  <2>2. sig.type = "call" /\ sig.body = Blank /\ sig.sender = sender
    BY <1>6 DEF AskedFor
  <2>3. MatchSession(n, sig) = FindPendingMissedCall(n, sig.sender)
    BY <2>2 DEF MatchSession
  <2> QED BY <1>6, <2>1, <2>2, <2>3
<1> QED BY <1>1, <1>4, <1>5, <1>6

(* A user who follows the instructions Start answered with, while the session is pending and
   has a number, is matched to that session and to no other, whatever other calls are open, if
   the code has 4 to 12 digits; with any other code_len the instructions match nothing. *)
THEOREM InstructionsAlwaysWork == Spec => []InstructionsWork
<1> QED BY UniqueAnswers, TypeInvariant, CallsInvariant, UniqueInvariant, PTL
=============================================================================
