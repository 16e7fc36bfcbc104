---------------------------- MODULE ReportProofs ----------------------------
EXTENDS SessionProofs, FiniteSetTheorems

(* What a report of Service.Inbound knows between its statements, and from that the two
   promises of a verification: it rests on a signal that proves it (Provenance), and a
   session is used once (SingleUse).  Requires the invariants of SessionProofs.

   With them the coordinator, statement by statement, implements the abstract life of a
   session (SessionLifecycle), and no sender is blocked who did not earn it (BlocksEarned). *)

(* deviceapi.Inbound decodes a signal and hands it on, or refuses it. *)
Begins(r) ==
  /\ reports[r].pc = "idle" /\ reports'[r].pc \in {"resolve", "done"}
  /\ reports'[r].won = reports[r].won
  /\ reports'[r].outcome \in {reports[r].outcome, "invalid"}
  /\ reports'[r].pc = "resolve" => reports'[r].sig.type \in {"sms", "call"}

(* The report holds the number of its line, and its device is the one that owns the number. *)
Holds(r) ==
  LET n == reports[r].number sig == reports[r].sig IN
  n \in Numbers /\ Fleet[n].line = sig.line /\ Fleet[n].device = sig.device

(* GetNumberByMSISDN found the number and the ownership check passed. *)
Resolves(r) ==
  /\ reports[r].pc = "resolve" /\ reports'[r].pc = "gate" /\ reports'[r].sig = reports[r].sig
  /\ reports'[r].won = reports[r].won /\ reports'[r].outcome = reports[r].outcome
  /\ Holds(r)'

(* matchSession found a session for the report, and the claim was compared with the sender. *)
Finds(r) ==
  LET c == reports'[r].session sig == reports[r].sig IN
  /\ reports[r].pc = "match"
  /\ c \in MatchSession(reports[r].number, sig)
  /\ reports'[r].sig = sig /\ reports'[r].number = reports[r].number
  /\ reports'[r].found = now
  /\ reports'[r].won = reports[r].won /\ reports'[r].outcome = reports[r].outcome
  /\ reports'[r].pc = IF ClaimAccepts(c, sig.sender) THEN "verify" ELSE "attempt"
  /\ UNCHANGED sessions

(* The report moves on, towards its audit row, without touching a session. *)
Moves(r) ==
  /\ SameData(r) /\ reports'[r].won = reports[r].won
  /\ reports[r].pc \notin {"idle", "done"}
  /\ \/ reports'[r].pc \in {"fails", "floods", "block", "record", "done"}
     \/ reports[r].pc = "gate" /\ reports'[r].pc = "match"
  /\ reports[r].pc \in {"notify", "record"} => reports'[r].pc \in {"record", "done"}
  /\ reports[r].pc = "resolve" => reports'[r].pc = "done"
  /\ reports'[r].outcome = "matched" => reports[r].outcome = "matched"

(* The kinds of step a report makes. *)
Acts(r) == Begins(r) \/ Resolves(r) \/ Finds(r) \/ Moves(r) \/ Verifies(r)

(* Where Moves may lead. *)
MayMove(r, pc) ==
  /\ \/ pc \in {"fails", "floods", "block", "record", "done"}
     \/ reports[r].pc = "gate" /\ pc = "match"
  /\ reports[r].pc \in {"notify", "record"} => pc \in {"record", "done"}
  /\ reports[r].pc = "resolve" => pc = "done"

(* A step that only moves the report on is a Moves. *)
LEMMA MovePc ==
  ASSUME TypeInv, NEW r \in Reports, reports[r].pc \notin {"idle", "done"},
         NEW pc,
         MayMove(r, pc),
         Advance(r, [reports[r] EXCEPT !.pc = pc])
  PROVE  Moves(r)
<1> DEFINE x == [reports[r] EXCEPT !.pc = pc]
<1>1. /\ x.pc = pc /\ (x.outcome = "matched" => reports[r].outcome = "matched")
      /\ x.won = reports[r].won /\ x.sig = reports[r].sig /\ x.number = reports[r].number
      /\ x.session = reports[r].session /\ x.found = reports[r].found
  BY DEF TypeInv, TypeOK, VerifyTypeOK, ReportState
<1>2. reports'[r] = x
  BY DEF Advance, TypeInv, TypeOK, VerifyTypeOK
<1> HIDE DEF x
<1> QED BY <1>1, <1>2 DEF Moves, MayMove, SameData

(* A step that sets the outcome and moves the report on is a Moves, unless it makes it matched. *)
LEMMA MoveOutcome ==
  ASSUME TypeInv, NEW r \in Reports, reports[r].pc \notin {"idle", "done"},
         NEW pc, NEW outcome,
         MayMove(r, pc),
         outcome = "matched" => reports[r].outcome = "matched",
         Advance(r, [reports[r] EXCEPT !.pc = pc, !.outcome = outcome])
  PROVE  Moves(r)
<1> DEFINE x == [reports[r] EXCEPT !.pc = pc, !.outcome = outcome]
<1>1. /\ x.pc = pc /\ (x.outcome = "matched" => reports[r].outcome = "matched")
      /\ x.won = reports[r].won /\ x.sig = reports[r].sig /\ x.number = reports[r].number
      /\ x.session = reports[r].session /\ x.found = reports[r].found
  BY DEF TypeInv, TypeOK, VerifyTypeOK, ReportState
<1>2. reports'[r] = x
  BY DEF Advance, TypeInv, TypeOK, VerifyTypeOK
<1> HIDE DEF x
<1> QED BY <1>1, <1>2 DEF Moves, MayMove, SameData

(* A step of maybeBlock that notes its time and moves the report on is a Moves. *)
LEMMA MoveFailing ==
  ASSUME TypeInv, NEW r \in Reports, reports[r].pc \notin {"idle", "done"},
         NEW pc, NEW t,
         MayMove(r, pc),
         Advance(r, [reports[r] EXCEPT !.failing = t, !.pc = pc])
  PROVE  Moves(r)
<1> DEFINE x == [reports[r] EXCEPT !.failing = t, !.pc = pc]
<1>1. /\ x.pc = pc /\ (x.outcome = "matched" => reports[r].outcome = "matched")
      /\ x.won = reports[r].won /\ x.sig = reports[r].sig /\ x.number = reports[r].number
      /\ x.session = reports[r].session /\ x.found = reports[r].found
  BY DEF TypeInv, TypeOK, VerifyTypeOK, ReportState
<1>2. reports'[r] = x
  BY DEF Advance, TypeInv, TypeOK, VerifyTypeOK
<1> HIDE DEF x
<1> QED BY <1>1, <1>2 DEF Moves, MayMove, SameData

(* A statement that failed moves the report on like any Moves. *)
LEMMA MoveError ==
  ASSUME TypeInv, NEW r \in Reports, reports[r].pc \notin {"idle", "done"},
         NEW pc, NEW outcome, NEW t,
         MayMove(r, pc),
         outcome = "matched" => reports[r].outcome = "matched",
         Advance(r, [reports[r] EXCEPT !.pc = pc, !.outcome = outcome, !.failing = t])
  PROVE  Moves(r)
<1> DEFINE x == [reports[r] EXCEPT !.pc = pc, !.outcome = outcome, !.failing = t]
<1>1. /\ x.pc = pc /\ (x.outcome = "matched" => reports[r].outcome = "matched")
      /\ x.won = reports[r].won /\ x.sig = reports[r].sig /\ x.number = reports[r].number
      /\ x.session = reports[r].session /\ x.found = reports[r].found
  BY DEF TypeInv, TypeOK, VerifyTypeOK, ReportState
<1>2. reports'[r] = x
  BY DEF Advance, TypeInv, TypeOK, VerifyTypeOK
<1> HIDE DEF x
<1> QED BY <1>1, <1>2 DEF Moves, MayMove, SameData

(* Each action of a report is one of the kinds. *)
LEMMA ActionActs ==
  ASSUME TypeInv, NEW r \in Reports, Receive(r) \/ InboundStep(r) \/ ReportFault(r)
  PROVE  Acts(r)
<1>1. reports[r] \in ReportState /\ \A x : Advance(r, x) => reports'[r] = x
  BY DEF Advance, TypeInv, TypeOK, VerifyTypeOK
<1>2. CASE Receive(r)
  <2>1. PICK sig \in Signals :
          \/ /\ sig.type \in {"sms", "call"}
             /\ Advance(r, [reports[r] EXCEPT !.pc = "resolve", !.sig = sig])
          \/ Advance(r, [reports[r] EXCEPT !.pc = "done", !.sig = sig, !.outcome = "invalid"])
    BY <1>2 DEF Receive
  <2> DEFINE x == [reports[r] EXCEPT !.pc = "resolve", !.sig = sig]
             y == [reports[r] EXCEPT !.pc = "done", !.sig = sig, !.outcome = "invalid"]
  <2>2. /\ x.pc = "resolve" /\ x.won = reports[r].won /\ x.outcome = reports[r].outcome
        /\ x.sig = sig
    BY <1>1 DEF ReportState
  <2>3. y.pc = "done" /\ y.won = reports[r].won /\ y.outcome = "invalid"
    BY <1>1 DEF ReportState
  <2>4. (reports'[r] = x /\ sig.type \in {"sms", "call"}) \/ reports'[r] = y
    BY <1>1, <2>1
  <2>5. reports[r].pc = "idle"
    BY <1>2 DEF Receive
  <2> HIDE DEF x, y
  <2> QED BY <2>2, <2>3, <2>4, <2>5 DEF Begins, Acts
<1>3. CASE Resolve(r)
  <2>1. ASSUME NEW n \in Numbers, n \in NumberByLine(reports[r].sig.line),
               Fleet[n].device = reports[r].sig.device,
               Advance(r, [reports[r] EXCEPT !.pc = "gate", !.number = n])
        PROVE  Acts(r)
    <3> DEFINE x == [reports[r] EXCEPT !.pc = "gate", !.number = n]
    <3>1. /\ x.pc = "gate" /\ x.number = n /\ x.won = reports[r].won
          /\ x.outcome = reports[r].outcome /\ x.sig = reports[r].sig
      BY <1>1 DEF ReportState
    <3>2. reports'[r] = x
      BY <1>1, <2>1
    <3>3. reports[r].pc = "resolve" /\ Fleet[n].line = reports[r].sig.line
      BY <1>3, <2>1 DEF Resolve, NumberByLine
    <3> HIDE DEF x
    <3> QED BY <2>1, <3>1, <3>2, <3>3 DEF Resolves, Holds, Acts
  <2>2. ASSUME Refuse(r, "unknown_number") \/ Refuse(r, "forbidden")
        PROVE  Acts(r)
    BY <1>3, <2>2, MoveOutcome DEF Resolve, Refuse, Acts, MayMove
  <2> QED BY <1>3, <2>1, <2>2 DEF Resolve, NumberByLine
<1>4. CASE Match(r)
  <2>1. ASSUME NEW c \in MatchSession(reports[r].number, reports[r].sig),
               NEW pc, pc = IF ClaimAccepts(c, reports[r].sig.sender) THEN "verify" ELSE "attempt",
               Advance(r, [reports[r] EXCEPT !.session = c, !.found = now, !.pc = pc])
        PROVE  Acts(r)
    <3> DEFINE x == [reports[r] EXCEPT !.session = c, !.found = now, !.pc = pc]
    <3>1. /\ x.pc = pc /\ x.session = c /\ x.found = now /\ x.won = reports[r].won
          /\ x.outcome = reports[r].outcome /\ x.sig = reports[r].sig
          /\ x.number = reports[r].number
      BY <1>1 DEF ReportState
    <3>2. reports'[r] = x
      BY <1>1, <2>1
    <3>3. reports[r].pc = "match" /\ UNCHANGED sessions
      BY <1>4 DEF Match, storeVars
    <3> HIDE DEF x
    <3> QED BY <2>1, <3>1, <3>2, <3>3 DEF Finds, Acts
  <2>2. ASSUME Advance(r, [reports[r] EXCEPT !.pc = "fails", !.outcome = "no_match"])
        PROVE  Acts(r)
    BY <1>4, <2>2, MoveOutcome DEF Match, Acts, MayMove
  <2> QED BY <1>4, <2>1, <2>2 DEF Match
<1>5. CASE VerifyMatched(r)
  <2>1. CASE Pending(reports[r].session)
    BY <1>5, <2>1, VerifyStep DEF Acts
  <2>2. CASE ~Pending(reports[r].session)
    BY <1>5, <2>2, MoveOutcome DEF VerifyMatched, Return, Acts, MayMove
  <2> QED BY <2>1, <2>2
<1>6. CASE Gate(r)
  BY <1>6, MoveOutcome, MovePc DEF Gate, Return, Acts, MayMove
<1>7. CASE ClaimMismatch(r) \/ Notify(r) \/ CreateBlock(r) \/ RecordEvent(r)
  BY <1>7, MoveOutcome, MovePc DEF ClaimMismatch, Notify, CreateBlock, RecordEvent, Acts, MayMove
<1>8. CASE CountFailures(r)
  <2>1. PICK pc \in {"block", "floods"} : Advance(r, [reports[r] EXCEPT !.failing = now, !.pc = pc])
    BY <1>8 DEF CountFailures
  <2> QED BY <1>8, <2>1, MoveFailing DEF CountFailures, Acts, MayMove
<1>9. CASE CountFlood(r)
  <2>1. PICK pc \in {"block", "record"} : Advance(r, [reports[r] EXCEPT !.pc = pc])
    BY <1>9 DEF CountFlood
  <2> QED BY <1>9, <2>1, MovePc DEF CountFlood, Acts, MayMove
<1>10. CASE ReportFault(r)
  <2>1. ASSUME reports[r].pc \in DOMAIN AfterError,
               Advance(r, [reports[r] EXCEPT
                             !.pc = AfterError[@],
                             !.outcome = OutcomeOfError(reports[r]),
                             !.failing = IF reports[r].pc = "fails" THEN now ELSE @])
        PROVE  Acts(r)
    <3>1. PICK pc : pc = AfterError[reports[r].pc]
      OBVIOUS
    <3>2. reports[r].pc \notin {"idle", "done"} /\ MayMove(r, pc)
      BY <2>1, <3>1 DEF AfterError, MayMove
    <3>3. PICK outcome : outcome = OutcomeOfError(reports[r])
      OBVIOUS
    <3>4. outcome = "matched" => reports[r].outcome = "matched"
      BY <3>3 DEF OutcomeOfError
    <3>5. PICK t : t = IF reports[r].pc = "fails" THEN now ELSE reports[r].failing
      OBVIOUS
    <3>6. Advance(r, [reports[r] EXCEPT !.pc = pc, !.outcome = outcome, !.failing = t])
      BY <2>1, <3>1, <3>3, <3>5
    <3> QED BY <3>2, <3>4, <3>6, MoveError DEF Acts
  <2>2. ASSUME reports[r].pc \notin {"idle", "done"}, Refuse(r, "lost")
        PROVE  Acts(r)
    BY <2>2, MoveOutcome DEF Refuse, Acts, MayMove
  <2> QED BY <1>10, <2>1, <2>2, VerifyFaultStep DEF ReportFault, Acts
<1> QED BY <1>2, <1>3, <1>4, <1>5, <1>6, <1>7, <1>8, <1>9, <1>10 DEF InboundStep

(* One report acts in a step, or none. *)
LEMMA OneActs ==
  ASSUME TypeInv, [Next]_vars
  PROVE  \/ UNCHANGED reports
         \/ \E s \in Reports : Acts(s) /\ \A r \in Reports \ {s} : reports'[r] = reports[r]
<1>1. ASSUME NEW s \in Reports, Receive(s) \/ InboundStep(s) \/ ReportFault(s)
      PROVE  Acts(s) /\ \A r \in Reports \ {s} : reports'[r] = reports[r]
  <2>1. \A x : Advance(s, x) => \A r \in Reports \ {s} : reports'[r] = reports[r]
    BY DEF Advance, TypeInv, TypeOK, VerifyTypeOK
  <2>2. \E x : Advance(s, x)
    <3>1. CASE Receive(s) \/ Resolve(s)
      BY <3>1 DEF Receive, Resolve, Refuse
    <3>2. CASE Gate(s) \/ Match(s) \/ ClaimMismatch(s)
      BY <3>2 DEF Gate, Match, ClaimMismatch, Return
    <3>3. CASE VerifyMatched(s) \/ Notify(s) \/ CountFailures(s) \/ CountFlood(s)
      BY <3>3 DEF VerifyMatched, Notify, CountFailures, CountFlood, Return
    <3>4. CASE CreateBlock(s) \/ RecordEvent(s) \/ ReportFault(s)
      BY <3>4 DEF CreateBlock, RecordEvent, ReportFault, Refuse
    <3> QED BY <1>1, <3>1, <3>2, <3>3, <3>4 DEF InboundStep
  <2> QED BY <1>1, <2>1, <2>2, ActionActs
<1>2. ASSUME NEW c \in Calls, BeginStart(c) \/ StartStep(c) \/ StartFault(c)
      PROVE  UNCHANGED reports
  BY <1>2 DEF BeginStart, StartStep, StartPickNumber, StartCreateSession, StartNoNumber, StartFault
<1>3. CASE Tick \/ Provision \/ RemoveDevice \/ Sweep \/ Prune \/ UNCHANGED vars
  BY <1>3 DEF Tick, Provision, RemoveDevice, Sweep, Prune, vars, verifyVars
<1> QED BY <1>1, <1>2, <1>3 DEF Next, VerifyNext

(* The same, seen from one report. *)
LEMMA ReportStep ==
  ASSUME TypeInv, [Next]_vars, NEW r \in Reports
  PROVE  reports'[r] = reports[r] \/ Acts(r)
  BY OneActs

(* The Notifier is told by a report that leaves "notify" only, once, of its own session. *)
LEMMA NotifiedStep ==
  ASSUME TypeInv, [Next]_vars
  PROVE  \/ UNCHANGED notified
         \/ \E r \in Reports : /\ reports[r].pc = "notify" /\ reports'[r].pc = "record"
                               /\ notified' = [notified EXCEPT ![reports[r].session] = @ + 1]
<1>1. ASSUME NEW r \in Reports, Notify(r)
      PROVE  /\ reports[r].pc = "notify" /\ reports'[r].pc = "record"
             /\ notified' = [notified EXCEPT ![reports[r].session] = @ + 1]
  <2>1. [reports[r] EXCEPT !.pc = "record"].pc = "record"
    BY DEF TypeInv, TypeOK, VerifyTypeOK, ReportState
  <2> QED BY <1>1, <2>1 DEF Notify, Advance, TypeInv, TypeOK, VerifyTypeOK
<1>2. ASSUME NEW r \in Reports, \/ Receive(r) \/ Resolve(r) \/ Gate(r) \/ Match(r)
                                \/ ClaimMismatch(r) \/ VerifyMatched(r) \/ CountFailures(r)
                                \/ CountFlood(r) \/ CreateBlock(r) \/ RecordEvent(r)
                                \/ ReportFault(r)
      PROVE  UNCHANGED notified
  BY <1>2 DEF Receive, Resolve, Gate, Match, ClaimMismatch, VerifyMatched, CountFailures,
              CountFlood, CreateBlock, RecordEvent, ReportFault
<1>3. ASSUME NEW c \in Calls, BeginStart(c) \/ StartStep(c) \/ StartFault(c)
      PROVE  UNCHANGED notified
  BY <1>3 DEF BeginStart, StartStep, StartPickNumber, StartCreateSession, StartNoNumber, StartFault
<1>4. CASE Tick \/ Provision \/ RemoveDevice \/ Sweep \/ Prune \/ UNCHANGED vars
  BY <1>4 DEF Tick, Provision, RemoveDevice, Sweep, Prune, vars, verifyVars
<1> QED BY <1>1, <1>2, <1>3, <1>4 DEF Next, VerifyNext, InboundStep

(* The deferred CreateInboundEvent of report r writes its audit row. *)
Records(r) ==
  /\ reports[r].pc = "record" /\ reports'[r].pc = "done" /\ SameData(r)
  /\ reports'[r].won = reports[r].won
  /\ events'[r] = AuditRow(r)

(* The audit row of r, if it is there after the step, was there before it and says the same. *)
EventKept(r) ==
  events'[r].recorded =>
    events[r].recorded /\ events'[r].matched = events[r].matched
                       /\ events'[r].sender = events[r].sender

(* An audit row appears when its report ends, and never changes (retention may remove it). *)
LEMMA EventStep ==
  ASSUME TypeInv, [Next]_vars, NEW r \in Reports
  PROVE  Records(r) \/ EventKept(r)
<1>0. events \in [Reports -> EventRow]
  BY DEF TypeInv, TypeOK, StoreTypeOK
<1>1. ASSUME UNCHANGED events PROVE EventKept(r)
  BY <1>1 DEF EventKept
<1>2. ASSUME NEW s \in Reports, RecordEvent(s)
      PROVE  Records(r) \/ EventKept(r)
  <2>1. CASE UNCHANGED events
    BY <1>1, <2>1
  <2>2. CASE s # r /\ events' = [events EXCEPT ![s] = AuditRow(s)]
    BY <1>0, <2>2 DEF EventKept
  <2>3. CASE s = r /\ events' = [events EXCEPT ![s] = AuditRow(s)]
    <3> DEFINE x == [reports[r] EXCEPT !.pc = "done"]
    <3>1. /\ x.pc = "done" /\ x.sig = reports[r].sig /\ x.won = reports[r].won
          /\ x.number = reports[r].number /\ x.session = reports[r].session
          /\ x.found = reports[r].found
      BY DEF TypeInv, TypeOK, VerifyTypeOK, ReportState
    <3>2. reports'[r] = x /\ reports[r].pc = "record"
      BY <1>2, <2>3 DEF RecordEvent, Advance, TypeInv, TypeOK, VerifyTypeOK
    <3> HIDE DEF x
    <3>3. events'[r] = AuditRow(r)
      BY <1>0, <2>3
    <3> QED BY <3>1, <3>2, <3>3 DEF Records, SameData
  <2> QED BY <1>2, <2>1, <2>2, <2>3 DEF RecordEvent, InsertEvent
<1>3. ASSUME NEW s \in Reports, \/ Receive(s) \/ Resolve(s) \/ Gate(s) \/ Match(s)
                                \/ ClaimMismatch(s) \/ VerifyMatched(s) \/ CountFailures(s)
                                \/ CountFlood(s) \/ CreateBlock(s) \/ Notify(s)
                                \/ ReportFault(s)
      PROVE  UNCHANGED events
  BY <1>3 DEF Receive, Resolve, Gate, Match, ClaimMismatch, VerifyMatched, CountFailures,
              CountFlood, CreateBlock, Notify, ReportFault, storeVars
<1>4. ASSUME NEW c \in Calls, BeginStart(c) \/ StartStep(c) \/ StartFault(c)
      PROVE  UNCHANGED events
  BY <1>4 DEF BeginStart, StartStep, StartPickNumber, StartCreateSession, StartNoNumber,
              StartFault, storeVars
<1>5. CASE Tick \/ Provision \/ Sweep \/ UNCHANGED vars
  BY <1>1, <1>5 DEF Tick, Provision, Sweep, vars, storeVars, CreateDevice, SetHeartbeat,
                    CreateNumber, ExpireDue
<1>6. CASE Prune
  BY <1>0, <1>6 DEF Prune, DeleteInboundEventsBefore, NoEvent, EventKept
<1>7. CASE RemoveDevice
  BY <1>0, <1>7 DEF RemoveDevice, DeleteDevice, EventRow, EventKept
<1> QED BY <1>1, <1>2, <1>3, <1>4, <1>5, <1>6, <1>7 DEF Next, VerifyNext, InboundStep

(* Signal r is the one session c asked for, seen while the session was live. *)
Answers(r, c) ==
  LET sig == reports[r].sig
      row == sessions[c]
  IN /\ Opened(c)
     /\ row.number \in {reports[r].number, None}
     /\ \/ row.channel = "sms" /\ sig.type = "sms" /\ row.code = sig.body
        \/ row.channel = "dtmf" /\ sig.type = "call" /\ row.code = sig.body
        \/ row.channel = "call" /\ sig.type = "call" /\ sig.body = Blank /\ row.claimed = sig.sender
     /\ row.expires - TTL <= reports[r].found /\ reports[r].found < row.expires

(* What the handler of report r may rely on at each of its statements: the device it resolved,
   the session it matched, the claim it compared, the UPDATE it won. *)
ReportSafe(r) ==
  LET rep == reports[r] IN
  /\ rep.pc \in {"resolve", "gate", "match"} => rep.sig.type \in {"sms", "call"}
  /\ rep.pc \in {"gate", "match", "attempt", "verify"} => Holds(r)
  /\ rep.pc \in {"attempt", "verify"} => Answers(r, rep.session)
  /\ rep.pc = "verify" => ClaimAccepts(rep.session, rep.sig.sender)
  /\ rep.won => /\ rep.pc \in {"notify", "record", "done"}
                /\ rep.session \in Calls /\ sessions[rep.session].status = "verified"
                /\ Proves(r, rep.session)
  /\ rep.outcome = "matched" => rep.won
  /\ rep.pc = "notify" => rep.won /\ notified[rep.session] = 0

(* An audit row that names a session is the row of the report that verified it. *)
EventSafe(r) ==
  events[r].recorded /\ events[r].matched # None =>
    /\ reports[r].pc = "done" /\ reports[r].won
    /\ events[r].matched = reports[r].session /\ events[r].sender = reports[r].sig.sender

(* A verified row has a winner, and its tenant was told at most once, and only of a verified
   row. *)
SessionSafe(c) ==
  /\ sessions[c].status = "verified" => Winners(c) # {}
  /\ notified[c] \in {0, 1}
  /\ notified[c] = 1 => sessions[c].status = "verified"

ReportsSafe == \A r \in Reports : ReportSafe(r)
EventsSafe == \A r \in Reports : EventSafe(r)
SessionsSafe == \A c \in Calls : SessionSafe(c)
(* The UPDATE of VerifySession changed a row for one report at most: its guard is status =
   pending. *)
OneWinner ==
  \A r, s \in Reports :
    reports[r].won /\ reports[s].won /\ reports[r].session = reports[s].session => r = s

(* The inductive invariant of Provenance and SingleUse. *)
UseInv == ReportsSafe /\ EventsSafe /\ SessionsSafe /\ OneWinner

(* A report that answered a session goes on answering it: Start's promises are kept by every
   step. *)
LEMMA AnswersKept ==
  ASSUME NEW r \in Reports, NEW c, Answers(r, c), SameData(r), Kept(c)
  PROVE  Answers(r, c)'
  BY DEF Answers, SameData, Kept

(* The proof of a verified session is never lost. *)
LEMMA ProofKept ==
  ASSUME NEW r \in Reports, NEW c, Proves(r, c), sessions[c].status = "verified",
         SameData(r), Kept(c)
  PROVE  Proves(r, c)' /\ sessions'[c].status = "verified"
  BY DEF Proves, SameData, Kept, Opened

(* The session matchSession returns asked for the signal it was given, and was live then. *)
LEMMA FoundAnswers ==
  ASSUME TypeInv, CallsSafe, NEW r \in Reports, ReportSafe(r), Finds(r)
  PROVE  \E c \in Calls :
           /\ reports'[r].session = c /\ Answers(r, c)' /\ Holds(r)'
           /\ reports'[r].pc = "verify" => ClaimAccepts(c, reports[r].sig.sender)'
<1>0. PICK c, sig, n : c = reports'[r].session /\ sig = reports[r].sig /\ n = reports[r].number
  OBVIOUS
<1>1. c \in MatchSession(n, sig) /\ sig.type \in {"sms", "call"}
  BY <1>0 DEF Finds, ReportSafe
<1>2. \/ sig.type = "sms" /\ c \in FindPendingByCode(n, sig.body, "sms")
      \/ sig.type = "call" /\ c \in FindPendingByCode(n, sig.body, "dtmf")
      \/ sig.type = "call" /\ sig.body = Blank /\ c \in FindPendingMissedCall(n, sig.sender)
  <2>1. ExtractCode(sig.body) \in {sig.body, NoCode}
    BY DEF ExtractCode
  <2> QED BY <1>1, <2>1 DEF MatchSession
<1>3. /\ c \in Calls /\ Pending(c) /\ sessions[c].number = n /\ sessions[c].expires > now
      /\ \/ sessions[c].channel = "sms" /\ sig.type = "sms" /\ sessions[c].code = sig.body
         \/ sessions[c].channel = "dtmf" /\ sig.type = "call" /\ sessions[c].code = sig.body
         \/ /\ sessions[c].channel = "call" /\ sig.type = "call" /\ sig.body = Blank
            /\ sessions[c].claimed = sig.sender
  BY <1>2 DEF FindPendingByCode, FindPendingMissedCall, PendingOn
<1>4. sessions[c].expires - TTL <= now /\ now < sessions[c].expires
  <2>1. sessions[c].expires \in Nat /\ now \in Nat /\ sessions[c].expires <= now + TTL
    BY <1>3 DEF TypeInv, TypeOK, StoreTypeOK, SessionRow, CallsSafe, CallSafe, Opened, Pending
  <2> QED BY <1>3, <2>1, VerifyAssumption
<1>5. /\ reports'[r].sig = sig /\ reports'[r].number = n /\ reports'[r].found = now
      /\ UNCHANGED sessions
      /\ reports'[r].session = c
      /\ reports'[r].pc = IF ClaimAccepts(c, sig.sender) THEN "verify" ELSE "attempt"
  BY <1>0 DEF Finds
<1>6. Holds(r)'
  BY <1>0, <1>5 DEF Finds, ReportSafe, Holds
<1>7. Answers(r, c)'
  BY <1>3, <1>4, <1>5 DEF Answers, Opened, Pending
<1>8. reports'[r].pc = "verify" => ClaimAccepts(c, sig.sender)'
  BY <1>5 DEF ClaimAccepts
<1>9. ClaimAccepts(c, sig.sender)' = ClaimAccepts(c, reports[r].sig.sender)'
  BY <1>0, <1>5 DEF ClaimAccepts
<1> QED BY <1>3, <1>5, <1>6, <1>7, <1>8, <1>9

(* The report whose UPDATE changed the row proves the session, and its row names it verified. *)
LEMMA WinnerProves ==
  ASSUME TypeInv, NEW r \in Reports, ReportSafe(r), Verifies(r),
         NEW c, c = reports[r].session, Pending(c), Kept(c)
  PROVE  c \in Calls /\ Proves(r, c)' /\ sessions'[c].status = "verified"
<1> DEFINE row == [sessions[c] EXCEPT !.status = "verified", !.verified = reports[r].sig.sender]
<1>1. c \in Calls /\ sessions[c] \in SessionRow
  BY DEF TypeInv, TypeOK, StoreTypeOK, ReportsOK, ReportOK, Verifies
<1>2. row.status = "verified" /\ row.verified = reports[r].sig.sender
  BY <1>1 DEF SessionRow
<1>3. sessions'[c] = row
  BY <1>1 DEF Verifies, VerifySession, TypeInv, TypeOK, StoreTypeOK
<1> HIDE DEF row
<1>4. SameData(r) /\ reports[r].pc = "verify"
  BY DEF Verifies
<1>5. Answers(r, c)'
  BY <1>4, AnswersKept DEF ReportSafe
<1>6. Holds(r) /\ ClaimAccepts(c, reports[r].sig.sender)
  BY <1>4 DEF ReportSafe
<1>7. sessions'[c].binding = "claim" => sessions'[c].claimed = reports[r].sig.sender
  BY <1>6 DEF ClaimAccepts, Kept, Opened, Pending
<1> QED BY <1>1, <1>2, <1>3, <1>4, <1>5, <1>6, <1>7 DEF Proves, Answers, Holds, SameData

(* A report that won stays the winner, with the same signal and session. *)
LEMMA WonStays ==
  ASSUME TypeInv, [Next]_vars, NEW r \in Reports, ReportSafe(r), reports[r].won
  PROVE  reports'[r].won /\ SameData(r)
  BY ReportStep DEF ReportSafe, Acts, Begins, Resolves, Finds, Moves, Verifies, SameData

(* A report wins by VerifySession of a session that is still pending. *)
LEMMA NewlyWon ==
  ASSUME TypeInv, [Next]_vars, NEW r \in Reports, ReportSafe(r), reports'[r].won, ~reports[r].won
  PROVE  Verifies(r) /\ Pending(reports[r].session)
  BY ReportStep DEF ReportSafe, Acts, Begins, Resolves, Finds, Moves, Verifies

(* A row becomes verified by VerifySession of a report of that session. *)
LEMMA NewlyVerified ==
  ASSUME TypeInv, [Next]_vars, NEW c \in Calls,
         sessions[c].status # "verified", sessions'[c].status = "verified"
  PROVE  \E r \in Reports : Verifies(r) /\ reports[r].session = c /\ Pending(c)
<1>0. sessions[c] \in SessionRow /\ sessions \in [Calls -> SessionRow]
  BY DEF TypeInv, TypeOK, StoreTypeOK
<1>1. CASE UNCHANGED sessions
  BY <1>1
<1>2. ASSUME NEW d \in Calls, Inserts(d)
      PROVE  FALSE
  BY <1>0, <1>2 DEF Inserts, InsertSession, Candidate
<1>3. ASSUME NEW r \in Reports, reports[r].pc = "attempt", IncrementAttempts(reports[r].session)
      PROVE  FALSE
  BY <1>0, <1>3 DEF IncrementAttempts, SessionRow
<1>4. ASSUME NEW r \in Reports, Verifies(r)
      PROVE  reports[r].session = c /\ Pending(c)
  BY <1>0, <1>4 DEF Verifies, VerifySession, Pending, SessionRow
<1>5. CASE ExpireDue
  BY <1>0, <1>5 DEF ExpireDue, SessionRow
<1>6. ASSUME NEW d \in Devices, DeleteDevice(d)
      PROVE  FALSE
  BY <1>0, <1>6 DEF DeleteDevice, SessionRow
<1> QED BY <1>1, <1>2, <1>3, <1>4, <1>5, <1>6, SessionsStep

(* No second report wins a session: it would have found the row no longer pending. *)
LEMMA NextOneWinner ==
  ASSUME TypeInv, ReportsSafe, OneWinner, [Next]_vars
  PROVE  OneWinner'
<1> SUFFICES ASSUME NEW r \in Reports, NEW s \in Reports, reports'[r].won, reports'[s].won,
                    reports'[r].session = reports'[s].session
             PROVE  r = s
  BY DEF OneWinner
<1>0. ReportSafe(r) /\ ReportSafe(s)
  BY DEF ReportsSafe
<1>1. CASE reports[r].won /\ reports[s].won
  BY <1>0, <1>1, WonStays DEF OneWinner, SameData
<1>2. CASE reports[r].won /\ ~reports[s].won
  BY <1>0, <1>2, WonStays, NewlyWon DEF Verifies, SameData, ReportSafe, Pending
<1>3. CASE ~reports[r].won /\ reports[s].won
  BY <1>0, <1>3, WonStays, NewlyWon DEF Verifies, SameData, ReportSafe, Pending
<1>4. CASE ~reports[r].won /\ ~reports[s].won
  <2>1. reports'[r].pc # reports[r].pc /\ reports'[s].pc # reports[s].pc
    BY <1>0, <1>4, NewlyWon DEF Verifies
  <2> QED BY <2>1, OneActs
<1> QED BY <1>1, <1>2, <1>3, <1>4

(* Every step keeps ReportSafe: the acting report by its kind of step, the others because rows
   are Kept. *)
LEMMA NextReports ==
  ASSUME TypeInv, CallsSafe, UseInv, [Next]_vars
  PROVE  ReportsSafe'
<1> SUFFICES ASSUME NEW r \in Reports PROVE ReportSafe(r)'
  BY DEF ReportsSafe
<1> DEFINE rep == reports[r]
<1>0. ReportSafe(r) /\ reports[r] \in ReportState
  BY DEF UseInv, ReportsSafe, TypeInv, TypeOK, VerifyTypeOK
<1>1. \A c \in Calls : Kept(c)
  BY RowsKept
<1>2. reports'[r].pc \in {"resolve", "gate", "match"} => reports'[r].sig.type \in {"sms", "call"}
  BY <1>0, ReportStep DEF ReportSafe, Acts, Begins, Resolves, Finds, Moves, Verifies, SameData
<1>3. reports'[r].pc \in {"gate", "match", "attempt", "verify"} => Holds(r)'
  BY <1>0, ReportStep, FoundAnswers
     DEF ReportSafe, Acts, Begins, Resolves, Moves, Verifies, SameData, Holds
<1>4. ASSUME reports'[r].pc \in {"attempt", "verify"}
      PROVE  \E c : /\ reports'[r].session = c /\ Answers(r, c)'
                    /\ reports'[r].pc = "verify" => ClaimAccepts(c, reports[r].sig.sender)'
  <2>1. CASE Finds(r)
    BY <1>0, <2>1, FoundAnswers
  <2>2. CASE reports'[r] = reports[r]
    <3>1. PICK c \in Calls : c = reports[r].session
      BY <1>4, <2>2 DEF TypeInv, ReportsOK, ReportOK
    <3>2. Answers(r, c) /\ SameData(r)
      BY <1>0, <1>4, <2>2, <3>1 DEF ReportSafe, SameData
    <3>3. reports'[r].pc = "verify" => ClaimAccepts(c, reports[r].sig.sender)'
      BY <1>0, <1>1, <1>4, <2>2, <3>1, <3>2 DEF ReportSafe, ClaimAccepts, Kept, Answers
    <3> QED BY <1>1, <2>2, <3>1, <3>2, <3>3, AnswersKept
  <2> QED BY <1>4, <2>1, <2>2, ReportStep DEF Acts, Begins, Resolves, Moves, Verifies
<1>5. ASSUME reports'[r].won
      PROVE  \E c \in Calls : /\ reports'[r].session = c /\ Proves(r, c)'
                              /\ sessions'[c].status = "verified"
  <2>1. CASE reports[r].won
    <3>1. PICK c \in Calls : c = reports[r].session /\ Proves(r, c)
                                /\ sessions[c].status = "verified"
      BY <1>0, <2>1 DEF ReportSafe
    <3>2. SameData(r)
      BY <1>0, <2>1, WonStays
    <3> QED BY <1>1, <3>1, <3>2, ProofKept DEF SameData
  <2>2. CASE ~reports[r].won
    <3>1. Verifies(r) /\ Pending(reports[r].session)
      BY <1>0, <1>5, <2>2, NewlyWon
    <3>2. PICK c \in Calls : c = reports[r].session
      BY <3>1 DEF Verifies, TypeInv, ReportsOK, ReportOK
    <3> QED BY <1>0, <1>1, <3>1, <3>2, WinnerProves DEF Verifies, SameData
  <2> QED BY <2>1, <2>2
<1>6. reports'[r].won => reports'[r].pc \in {"notify", "record", "done"}
  BY <1>0, ReportStep DEF ReportSafe, Acts, Begins, Resolves, Finds, Moves, Verifies
<1>7. reports'[r].outcome = "matched" => reports'[r].won
  BY <1>0, ReportStep DEF ReportSafe, Acts, Begins, Resolves, Finds, Moves, Verifies, Pending
<1>8. ASSUME reports'[r].pc = "notify"
      PROVE  reports'[r].won /\ notified'[reports'[r].session] = 0
  <2>1. ASSUME NEW c \in Calls, c = reports[r].session, notified[c] = 0,
               \A s \in Reports : reports[s].pc = "notify" /\ reports[s].session = c => s = r
        PROVE  notified'[c] = 0
    <3>1. \A s \in Reports : reports'[s].pc = "record" => s # r
      BY <1>8
    <3> QED BY <2>1, <3>1, NotifiedStep DEF TypeInv, TypeOK, VerifyTypeOK, ReportsOK, ReportOK
  <2>2. CASE reports'[r] = reports[r]
    <3>1. PICK c \in Calls : c = reports[r].session
      BY <1>8, <2>2 DEF TypeInv, ReportsOK, ReportOK
    <3>2. reports[r].won /\ notified[c] = 0
      BY <1>0, <1>8, <2>2, <3>1 DEF ReportSafe
    <3>3. \A s \in Reports : reports[s].pc = "notify" /\ reports[s].session = c => s = r
      BY <3>1, <3>2 DEF UseInv, ReportsSafe, ReportSafe, OneWinner
    <3> QED BY <2>1, <2>2, <3>1, <3>2, <3>3
  <2>3. CASE Verifies(r)
    <3>1. PICK c \in Calls : c = reports[r].session
      BY <2>3 DEF TypeInv, ReportsOK, ReportOK, Verifies
    <3>2. Pending(c) /\ reports'[r].won /\ reports'[r].session = c
      BY <1>8, <2>3, <3>1 DEF Verifies, SameData, Pending
    <3>3. notified[c] = 0
      BY <3>2 DEF UseInv, SessionsSafe, SessionSafe, Pending
    <3>4. \A s \in Reports : ~(reports[s].pc = "notify" /\ reports[s].session = c)
      BY <3>2 DEF UseInv, ReportsSafe, ReportSafe, Pending
    <3> QED BY <2>1, <3>1, <3>2, <3>3, <3>4
  <2> QED BY <1>8, <2>2, <2>3, ReportStep DEF Acts, Begins, Resolves, Finds, Moves
<1>9. reports'[r].pc \in {"attempt", "verify"} => Answers(r, reports[r].session)'
  BY <1>4
<1>10. reports'[r].pc = "verify" => ClaimAccepts(reports[r].session, reports[r].sig.sender)'
  BY <1>4
<1>11. reports'[r].won => /\ reports'[r].session \in Calls
                          /\ sessions'[reports'[r].session].status = "verified"
                          /\ Proves(r, reports[r].session)'
  BY <1>5
<1> QED BY <1>2, <1>3, <1>6, <1>7, <1>8, <1>9, <1>10, <1>11 DEF ReportSafe

(* Every step keeps EventSafe. *)
LEMMA NextEvents ==
  ASSUME TypeInv, UseInv, [Next]_vars
  PROVE  EventsSafe'
<1> SUFFICES ASSUME NEW r \in Reports, events'[r].recorded, events'[r].matched # None
             PROVE  /\ reports'[r].pc = "done" /\ reports'[r].won
                    /\ events'[r].matched = reports'[r].session
                    /\ events'[r].sender = reports'[r].sig.sender
  BY DEF EventsSafe, EventSafe
<1>0. ReportSafe(r) /\ EventSafe(r)
  BY DEF UseInv, ReportsSafe, EventsSafe
<1>1. CASE Records(r)
  <2>1. /\ events'[r].sender = reports[r].sig.sender
        /\ events'[r].matched = IF reports[r].outcome = "matched" THEN reports[r].session ELSE None
    BY <1>1 DEF Records, AuditRow
  <2> QED BY <1>0, <1>1, <2>1 DEF Records, SameData, ReportSafe
<1>2. CASE EventKept(r)
  <2>1. /\ reports[r].pc = "done" /\ reports[r].won /\ events'[r].matched = reports[r].session
        /\ events'[r].sender = reports[r].sig.sender
    BY <1>0, <1>2 DEF EventKept, EventSafe
  <2>2. reports'[r] = reports[r]
    BY <2>1, ReportStep DEF Acts, Begins, Resolves, Finds, Moves, Verifies
  <2> QED BY <2>1, <2>2
<1> QED BY <1>1, <1>2, EventStep

(* Every step keeps SessionSafe. *)
LEMMA NextSessions ==
  ASSUME TypeInv, CallsSafe, UseInv, [Next]_vars
  PROVE  SessionsSafe'
<1> SUFFICES ASSUME NEW c \in Calls PROVE SessionSafe(c)'
  BY DEF SessionsSafe
<1>0. SessionSafe(c) /\ Kept(c) /\ notified \in [Calls -> Nat]
  BY RowsKept DEF UseInv, SessionsSafe, TypeInv, TypeOK, VerifyTypeOK
<1>1. sessions'[c].status = "verified" =>
        \E r \in Reports : reports'[r].won /\ reports'[r].session = c
  <2>1. CASE sessions[c].status = "verified"
    <3>1. PICK r \in Reports : reports[r].won /\ reports[r].session = c
      BY <1>0, <2>1 DEF SessionSafe, Winners
    <3>2. ReportSafe(r)
      BY DEF UseInv, ReportsSafe
    <3> QED BY <3>1, <3>2, WonStays DEF SameData
  <2>2. CASE sessions[c].status # "verified" /\ sessions'[c].status = "verified"
    <3>1. PICK r \in Reports : Verifies(r) /\ reports[r].session = c /\ Pending(c)
      BY <2>2, NewlyVerified
    <3> QED BY <3>1 DEF Verifies, SameData, Pending
  <2> QED BY <2>1, <2>2
<1>2. notified'[c] # notified[c] =>
        \E r \in Reports : reports[r].pc = "notify" /\ reports[r].session = c
                           /\ notified'[c] = notified[c] + 1
  BY <1>0, NotifiedStep
<1>3. notified'[c] # notified[c] => /\ notified[c] = 0 /\ notified'[c] = 1
                                    /\ sessions[c].status = "verified"
  BY <1>0, <1>2 DEF UseInv, ReportsSafe, ReportSafe
<1>4. notified'[c] \in {0, 1} /\ (notified'[c] = 1 => sessions[c].status = "verified")
  BY <1>0, <1>3 DEF SessionSafe
<1>5. notified'[c] = 1 => sessions'[c].status = "verified"
  BY <1>0, <1>4 DEF Kept, Opened
<1> QED BY <1>1, <1>4, <1>5 DEF SessionSafe, Winners

(* The inductive invariant holds at all times. *)
THEOREM UseInvariant == Spec => []UseInv
<1>1. Init => UseInv
  BY StoreAssumption DEF Init, StoreInit, VerifyInit, UseInv, ReportsSafe, ReportSafe,
     EventsSafe, EventSafe,
     SessionsSafe, SessionSafe, OneWinner, NoSession, NoEvent
<1>2. TypeInv /\ CallsSafe /\ UseInv /\ [Next]_vars => UseInv'
  BY NextReports, NextEvents, NextSessions, NextOneWinner DEF UseInv
<1> QED BY <1>1, <1>2, TypeInvariant, CallsInvariant, PTL DEF Spec

(* Every verified session was verified by a report of its own line, from the device that owns
   it, with the code, the channel and the sender it asked for, matched before it expired. *)
THEOREM ProvenanceHolds == Spec => []Provenance
<1>1. UseInv => Provenance
  <2> SUFFICES ASSUME UseInv, NEW c \in Calls, sessions[c].status = "verified"
               PROVE  \E r \in Winners(c) : Proves(r, c)
    BY DEF Provenance
  <2>1. PICK r \in Winners(c) : TRUE
    BY DEF UseInv, SessionsSafe, SessionSafe
  <2> QED BY <2>1 DEF UseInv, ReportsSafe, ReportSafe, Winners
<1> QED BY <1>1, UseInvariant, PTL

(* A session is verified by one report; one audit row names it and one notification is sent for
   it, both with the sender its row names, whatever reports race, fail or are delivered again. *)
THEOREM SingleUseHolds == Spec => []SingleUse
<1>1. UseInv => SingleUse
  <2> SUFFICES ASSUME UseInv, NEW c \in Calls
               PROVE  LET rows == {r \in Reports : events[r].recorded /\ events[r].matched = c} IN
                      /\ \A r, s \in Winners(c) : r = s
                      /\ \A r, s \in rows : r = s
                      /\ notified[c] <= 1
                      /\ notified[c] = 1 \/ rows # {} => sessions[c].status = "verified"
                      /\ \A r \in rows : events[r].sender = sessions[c].verified
    BY DEF SingleUse
  <2> DEFINE rows == {r \in Reports : events[r].recorded /\ events[r].matched = c}
  <2>1. \A r, s \in Winners(c) : r = s
    BY DEF UseInv, OneWinner, Winners
  <2>2. \A r \in rows : r \in Winners(c) /\ events[r].sender = reports[r].sig.sender
    BY StoreAssumption DEF UseInv, EventsSafe, EventSafe, Winners
  <2>3. \A r \in Winners(c) : /\ sessions[c].status = "verified"
                              /\ sessions[c].verified = reports[r].sig.sender
    BY DEF UseInv, ReportsSafe, ReportSafe, Winners, Proves
  <2>4. notified[c] <= 1 /\ (notified[c] = 1 => sessions[c].status = "verified")
    BY DEF UseInv, SessionsSafe, SessionSafe
  <2> QED BY <2>1, <2>2, <2>3, <2>4
<1> QED BY <1>1, UseInvariant, PTL

-----------------------------------------------------------------------------
(* The coordinator implements SessionLifecycle: each of its steps opens, verifies, expires or
   tells of one session under the guards of the abstract specification, lets time pass, or is
   a stutter. *)

(* A step moves the clock, or notifies, or writes the sessions table: never two of them. *)
LEMMA StepEffects ==
  ASSUME TypeInv, [Next]_vars
  PROVE  \/ UNCHANGED <<sessions, notified>> /\ (UNCHANGED now \/ now' = now + 1)
         \/ UNCHANGED <<now, notified>>
         \/ \E r \in Reports : Notify(r) /\ UNCHANGED <<now, sessions>>
<1>1. ASSUME NEW r \in Reports, Notify(r)
      PROVE  Notify(r) /\ UNCHANGED <<now, sessions>>
  BY <1>1 DEF Notify, storeVars
<1>2. ASSUME NEW r \in Reports, \/ Receive(r) \/ Resolve(r) \/ Gate(r) \/ Match(r)
                                \/ ClaimMismatch(r) \/ VerifyMatched(r) \/ CountFailures(r)
                                \/ CountFlood(r) \/ CreateBlock(r) \/ RecordEvent(r)
                                \/ ReportFault(r)
      PROVE  UNCHANGED <<now, notified>>
  BY <1>2 DEF Receive, Resolve, Gate, Match, ClaimMismatch, VerifyMatched, CountFailures,
              CountFlood, CreateBlock, RecordEvent, ReportFault, storeVars
<1>3. ASSUME NEW c \in Calls, BeginStart(c) \/ StartStep(c) \/ StartFault(c)
      PROVE  UNCHANGED <<now, notified>>
  BY <1>3 DEF BeginStart, StartStep, StartPickNumber, StartCreateSession, StartNoNumber,
              StartFault, storeVars
<1>4. CASE Tick
  BY <1>4 DEF Tick, verifyVars
<1>5. CASE Provision \/ RemoveDevice \/ Sweep \/ Prune \/ UNCHANGED vars
  BY <1>5 DEF Provision, RemoveDevice, Sweep, Prune, vars, verifyVars, storeVars, CreateDevice,
              SetHeartbeat, CreateNumber, DeleteDevice, ExpireDue, DeleteInboundEventsBefore
<1> QED BY <1>1, <1>2, <1>3, <1>4, <1>5 DEF Next, VerifyNext, InboundStep

(* A step of SessionLifecycle, or a stutter. *)
LifecycleStep == [Lifecycle!Next]_(Lifecycle!lifecycleVars)

\* What the abstract session of c reads in the row.
SameSession(c) ==
  /\ sessions'[c].status = sessions[c].status /\ sessions'[c].verified = sessions[c].verified
  /\ sessions'[c].expires = sessions[c].expires
  /\ sessions'[c].binding = sessions[c].binding /\ sessions'[c].claimed = sessions[c].claimed

(* A step that changes no abstract session is a stutter. *)
LEMMA Stutters ==
  ASSUME \A c \in Calls : SameSession(c), UNCHANGED <<now, notified>>
  PROVE  LifecycleStep
  BY DEF LifecycleStep, SameSession, Lifecycle!lifecycleVars

(* Tick is TimePasses. *)
LEMMA ClockSteps ==
  ASSUME UNCHANGED <<sessions, notified>>, now' = now + 1
  PROVE  LifecycleStep
  BY DEF LifecycleStep, Lifecycle!Next, Lifecycle!TimePasses

(* The INSERT of CreateSession is Open: the row was absent, and arrives pending and unverified. *)
LEMMA InsertOpens ==
  ASSUME TypeInv, CallsSafe, NEW c \in Calls, Inserts(c), UNCHANGED <<now, notified>>
  PROVE  LifecycleStep
<1>1. PICK row \in SessionRow : /\ row.status = "pending" /\ row.verified = None
                                /\ sessions' = [sessions EXCEPT ![c] = row]
  BY CandidateType DEF Inserts, InsertSession, Candidate
<1>2. /\ sessions[c].status = "none" /\ sessions[c].verified = None
      /\ sessions \in [Calls -> SessionRow]
  BY DEF Inserts, CallsSafe, CallSafe, Opened, TypeInv, TypeOK, StoreTypeOK
<1>3. \A d \in Calls : sessions'[d] = IF d = c THEN row ELSE sessions[d]
  BY <1>1, <1>2
<1>4. Lifecycle!Open(c)
  BY <1>1, <1>2, <1>3 DEF Lifecycle!Open, SessionRow
<1> QED BY <1>4 DEF LifecycleStep, Lifecycle!Next

(* VerifySession is Verify, or a stutter when another report won; the claim was compared
   before, and no statement changes a claim. *)
LEMMA VerifyVerifies ==
  ASSUME TypeInv, NEW r \in Reports, ReportSafe(r), Verifies(r), UNCHANGED <<now, notified>>
  PROVE  LifecycleStep
<1>1. PICK c \in Calls : c = reports[r].session
  BY DEF Verifies, TypeInv, ReportsOK, ReportOK
<1>2. PICK sender \in Senders : sender = reports[r].sig.sender
  BY SignalSender DEF Verifies
<1>3. sessions \in [Calls -> SessionRow] /\ sessions[c] \in SessionRow
  BY DEF TypeInv, TypeOK, StoreTypeOK
<1>4. CASE ~Pending(c)
  BY <1>1, <1>4, Stutters DEF Verifies, VerifySession, SameSession
<1>5. CASE Pending(c)
  <2> DEFINE row == [sessions[c] EXCEPT !.status = "verified", !.verified = sender]
  <2>1. /\ row.status = "verified" /\ row.verified = sender
        /\ row.expires = sessions[c].expires /\ row.binding = sessions[c].binding
        /\ row.claimed = sessions[c].claimed
    BY <1>3 DEF SessionRow
  <2>2. sessions' = [sessions EXCEPT ![c] = row]
    BY <1>1, <1>2, <1>5 DEF Verifies, VerifySession
  <2> HIDE DEF row
  <2>3. \A d \in Calls : sessions'[d] = IF d = c THEN row ELSE sessions[d]
    BY <1>3, <2>2
  <2>4. sessions[c].binding = "claim" => sessions[c].claimed = sender
    BY <1>1, <1>2 DEF Verifies, ReportSafe, ClaimAccepts
  <2>5. Lifecycle!Verify(c, sender)
    BY <1>5, <2>1, <2>3, <2>4 DEF Lifecycle!Verify, Pending
  <2> QED BY <2>5 DEF LifecycleStep, Lifecycle!Next
<1> QED BY <1>4, <1>5

(* The UPDATE of ExpireDue is Expire, of the sessions that are due. *)
LEMMA SweepExpires ==
  ASSUME TypeInv, ExpireDue, UNCHANGED <<now, notified>>
  PROVE  LifecycleStep
<1>1. PICK due \in SUBSET Calls : due = {c \in Calls : Due(c)}
  OBVIOUS
<1>2. \A c \in Calls : /\ sessions'[c].status = IF c \in due THEN "expired" ELSE sessions[c].status
                       /\ sessions'[c].verified = sessions[c].verified
                       /\ sessions'[c].expires = sessions[c].expires
                       /\ sessions'[c].binding = sessions[c].binding
                       /\ sessions'[c].claimed = sessions[c].claimed
  BY <1>1, SessionRowType DEF ExpireDue, SessionRow
<1>3. \A c \in due : sessions[c].status = "pending" /\ sessions[c].expires <= now
  BY <1>1 DEF Due, Pending
<1>4. Lifecycle!Expire(due)
  BY <1>2, <1>3 DEF Lifecycle!Expire
<1> QED BY <1>4 DEF LifecycleStep, Lifecycle!Next

(* The call of the Notifier is Tell: the session is verified and was not told of before. *)
LEMMA NotifyTells ==
  ASSUME TypeInv, NEW r \in Reports, ReportSafe(r), Notify(r), UNCHANGED <<now, sessions>>
  PROVE  LifecycleStep
<1>1. PICK c \in Calls : c = reports[r].session
  BY DEF Notify, TypeInv, ReportsOK, ReportOK
<1>2. notified[c] = 0 /\ sessions[c].status = "verified"
  BY <1>1 DEF Notify, ReportSafe
<1>3. notified' = [notified EXCEPT ![c] = 1]
  BY <1>1, <1>2 DEF Notify
<1>4. Lifecycle!Tell(c)
  BY <1>2, <1>3 DEF Lifecycle!Tell
<1> QED BY <1>4 DEF LifecycleStep, Lifecycle!Next

(* Every step from a state of the invariants is a step of SessionLifecycle or a stutter. *)
LEMMA NextKeepsPromises ==
  ASSUME TypeInv, CallsSafe, UseInv, [Next]_vars
  PROVE  LifecycleStep
<1>0. ReportsSafe /\ \A c \in Calls : sessions[c] \in SessionRow
  BY SessionRowType DEF UseInv
<1>1. CASE UNCHANGED <<sessions, notified>> /\ (UNCHANGED now \/ now' = now + 1)
  BY <1>1, ClockSteps, Stutters DEF SameSession
<1>2. ASSUME NEW r \in Reports, Notify(r), UNCHANGED <<now, sessions>>
      PROVE  LifecycleStep
  BY <1>0, <1>2, NotifyTells DEF ReportsSafe
<1>3. CASE UNCHANGED <<now, notified>>
  <2>1. CASE UNCHANGED sessions
    BY <1>3, <2>1, Stutters DEF SameSession
  <2>2. ASSUME NEW c \in Calls, Inserts(c)
        PROVE  LifecycleStep
    BY <1>3, <2>2, InsertOpens
  <2>3. ASSUME NEW r \in Reports, reports[r].pc = "attempt", IncrementAttempts(reports[r].session)
        PROVE  LifecycleStep
    <3>1. \A c \in Calls : SameSession(c)
      BY <1>0, <2>3 DEF IncrementAttempts, SameSession, SessionRow, TypeInv, TypeOK, StoreTypeOK
    <3> QED BY <1>3, <3>1, Stutters
  <2>4. ASSUME NEW r \in Reports, Verifies(r)
        PROVE  LifecycleStep
    BY <1>0, <1>3, <2>4, VerifyVerifies DEF ReportsSafe
  <2>5. CASE ExpireDue
    BY <1>3, <2>5, SweepExpires
  <2>6. ASSUME NEW d \in Devices, DeleteDevice(d)
        PROVE  LifecycleStep
    <3>1. \A c \in Calls : SameSession(c)
      BY <1>0, <2>6 DEF DeleteDevice, SameSession, SessionRow
    <3> QED BY <1>3, <3>1, Stutters
  <2> QED BY <2>1, <2>2, <2>3, <2>4, <2>5, <2>6, SessionsStep
<1> QED BY <1>1, <1>2, <1>3, StepEffects

(* The detailed specification implements the abstract one: a session is opened once, verified
   while pending and by the sender it was claimed for, expired when due only, told of once; and
   what is verified stays so. *)
THEOREM PromisesKept == Spec => SessionsKeepPromises
<1>1. Init => Lifecycle!Init
  BY DEF Init, StoreInit, VerifyInit, NoSession, Lifecycle!Init
<1>2. TypeInv /\ CallsSafe /\ UseInv /\ [Next]_vars => [Lifecycle!Next]_(Lifecycle!lifecycleVars)
  BY NextKeepsPromises DEF LifecycleStep
<1> QED BY <1>1, <1>2, TypeInvariant, CallsInvariant, UseInvariant, PTL
        DEF Spec, SessionsKeepPromises, Lifecycle!Spec
-----------------------------------------------------------------------------
(* A block is earned.  maybeBlock counts audit rows, and a row is written only after its report was
   counted; so what a sender is blocked for is counted here in the reports themselves, which only
   grows: every audit row stands for one of them, and the report at hand is another. *)

Active == {r \in Reports : reports[r].pc # "idle"}

(* The reports of sender s that reached a line, and those of them that proved nothing. *)
MadeBy(s) == {r \in Active : reports[r].sig.sender = s /\ reports[r].number # None}

FailedBy(s) ==
  {r \in MadeBy(s) : /\ reports[r].pc \in {"fails", "floods", "block", "record", "done"}
                     /\ reports[r].outcome # "matched"}

Earned(s) ==
  \/ Cardinality(FailedBy(s)) >= FailThreshold
  \/ Cardinality(MadeBy(s)) >= FloodThreshold

(* The audit row of r, while it is there, stands for r. *)
RowIsReport(r) ==
  events[r].recorded =>
    /\ reports[r].pc = "done" /\ r \in MadeBy(events[r].sender)
    /\ events[r].matched = None => r \in FailedBy(events[r].sender)

EarnSafe(r) ==
  /\ reports[r].pc \notin {"idle", "resolve", "done"} => reports[r].number # None
  /\ reports[r].pc = "block" => Earned(reports[r].sig.sender)
  /\ RowIsReport(r)

(* The inductive invariant of BlocksEarned. *)
EarnInv ==
  /\ IsFiniteSet(Active)
  /\ \A r \in Reports : EarnSafe(r)
  /\ \A b \in blocks : Earned(b.target)

(* At most one report arrives in a step. *)
LEMMA ActiveStep ==
  ASSUME TypeInv, [Next]_vars, IsFiniteSet(Active)
  PROVE  IsFiniteSet(Active')
<1>1. PICK s : Active' \subseteq Active \cup {s}
  BY OneActs DEF Active
<1>2. PICK old, new : old = Active /\ new = Active'
  OBVIOUS
<1>3. IsFiniteSet(old \cup {s})
  BY <1>2, FS_AddElement
<1>4. IsFiniteSet(new)
  BY <1>1, <1>2, <1>3, FS_Subset
<1> QED BY <1>2, <1>4

(* A report stays with its sender, and one that failed does not succeed later. *)
LEMMA ReportsOfSenderStay ==
  ASSUME TypeInv, ReportsSafe, [Next]_vars, NEW s
  PROVE  MadeBy(s) \subseteq MadeBy(s)' /\ FailedBy(s) \subseteq FailedBy(s)'
<1>1. ASSUME NEW r \in MadeBy(s) PROVE r \in MadeBy(s)'
  <2>1. r \in Reports /\ reports[r].pc # "idle"
    BY DEF MadeBy, Active
  <2>2. reports'[r].pc # "idle" /\ reports'[r].sig = reports[r].sig
    BY <2>1, ReportStep DEF Acts, Begins, Resolves, Finds, Moves, Verifies, SameData
  <2>3. reports'[r].number = reports[r].number \/ reports'[r].number \in Numbers
    BY <2>1, ReportStep DEF Acts, Begins, Resolves, Holds, Finds, Moves, Verifies, SameData
  <2> QED BY <2>1, <2>2, <2>3, StoreAssumption DEF MadeBy, Active
<1>2. ASSUME NEW r \in FailedBy(s) PROVE r \in FailedBy(s)'
  <2>1. r \in Reports /\ r \in MadeBy(s)'
    BY <1>1 DEF FailedBy, MadeBy, Active
  <2>2. /\ reports'[r].pc \in {"fails", "floods", "block", "record", "done"}
        /\ reports'[r].outcome # "matched"
    BY <2>1, ReportStep
       DEF FailedBy, Acts, Begins, Resolves, Finds, Moves, Verifies
  <2> QED BY <2>1, <2>2 DEF FailedBy
<1> QED BY <1>1, <1>2

(* A larger finite set counts at least as much. *)
LEMMA Larger ==
  ASSUME NEW S, IsFiniteSet(S), NEW T, T \subseteq S
  PROVE  /\ IsFiniteSet(T)
         /\ Cardinality(S) \in Nat /\ Cardinality(T) \in Nat /\ Cardinality(T) <= Cardinality(S)
  BY FS_Subset, FS_CardinalityType

(* What was earned once is earned for ever. *)
LEMMA EarnedStays ==
  ASSUME TypeInv, ReportsSafe, [Next]_vars, IsFiniteSet(Active), NEW s, Earned(s)
  PROVE  Earned(s)'
<1>1. PICK made, failed, made2, failed2, active :
        /\ made = MadeBy(s) /\ failed = FailedBy(s)
        /\ made2 = MadeBy(s)' /\ failed2 = FailedBy(s)' /\ active = Active'
  OBVIOUS
<1>2. made \subseteq made2 /\ failed \subseteq failed2
  BY <1>1, ReportsOfSenderStay
<1>3. IsFiniteSet(active) /\ made2 \subseteq active /\ failed2 \subseteq active
  BY <1>1, ActiveStep DEF MadeBy, FailedBy
<1>4. IsFiniteSet(made2) /\ IsFiniteSet(failed2)
  BY <1>3, Larger
<1>5. /\ Cardinality(made) \in Nat /\ Cardinality(made2) \in Nat
      /\ Cardinality(made) <= Cardinality(made2)
  BY <1>2, <1>4, Larger
<1>6. /\ Cardinality(failed) \in Nat /\ Cardinality(failed2) \in Nat
      /\ Cardinality(failed) <= Cardinality(failed2)
  BY <1>2, <1>4, Larger
<1>7. FailThreshold \in Nat /\ FloodThreshold \in Nat
  BY VerifyAssumption
<1>8. Cardinality(failed) >= FailThreshold \/ Cardinality(made) >= FloodThreshold
  BY <1>1 DEF Earned
<1>9. Cardinality(failed2) >= FailThreshold \/ Cardinality(made2) >= FloodThreshold
  BY <1>5, <1>6, <1>7, <1>8
<1> QED BY <1>1, <1>9 DEF Earned

(* The rows CountInboundBySender counts and the report at hand are so many reports. *)
LEMMA RowsAndOne ==
  ASSUME NEW S, IsFiniteSet(S), NEW rows, rows \subseteq S, NEW r \in S, r \notin rows
  PROVE  Cardinality(rows) \in Nat /\ Cardinality(S) \in Nat /\ Cardinality(rows) + 1 <= Cardinality(S)
<1>1. IsFiniteSet(rows) /\ Cardinality(rows) \in Nat /\ Cardinality(S) \in Nat
  BY Larger
<1>2. Cardinality(rows \cup {r}) = Cardinality(rows) + 1
  BY <1>1, FS_AddElement
<1>3. Cardinality(rows \cup {r}) <= Cardinality(S)
  BY Larger
<1> QED BY <1>1, <1>2, <1>3

(* maybeBlock goes on to CreateBlock only for a sender that earned it. *)
LEMMA CondemnedEarned ==
  ASSUME TypeInv, ReportsSafe, EarnInv, NEW r \in Reports,
         CountFailures(r) \/ CountFlood(r), reports'[r].pc = "block"
  PROVE  Earned(reports[r].sig.sender)
<1>0. PICK s : s = reports[r].sig.sender
  OBVIOUS
<1>1. PICK failures, all, made, failed :
        /\ failures = InboundBySender(s, now - FailWindow, TRUE)
        /\ all = InboundBySender(s, reports[r].failing - FloodWindow, FALSE)
        /\ made = MadeBy(s) /\ failed = FailedBy(s)
  OBVIOUS
<1>2. reports[r].pc \in {"fails", "floods"} /\ reports[r] \in ReportState
  BY DEF CountFailures, CountFlood, TypeInv, TypeOK, VerifyTypeOK
<1>3. reports[r].outcome # "matched"
  BY <1>2 DEF ReportsSafe, ReportSafe
<1>4. r \in failed /\ r \in made
  BY <1>0, <1>1, <1>2, <1>3 DEF EarnInv, EarnSafe, MadeBy, FailedBy, Active
<1>5. failures \subseteq failed /\ r \notin failures
  BY <1>1, <1>2 DEF InboundBySender, EarnInv, EarnSafe, RowIsReport
<1>6. all \subseteq made /\ r \notin all
  BY <1>1, <1>2 DEF InboundBySender, EarnInv, EarnSafe, RowIsReport
<1>7. IsFiniteSet(made) /\ IsFiniteSet(failed)
  BY <1>1, Larger DEF EarnInv, MadeBy, FailedBy
<1>8. /\ Cardinality(failures) \in Nat /\ Cardinality(failed) \in Nat
      /\ Cardinality(failures) + 1 <= Cardinality(failed)
  BY <1>4, <1>5, <1>7, RowsAndOne
<1>9. /\ Cardinality(all) \in Nat /\ Cardinality(made) \in Nat
      /\ Cardinality(all) + 1 <= Cardinality(made)
  BY <1>4, <1>6, <1>7, RowsAndOne
<1>10. FailThreshold \in Nat /\ FloodThreshold \in Nat
  BY VerifyAssumption
<1>11. CASE CountFailures(r)
  <2>1. PICK pc : /\ pc = IF Cardinality(failures) + 1 >= FailThreshold THEN "block" ELSE "floods"
                  /\ reports' = [reports EXCEPT ![r] = [reports[r] EXCEPT !.failing = now, !.pc = pc]]
    BY <1>0, <1>1, <1>11 DEF CountFailures, Advance
  <2>2. reports'[r].pc = pc
    BY <1>2, <2>1 DEF TypeInv, TypeOK, VerifyTypeOK, ReportState
  <2>3. Cardinality(failures) + 1 >= FailThreshold
    BY <2>1, <2>2
  <2>4. Cardinality(failed) >= FailThreshold
    BY <1>8, <1>10, <2>3
  <2> QED BY <1>0, <1>1, <2>4 DEF Earned
<1>12. CASE CountFlood(r)
  <2>1. PICK pc : /\ pc = IF Cardinality(all) + 1 >= FloodThreshold THEN "block" ELSE "record"
                  /\ reports' = [reports EXCEPT ![r] = [reports[r] EXCEPT !.pc = pc]]
    BY <1>0, <1>1, <1>12 DEF CountFlood, Advance
  <2>2. reports'[r].pc = pc
    BY <1>2, <2>1 DEF TypeInv, TypeOK, VerifyTypeOK, ReportState
  <2>3. Cardinality(all) + 1 >= FloodThreshold
    BY <2>1, <2>2
  <2>4. Cardinality(made) >= FloodThreshold
    BY <1>9, <1>10, <2>3
  <2> QED BY <1>0, <1>1, <2>4 DEF Earned
<1> QED BY <1>11, <1>12

(* Only the two counts of maybeBlock lead to CreateBlock. *)
LEMMA CondemnedStep ==
  ASSUME TypeInv, [Next]_vars, NEW r \in Reports, reports'[r].pc = "block"
  PROVE  reports[r].pc = "block" \/ CountFailures(r) \/ CountFlood(r)
<1>0. /\ \A s \in Reports : reports[s] \in ReportState
      /\ \A s \in Reports : \A x : Advance(s, x) /\ x.pc # "block" => reports[r].pc = "block"
  BY DEF Advance, TypeInv, TypeOK, VerifyTypeOK
<1>1. ASSUME NEW s \in Reports, NEW pc, NEW outcome, pc # "block",
             \/ Advance(s, [reports[s] EXCEPT !.pc = pc])
             \/ Advance(s, [reports[s] EXCEPT !.pc = pc, !.outcome = outcome])
      PROVE  reports[r].pc = "block"
  <2>1. /\ [reports[s] EXCEPT !.pc = pc].pc = pc
        /\ [reports[s] EXCEPT !.pc = pc, !.outcome = outcome].pc = pc
    BY <1>0 DEF ReportState
  <2> QED BY <1>0, <1>1, <2>1
<1>2. ASSUME NEW s \in Reports, Receive(s) PROVE reports[r].pc = "block"
  <2>1. PICK sig : \/ Advance(s, [reports[s] EXCEPT !.pc = "resolve", !.sig = sig])
                   \/ Advance(s, [reports[s] EXCEPT !.pc = "done", !.sig = sig,
                                                    !.outcome = "invalid"])
    BY <1>2 DEF Receive
  <2>2. /\ [reports[s] EXCEPT !.pc = "resolve", !.sig = sig].pc = "resolve"
        /\ [reports[s] EXCEPT !.pc = "done", !.sig = sig, !.outcome = "invalid"].pc = "done"
    BY <1>0 DEF ReportState
  <2> QED BY <1>0, <2>1, <2>2
<1>3. ASSUME NEW s \in Reports, Resolve(s) PROVE reports[r].pc = "block"
  <2>1. ASSUME NEW n, Advance(s, [reports[s] EXCEPT !.pc = "gate", !.number = n])
        PROVE  reports[r].pc = "block"
    <3>1. [reports[s] EXCEPT !.pc = "gate", !.number = n].pc = "gate"
      BY <1>0 DEF ReportState
    <3> QED BY <1>0, <2>1, <3>1
  <2> QED BY <1>1, <1>3, <2>1 DEF Resolve, Refuse
<1>4. ASSUME NEW s \in Reports, Match(s) PROVE reports[r].pc = "block"
  <2>1. ASSUME NEW c, NEW pc \in {"verify", "attempt"},
               Advance(s, [reports[s] EXCEPT !.session = c, !.found = now, !.pc = pc])
        PROVE  reports[r].pc = "block"
    <3>1. [reports[s] EXCEPT !.session = c, !.found = now, !.pc = pc].pc = pc
      BY <1>0 DEF ReportState
    <3> QED BY <1>0, <2>1, <3>1
  <2> QED BY <1>1, <1>4, <2>1 DEF Match
<1>5. ASSUME NEW s \in Reports, Gate(s) \/ ClaimMismatch(s) \/ Notify(s) \/ CreateBlock(s)
                                \/ RecordEvent(s)
      PROVE  reports[r].pc = "block"
  BY <1>1, <1>5 DEF Gate, ClaimMismatch, Notify, CreateBlock, RecordEvent, Return
<1>6. ASSUME NEW s \in Reports, VerifyMatched(s) PROVE reports[r].pc = "block"
  <2>1. [reports[s] EXCEPT !.pc = "notify", !.outcome = "matched", !.won = TRUE].pc = "notify"
    BY <1>0 DEF ReportState
  <2> QED BY <1>0, <1>1, <1>6, <2>1 DEF VerifyMatched, Return
<1>7. ASSUME NEW s \in Reports, ReportFault(s) PROVE reports[r].pc = "block"
  <2>1. ASSUME NEW pc, NEW outcome, NEW t, pc # "block",
               Advance(s, [reports[s] EXCEPT !.pc = pc, !.outcome = outcome, !.failing = t])
        PROVE  reports[r].pc = "block"
    <3>1. [reports[s] EXCEPT !.pc = pc, !.outcome = outcome, !.failing = t].pc = pc
      BY <1>0 DEF ReportState
    <3> QED BY <1>0, <2>1, <3>1
  <2>2. ASSUME reports[s].pc \in DOMAIN AfterError,
               Advance(s, [reports[s] EXCEPT
                             !.pc = AfterError[@],
                             !.outcome = OutcomeOfError(reports[s]),
                             !.failing = IF reports[s].pc = "fails" THEN now ELSE @])
        PROVE  reports[r].pc = "block"
    <3>1. PICK pc : pc = AfterError[reports[s].pc] /\ pc # "block"
      BY <2>2 DEF AfterError
    <3>2. PICK outcome : outcome = OutcomeOfError(reports[s])
      OBVIOUS
    <3>3. PICK t : t = IF reports[s].pc = "fails" THEN now ELSE reports[s].failing
      OBVIOUS
    <3> QED BY <2>1, <2>2, <3>1, <3>2, <3>3
  <2>3. ASSUME NEW won,
               Advance(s, [reports[s] EXCEPT !.pc = "record", !.outcome = "error", !.won = won])
        PROVE  reports[r].pc = "block"
    <3>1. [reports[s] EXCEPT !.pc = "record", !.outcome = "error", !.won = won].pc = "record"
      BY <1>0 DEF ReportState
    <3> QED BY <1>0, <2>3, <3>1
  <2> QED BY <1>1, <1>7, <2>2, <2>3 DEF ReportFault, Refuse
<1>8. ASSUME NEW s \in Reports, s # r, CountFailures(s) \/ CountFlood(s)
      PROVE  reports[r].pc = "block"
  BY <1>8 DEF CountFailures, CountFlood, Advance, TypeInv, TypeOK, VerifyTypeOK
<1>9. ASSUME UNCHANGED reports PROVE reports[r].pc = "block"
  BY <1>9
<1>10. ASSUME NEW c \in Calls, BeginStart(c) \/ StartStep(c) \/ StartFault(c)
       PROVE  UNCHANGED reports
  BY <1>10 DEF BeginStart, StartStep, StartPickNumber, StartCreateSession, StartNoNumber, StartFault
<1>11. CASE Tick \/ Provision \/ RemoveDevice \/ Sweep \/ Prune \/ UNCHANGED vars
  BY <1>9, <1>11 DEF Tick, Provision, RemoveDevice, Sweep, Prune, vars, verifyVars
<1> QED BY <1>2, <1>3, <1>4, <1>5, <1>6, <1>7, <1>8, <1>9, <1>10, <1>11
        DEF Next, VerifyNext, InboundStep

(* CreateBlock alone writes a block: of the sender of its report. *)
LEMMA BlocksStep ==
  ASSUME TypeInv, [Next]_vars
  PROVE  \/ UNCHANGED blocks
         \/ \E r \in Reports : /\ reports[r].pc = "block"
                               /\ \A b \in blocks' \ blocks : b.target = reports[r].sig.sender
<1>1. ASSUME NEW r \in Reports, CreateBlock(r)
      PROVE  /\ reports[r].pc = "block"
             /\ \A b \in blocks' \ blocks : b.target = reports[r].sig.sender
  BY <1>1 DEF CreateBlock, InsertBlock
<1>2. ASSUME NEW r \in Reports, \/ Receive(r) \/ Resolve(r) \/ Gate(r) \/ Match(r)
                                \/ ClaimMismatch(r) \/ VerifyMatched(r) \/ CountFailures(r)
                                \/ CountFlood(r) \/ Notify(r) \/ RecordEvent(r)
                                \/ ReportFault(r)
      PROVE  UNCHANGED blocks
  BY <1>2 DEF Receive, Resolve, Gate, Match, ClaimMismatch, VerifyMatched, CountFailures,
              CountFlood, Notify, RecordEvent, ReportFault, storeVars
<1>3. ASSUME NEW c \in Calls, BeginStart(c) \/ StartStep(c) \/ StartFault(c)
      PROVE  UNCHANGED blocks
  BY <1>3 DEF BeginStart, StartStep, StartPickNumber, StartCreateSession, StartNoNumber,
              StartFault, storeVars
<1>4. CASE Tick \/ Provision \/ RemoveDevice \/ Sweep \/ Prune \/ UNCHANGED vars
  BY <1>4 DEF Tick, Provision, RemoveDevice, Sweep, Prune, vars, storeVars, CreateDevice,
              SetHeartbeat, CreateNumber, DeleteDevice, ExpireDue, DeleteInboundEventsBefore
<1> QED BY <1>1, <1>2, <1>3, <1>4 DEF Next, VerifyNext, InboundStep

(* The deferred CreateInboundEvent writes a row that stands for its report, and no row comes to say
   something else. *)
LEMMA RowsStand ==
  ASSUME TypeInv, ReportsSafe, EarnInv, [Next]_vars, NEW r \in Reports
  PROVE  RowIsReport(r)'
<1> SUFFICES ASSUME events'[r].recorded, NEW s, s = events'[r].sender
             PROVE  /\ reports'[r].pc = "done" /\ r \in MadeBy(s)'
                    /\ events'[r].matched = None => r \in FailedBy(s)'
  BY DEF RowIsReport
<1>1. CASE EventKept(r)
  <2>1. /\ events[r].recorded /\ events[r].sender = s /\ events'[r].matched = events[r].matched
    BY <1>1 DEF EventKept
  <2>2. /\ reports[r].pc = "done" /\ r \in MadeBy(s)
        /\ events[r].matched = None => r \in FailedBy(s)
    BY <2>1 DEF EarnInv, EarnSafe, RowIsReport
  <2>3. reports'[r] = reports[r]
    BY <2>2, ReportStep DEF Acts, Begins, Resolves, Finds, Moves, Verifies
  <2> QED BY <2>1, <2>2, <2>3 DEF MadeBy, FailedBy, Active
<1>2. CASE Records(r)
  <2>1. /\ reports[r].pc = "record" /\ reports'[r].pc = "done"
        /\ reports'[r].sig = reports[r].sig /\ reports'[r].number = reports[r].number
        /\ s = reports[r].sig.sender
        /\ events'[r].matched = IF reports[r].outcome = "matched" THEN reports[r].session ELSE None
    BY <1>2 DEF Records, SameData, AuditRow
  <2>2. reports[r].number # None
    BY <2>1 DEF EarnInv, EarnSafe
  <2>3. r \in MadeBy(s)'
    BY <2>1, <2>2 DEF MadeBy, Active
  <2>4. ASSUME events'[r].matched = None PROVE reports'[r].outcome # "matched"
    <3>1. reports[r].outcome # "matched"
      BY <2>1, <2>4, StoreAssumption DEF ReportsSafe, ReportSafe
    <3> QED BY <2>1, <3>1, ReportStep DEF Acts, Begins, Resolves, Finds, Moves, Verifies
  <2> QED BY <2>1, <2>3, <2>4 DEF FailedBy
<1> QED BY <1>1, <1>2, EventStep

(* Every step keeps EarnInv. *)
LEMMA NextEarn ==
  ASSUME TypeInv, ReportsSafe, EarnInv, [Next]_vars
  PROVE  EarnInv'
<1>1. IsFiniteSet(Active')
  BY ActiveStep DEF EarnInv
<1>2. ASSUME NEW s, Earned(s) PROVE Earned(s)'
  BY <1>2, EarnedStays DEF EarnInv
<1>3. ASSUME NEW r \in Reports PROVE EarnSafe(r)'
  <2>1. ASSUME reports'[r].pc \notin {"idle", "resolve", "done"} PROVE reports'[r].number # None
    BY <2>1, ReportStep, StoreAssumption
       DEF EarnInv, EarnSafe, Acts, Begins, Resolves, Holds, Finds, Moves, Verifies, SameData
  <2>2. ASSUME reports'[r].pc = "block" PROVE Earned(reports[r].sig.sender)'
    <3>1. Earned(reports[r].sig.sender)
      BY <2>2, CondemnedStep, CondemnedEarned DEF EarnInv, EarnSafe
    <3>2. reports'[r].sig = reports[r].sig
      BY <2>2, ReportStep DEF Acts, Begins, Resolves, Finds, Moves, Verifies, SameData
    <3>3. PICK s : s = reports[r].sig.sender
      OBVIOUS
    <3>4. Earned(s)'
      BY <1>2, <3>1, <3>3
    <3> QED BY <3>2, <3>3, <3>4
  <2> QED BY <2>1, <2>2, RowsStand DEF EarnSafe
<1>4. ASSUME NEW b \in blocks' PROVE Earned(b.target)'
  <2>1. CASE b \in blocks
    BY <1>2, <2>1 DEF EarnInv
  <2>2. CASE b \notin blocks
    <3>1. PICK r \in Reports : reports[r].pc = "block" /\ b.target = reports[r].sig.sender
      BY <1>4, <2>2, BlocksStep
    <3>2. Earned(b.target)
      BY <3>1 DEF EarnInv, EarnSafe
    <3> QED BY <1>2, <3>2
  <2> QED BY <2>1, <2>2
<1> QED BY <1>1, <1>3, <1>4 DEF EarnInv

(* Nobody is blocked who did not earn it, whatever reports race their own audit rows, and whichever
   rows retention or a removed device takes away (service.go maybeBlock). *)
THEOREM BlocksAreEarned == Spec => []BlocksEarned
<1>1. Init => EarnInv
  <2> SUFFICES ASSUME Init PROVE EarnInv
    OBVIOUS
  <2>1. Active = {} /\ blocks = {}
    BY DEF Init, StoreInit, VerifyInit, Active
  <2>2. \A r \in Reports : EarnSafe(r)
    BY DEF Init, StoreInit, VerifyInit, NoEvent, EarnSafe, RowIsReport
  <2> QED BY <2>1, <2>2, FS_EmptySet DEF EarnInv
<1>2. TypeInv /\ UseInv /\ EarnInv /\ [Next]_vars => EarnInv'
  BY NextEarn DEF UseInv
<1>3. EarnInv => BlocksEarned
  <2> SUFFICES ASSUME EarnInv, NEW b \in blocks
               PROVE  LET made == {r \in Reports : /\ reports[r].pc # "idle"
                                                   /\ reports[r].sig.sender = b.target
                                                   /\ reports[r].number # None}
                      IN \/ Cardinality({r \in made : reports[r].outcome # "matched"})
                              >= FailThreshold
                         \/ Cardinality(made) >= FloodThreshold
    BY DEF BlocksEarned
  <2>1. PICK s : s = b.target
    OBVIOUS
  <2>2. PICK made, failed, counted :
          /\ made = MadeBy(s) /\ counted = FailedBy(s)
          /\ failed = {r \in made : reports[r].outcome # "matched"}
    OBVIOUS
  <2>3. IsFiniteSet(made)
    BY <2>2, Larger DEF EarnInv, MadeBy
  <2>4. IsFiniteSet(failed) /\ counted \subseteq failed
    BY <2>2, <2>3, Larger DEF FailedBy
  <2>5. /\ Cardinality(failed) \in Nat /\ Cardinality(counted) \in Nat
        /\ Cardinality(counted) <= Cardinality(failed)
    BY <2>4, Larger
  <2>6. Cardinality(counted) >= FailThreshold \/ Cardinality(made) >= FloodThreshold
    BY <2>1, <2>2 DEF EarnInv, Earned
  <2>7. FailThreshold \in Nat
    BY VerifyAssumption
  <2>8. Cardinality(failed) >= FailThreshold \/ Cardinality(made) >= FloodThreshold
    BY <2>5, <2>6, <2>7
  <2>9. made = {r \in Reports : /\ reports[r].pc # "idle" /\ reports[r].sig.sender = b.target
                                /\ reports[r].number # None}
    BY <2>1, <2>2 DEF MadeBy, Active
  <2> QED BY <2>2, <2>8, <2>9
<1> QED BY <1>1, <1>2, <1>3, TypeInvariant, UseInvariant, PTL DEF Spec
=============================================================================
