------------------------- MODULE CoordinatorProofs -------------------------
(***************************************************************************)
(* Proofs about Coordinator, for every value of its constants: any fleet,  *)
(* any number of concurrent calls and reports, either backend, with or     *)
(* without faults.                                                         *)
(*                                                                         *)
(* TypeOK alone is not inductive: that a row fits its columns depends on   *)
(* what a handler carries from one statement to the next.  TypeInv adds    *)
(* that: CallOK for Start, ReportOK for Inbound.                           *)
(***************************************************************************)
EXTENDS Coordinator, TLAPS

(* What a call of Start holds between two statements. *)
CallOK(c) ==
  /\ calls[c].pc \in {"pick", "create", "count"} =>
       calls[c].req \in Requests /\ ValidRequest(calls[c].req)
  /\ calls[c].pc = "create" => calls[c].number \in Numbers
  /\ calls[c].pc \in {"idle", "pick", "create"} => calls[c].attempt < MaxAttempts

(* What a call of Inbound holds between two statements. *)
ReportOK(r) ==
  /\ reports[r].pc # "idle" => reports[r].sig \in Signals
  /\ reports[r].pc \in {"attempt", "verify", "notify"} => reports[r].session \in Calls

CallsOK == \A c \in Calls : CallOK(c)
ReportsOK == \A r \in Reports : ReportOK(r)
TypeInv == TypeOK /\ CallsOK /\ ReportsOK

(* The coordinator starts in a state of the right types (NewService on a provisioned store). *)
LEMMA InitType == Init => TypeInv
<1> SUFFICES ASSUME Init PROVE TypeInv
  OBVIOUS
<1> USE StoreAssumption, VerifyAssumption DEF Init, StoreInit, VerifyInit
<1>1. StoreTypeOK
  BY DEF StoreTypeOK, NoSession, NoEvent, SessionRow, EventRow, Channels, VoiceChannels, Bindings
<1>2. VerifyTypeOK
  BY DEF VerifyTypeOK, CallState, ReportState
<1>3. CallsOK /\ ReportsOK
  BY DEF CallsOK, ReportsOK, CallOK, ReportOK
<1> QED BY <1>1, <1>2, <1>3 DEF TypeInv, TypeOK

(* A step of a call of Start that leaves the database alone keeps the types when
   the call's new state has them. *)
LEMMA ProceedType ==
  ASSUME TypeInv, NEW c \in Calls, NEW x \in CallState, Proceed(c, x),
         x.pc \in {"pick", "create", "count"} => x.req \in Requests /\ ValidRequest(x.req),
         x.pc = "create" => x.number \in Numbers,
         x.pc \in {"idle", "pick", "create"} => x.attempt < MaxAttempts,
         StoreTypeOK', UNCHANGED <<reports, notified>>
  PROVE  TypeInv'
<1>1. VerifyTypeOK'
  BY DEF TypeInv, TypeOK, VerifyTypeOK, Proceed
<1>2. CallsOK'
  <2> SUFFICES ASSUME NEW d \in Calls PROVE CallOK(d)'
    BY DEF CallsOK
  <2>1. CASE d = c
    BY <2>1 DEF TypeInv, TypeOK, VerifyTypeOK, Proceed, CallOK, ValidRequest
  <2>2. CASE d # c
    BY <2>2 DEF TypeInv, TypeOK, VerifyTypeOK, CallsOK, Proceed, CallOK, ValidRequest
  <2> QED BY <2>1, <2>2
<1>3. ReportsOK'
  BY DEF TypeInv, ReportsOK, ReportOK
<1> QED BY <1>1, <1>2, <1>3 DEF TypeInv, TypeOK

(* The same for a call of Inbound, which may also change the tables and tell the
   application: the types are kept when those changes keep them. *)
LEMMA AdvanceType ==
  ASSUME TypeInv, NEW r \in Reports, NEW x \in ReportState, Advance(r, x),
         x.pc # "idle" => x.sig \in Signals,
         x.pc \in {"attempt", "verify", "notify"} => x.session \in Calls,
         StoreTypeOK', notified' \in [Calls -> Nat], UNCHANGED calls
  PROVE  TypeInv'
<1>1. VerifyTypeOK'
  BY DEF TypeInv, TypeOK, VerifyTypeOK, Advance
<1>2. ReportsOK'
  <2> SUFFICES ASSUME NEW s \in Reports PROVE ReportOK(s)'
    BY DEF ReportsOK
  <2>1. CASE s = r
    BY <2>1 DEF TypeInv, TypeOK, VerifyTypeOK, Advance, ReportOK
  <2>2. CASE s # r
    BY <2>2 DEF TypeInv, TypeOK, VerifyTypeOK, ReportsOK, Advance, ReportOK
  <2> QED BY <2>1, <2>2
<1>3. CallsOK'
  BY DEF TypeInv, CallsOK, CallOK
<1> QED BY <1>1, <1>2, <1>3 DEF TypeInv, TypeOK

(* Validation in Service.Start: a call goes on to its first attempt with a valid request only. *)
LEMMA BeginStartType ==
  ASSUME TypeInv, NEW c \in Calls, BeginStart(c)
  PROVE  TypeInv'
<1>1. StoreTypeOK' /\ now + TTL \in Nat /\ calls[c] \in CallState
  BY VerifyAssumption DEF TypeInv, TypeOK, StoreTypeOK, VerifyTypeOK, storeVars, BeginStart
<1>2. UNCHANGED <<reports, notified>>
  BY DEF BeginStart
<1>3. PICK req \in Requests :
        \/ /\ ValidRequest(req)
           /\ Proceed(c, [calls[c] EXCEPT !.pc = "pick", !.req = req, !.expires = now + TTL])
        \/ /\ ~ValidRequest(req)
           /\ Proceed(c, [calls[c] EXCEPT !.pc = "done", !.req = req, !.result = "invalid"])
  BY DEF BeginStart
<1>4. CASE ValidRequest(req)
  <2> DEFINE x == [calls[c] EXCEPT !.pc = "pick", !.req = req, !.expires = now + TTL]
  <2>1. x \in CallState /\ x.pc = "pick" /\ x.req = req /\ x.attempt = calls[c].attempt
    BY <1>1 DEF CallState
  <2>2. calls[c].attempt < MaxAttempts
    BY DEF TypeInv, CallsOK, CallOK, BeginStart
  <2> HIDE DEF x
  <2> QED BY <1>1, <1>2, <1>3, <1>4, <2>1, <2>2, ProceedType DEF x
<1>5. CASE ~ValidRequest(req)
  <2> DEFINE x == [calls[c] EXCEPT !.pc = "done", !.req = req, !.result = "invalid"]
  <2>1. x \in CallState /\ x.pc = "done"
    BY <1>1 DEF CallState
  <2> HIDE DEF x
  <2> QED BY <1>1, <1>2, <1>3, <1>5, <2>1, ProceedType DEF x
<1> QED BY <1>4, <1>5

(* PickNumber hands a call an existing number, or sends it to noNumberErr. *)
LEMMA StartPickNumberType ==
  ASSUME TypeInv, NEW c \in Calls, StartPickNumber(c)
  PROVE  TypeInv'
<1>1. StoreTypeOK' /\ UNCHANGED <<reports, notified>> /\ calls[c] \in CallState /\ CallOK(c)
  BY DEF TypeInv, TypeOK, StoreTypeOK, VerifyTypeOK, storeVars, StartPickNumber, CallsOK
<1>2. /\ calls[c].req \in Requests /\ ValidRequest(calls[c].req)
      /\ calls[c].attempt < MaxAttempts
  BY <1>1 DEF StartPickNumber, CallOK
<1>3. ASSUME NEW n \in Numbers, Proceed(c, [calls[c] EXCEPT !.pc = "create", !.number = n])
      PROVE  TypeInv'
  <2> DEFINE x == [calls[c] EXCEPT !.pc = "create", !.number = n]
  <2>1. /\ x \in CallState /\ x.number = n
        /\ x.req = calls[c].req /\ x.attempt = calls[c].attempt
    BY <1>1 DEF CallState
  <2> HIDE DEF x
  <2> QED BY <1>1, <1>2, <1>3, <2>1, ProceedType DEF x
<1>4. ASSUME Proceed(c, [calls[c] EXCEPT !.pc = "count"])
      PROVE  TypeInv'
  <2> DEFINE x == [calls[c] EXCEPT !.pc = "count"]
  <2>1. x \in CallState /\ x.pc = "count" /\ x.req = calls[c].req
    BY <1>1 DEF CallState
  <2> HIDE DEF x
  <2> QED BY <1>1, <1>2, <1>4, <2>1, ProceedType DEF x
<1> QED BY <1>3, <1>4 DEF StartPickNumber, PickNumber, Pickable, Available

(* A call that is done satisfies CallOK whatever its other fields. *)
LEMMA DoneType ==
  ASSUME TypeInv, NEW c \in Calls, StoreTypeOK', UNCHANGED <<reports, notified>>,
         NEW result \in {"created", "busy", "no_capacity", "invalid", "error"},
         Proceed(c, [calls[c] EXCEPT !.pc = "done", !.result = result])
  PROVE  TypeInv'
<1> DEFINE x == [calls[c] EXCEPT !.pc = "done", !.result = result]
<1>1. x \in CallState /\ x.pc = "done"
  BY DEF TypeInv, TypeOK, VerifyTypeOK, CallState
<1> HIDE DEF x
<1> QED BY <1>1, ProceedType DEF x

(* noNumberErr answers the call and ends it. *)
LEMMA StartNoNumberType ==
  ASSUME TypeInv, NEW c \in Calls, StartNoNumber(c)
  PROVE  TypeInv'
<1>1. StoreTypeOK'
  BY DEF TypeInv, TypeOK, StoreTypeOK, storeVars, StartNoNumber
<1> QED BY <1>1, DoneType DEF StartNoNumber

(* The row a call is about to insert fits the columns of the sessions table and names a number. *)
LEMMA CandidateType ==
  ASSUME TypeInv, NEW c \in Calls, calls[c].pc = "create", NEW code \in GeneratedCodes(c)
  PROVE  /\ Candidate(c, code) \in SessionRow
         /\ Candidate(c, code).status = "pending"
         /\ Candidate(c, code).number \in Numbers
<1>1. /\ calls[c] \in CallState /\ calls[c].req \in Requests /\ ValidRequest(calls[c].req)
      /\ calls[c].number \in Numbers
  BY DEF TypeInv, TypeOK, VerifyTypeOK, CallsOK, CallOK
<1>2. /\ calls[c].req.channel \in Channels /\ calls[c].req.binding \in Bindings
      /\ calls[c].req.claimed \in Senders \cup {None} /\ calls[c].expires \in Nat
  BY <1>1, VerifyAssumption DEF CallState, ValidRequest
<1>3. code \in Codes \cup {None}
  BY DEF GeneratedCodes
<1> QED BY <1>1, <1>2, <1>3 DEF Candidate, SessionRow

(* The INSERT of CreateSession keeps the types of the tables. *)
LEMMA InsertSessionType ==
  ASSUME TypeInv, NEW c \in Calls, NEW row \in SessionRow, InsertSession(c, row),
         UNCHANGED <<now, devices, numbers, events, blocks>>
  PROVE  StoreTypeOK'
  BY DEF TypeInv, TypeOK, StoreTypeOK, InsertSession

(* CreateSession and the retry loop around it: at most MaxAttempts attempts are ever counted. *)
LEMMA StartCreateSessionType ==
  ASSUME TypeInv, NEW c \in Calls, StartCreateSession(c)
  PROVE  TypeInv'
<1> USE DEF StartCreateSession
<1>1. /\ UNCHANGED <<now, devices, numbers, events, blocks>>
      /\ UNCHANGED <<reports, notified>> /\ calls[c].pc = "create"
      /\ calls[c] \in CallState
  BY DEF TypeInv, TypeOK, VerifyTypeOK
<1>2. /\ calls[c].req \in Requests /\ ValidRequest(calls[c].req)
      /\ calls[c].attempt < MaxAttempts
  BY <1>1 DEF TypeInv, CallsOK, CallOK
<1>3. ASSUME UNCHANGED sessions PROVE StoreTypeOK'
  BY <1>1, <1>3 DEF TypeInv, TypeOK, StoreTypeOK
<1>4. ASSUME Retry(c), UNCHANGED sessions
      PROVE  TypeInv'
  <2> DEFINE x == [calls[c] EXCEPT
                     !.attempt = @ + 1, !.number = None,
                     !.pc = IF calls[c].attempt + 1 = MaxAttempts THEN "count" ELSE "pick"]
  <2> DEFINE next == IF calls[c].attempt + 1 = MaxAttempts THEN "count" ELSE "pick"
  <2>0. calls[c].attempt + 1 \in 0..MaxAttempts /\ next \in {"count", "pick"}
    BY <1>1, <1>2, VerifyAssumption DEF CallState
  <2>1. /\ x \in CallState /\ x.attempt = calls[c].attempt + 1 /\ x.req = calls[c].req
        /\ x.pc = IF calls[c].attempt + 1 = MaxAttempts THEN "count" ELSE "pick"
    BY <1>1, <2>0 DEF CallState
  <2>2. x.pc \in {"idle", "pick", "create"} => x.attempt < MaxAttempts
    BY <1>1, <1>2, <2>1, VerifyAssumption DEF CallState
  <2>3. Proceed(c, x)
    BY <1>4 DEF Retry
  <2> HIDE DEF x
  <2>4. x.pc # "create"
    BY <2>1
  <2> QED BY <1>1, <1>2, <1>3, <1>4, <2>1, <2>2, <2>3, <2>4, ProceedType
<1>5. ASSUME NEW code \in GeneratedCodes(c), InsertSession(c, Candidate(c, code))
      PROVE  StoreTypeOK'
  BY <1>1, <1>5, CandidateType, InsertSessionType
<1> QED BY <1>1, <1>3, <1>4, <1>5, DoneType

(* A failing or interrupted statement of Start leaves well-typed tables and an answered call. *)
LEMMA StartFaultType ==
  ASSUME TypeInv, NEW c \in Calls, StartFault(c)
  PROVE  TypeInv'
<1> USE DEF StartFault
<1>1. UNCHANGED <<now, devices, numbers, events, blocks>> /\ UNCHANGED <<reports, notified>>
  OBVIOUS
<1>2. StoreTypeOK'
  <2>1. CASE UNCHANGED sessions
    BY <1>1, <2>1 DEF TypeInv, TypeOK, StoreTypeOK
  <2>2. ASSUME calls[c].pc = "create",
               NEW code \in GeneratedCodes(c), InsertSession(c, Candidate(c, code))
        PROVE  StoreTypeOK'
    BY <1>1, <2>2, CandidateType, InsertSessionType
  <2> QED BY <2>1, <2>2
<1> QED BY <1>1, <1>2, DoneType

(* deviceapi.Inbound hands a decoded signal to Service.Inbound, or refuses its type. *)
LEMMA ReceiveType ==
  ASSUME TypeInv, NEW r \in Reports, Receive(r)
  PROVE  TypeInv'
<1>1. /\ StoreTypeOK' /\ UNCHANGED calls /\ notified' \in [Calls -> Nat]
      /\ reports[r] \in ReportState
  BY DEF TypeInv, TypeOK, StoreTypeOK, VerifyTypeOK, storeVars, Receive
<1>2. ASSUME NEW sig \in Signals, Advance(r, [reports[r] EXCEPT !.pc = "resolve", !.sig = sig])
      PROVE  TypeInv'
  <2> DEFINE x == [reports[r] EXCEPT !.pc = "resolve", !.sig = sig]
  <2>1. x \in ReportState /\ x.pc = "resolve" /\ x.sig = sig
    BY <1>1 DEF ReportState
  <2> HIDE DEF x
  <2> QED BY <1>1, <1>2, <2>1, AdvanceType DEF x
<1>3. ASSUME NEW sig \in Signals,
             Advance(r, [reports[r] EXCEPT !.pc = "done", !.sig = sig, !.outcome = "invalid"])
      PROVE  TypeInv'
  <2> DEFINE x == [reports[r] EXCEPT !.pc = "done", !.sig = sig, !.outcome = "invalid"]
  <2>1. x \in ReportState /\ x.pc = "done" /\ x.sig = sig
    BY <1>1 DEF ReportState
  <2> HIDE DEF x
  <2> QED BY <1>1, <1>3, <2>1, AdvanceType DEF x
<1> QED BY <1>2, <1>3 DEF Receive

Outcomes ==
  {"none", "invalid", "unknown_number", "forbidden", "blocked", "rate_limited",
   "no_match", "claim_mismatch", "matched", "already_resolved", "error", "lost"}

(* A step of a report under way that keeps its signal, and leads to no step that
   needs a session it has not got, keeps the types. *)
LEMMA MoveType ==
  ASSUME TypeInv, NEW r \in Reports, reports[r].pc # "idle",
         NEW x \in ReportState, x.sig = reports[r].sig, Advance(r, x),
         x.pc \in {"attempt", "verify", "notify"} => x.session \in Calls,
         StoreTypeOK', UNCHANGED <<calls, notified>>
  PROVE  TypeInv'
<1>1. notified' \in [Calls -> Nat] /\ reports[r].sig \in Signals
  BY DEF TypeInv, TypeOK, VerifyTypeOK, ReportsOK, ReportOK
<1> QED BY <1>1, AdvanceType

(* A handler of Inbound that returns, with or without an audit row to write. *)
LEMMA LeaveType ==
  ASSUME TypeInv, NEW r \in Reports, reports[r].pc # "idle",
         NEW outcome \in Outcomes, Refuse(r, outcome) \/ Return(r, outcome),
         StoreTypeOK', UNCHANGED <<calls, notified>>
  PROVE  TypeInv'
<1>1. reports[r] \in ReportState
  BY DEF TypeInv, TypeOK, VerifyTypeOK
<1>2. CASE Refuse(r, outcome)
  <2> DEFINE x == [reports[r] EXCEPT !.pc = "done", !.outcome = outcome]
  <2>1. x \in ReportState /\ x.pc = "done" /\ x.sig = reports[r].sig
    BY <1>1 DEF ReportState, Outcomes
  <2>2. Advance(r, x)
    BY <1>2 DEF Refuse
  <2> HIDE DEF x
  <2> QED BY <2>1, <2>2, MoveType
<1>3. CASE Return(r, outcome)
  <2> DEFINE x == [reports[r] EXCEPT !.pc = "record", !.outcome = outcome]
  <2>1. x \in ReportState /\ x.pc = "record" /\ x.sig = reports[r].sig
    BY <1>1 DEF ReportState, Outcomes
  <2>2. Advance(r, x)
    BY <1>3 DEF Return
  <2> HIDE DEF x
  <2> QED BY <2>1, <2>2, MoveType
<1> QED BY <1>2, <1>3

(* A step of Inbound that changes nothing but where the handler stands. *)
LEMMA GoType ==
  ASSUME TypeInv, NEW r \in Reports, reports[r].pc # "idle",
         NEW pc \in {"gate", "match", "fails", "floods", "block", "record", "done"},
         Advance(r, [reports[r] EXCEPT !.pc = pc]),
         StoreTypeOK', UNCHANGED <<calls, notified>>
  PROVE  TypeInv'
<1> DEFINE x == [reports[r] EXCEPT !.pc = pc]
<1>1. x \in ReportState /\ x.pc = pc /\ x.sig = reports[r].sig
  BY DEF TypeInv, TypeOK, VerifyTypeOK, ReportState
<1> HIDE DEF x
<1> QED BY <1>1, MoveType DEF x

(* GetNumberByMSISDN and the ownership check of Service.Inbound. *)
LEMMA ResolveType ==
  ASSUME TypeInv, NEW r \in Reports, Resolve(r)
  PROVE  TypeInv'
<1>1. /\ StoreTypeOK' /\ UNCHANGED <<calls, notified>> /\ reports[r].pc # "idle"
      /\ reports[r] \in ReportState
  BY DEF TypeInv, TypeOK, StoreTypeOK, VerifyTypeOK, storeVars, Resolve
<1>2. ASSUME NEW n \in Numbers, Advance(r, [reports[r] EXCEPT !.pc = "gate", !.number = n])
      PROVE  TypeInv'
  <2> DEFINE x == [reports[r] EXCEPT !.pc = "gate", !.number = n]
  <2>1. x \in ReportState /\ x.pc = "gate" /\ x.sig = reports[r].sig
    BY <1>1 DEF ReportState
  <2> HIDE DEF x
  <2> QED BY <1>1, <1>2, <2>1, MoveType DEF x
<1> QED BY <1>1, <1>2, LeaveType DEF Resolve, NumberByLine, Outcomes

(* IsBlocked and the rate limiter of Service.Inbound. *)
LEMMA GateType ==
  ASSUME TypeInv, NEW r \in Reports, Gate(r)
  PROVE  TypeInv'
<1>1. StoreTypeOK' /\ UNCHANGED <<calls, notified>> /\ reports[r].pc # "idle"
  BY DEF TypeInv, TypeOK, StoreTypeOK, storeVars, Gate
<1> QED BY <1>1, LeaveType, GoType DEF Gate, Outcomes

(* matchSession answers with sessions of the store only. *)
LEMMA MatchSessionType ==
  ASSUME NEW n, NEW sig, NEW c \in MatchSession(n, sig)
  PROVE  c \in Calls
  BY DEF MatchSession, FindPendingByCode, FindPendingMissedCall, PendingOn

(* matchSession in Service.Inbound: a report that goes on to a session names one. *)
LEMMA MatchType ==
  ASSUME TypeInv, NEW r \in Reports, Match(r)
  PROVE  TypeInv'
<1>1. /\ StoreTypeOK' /\ UNCHANGED <<calls, notified>> /\ reports[r].pc # "idle"
      /\ reports[r] \in ReportState /\ now \in Nat
  BY DEF TypeInv, TypeOK, StoreTypeOK, VerifyTypeOK, storeVars, Match
<1>2. ASSUME Advance(r, [reports[r] EXCEPT !.pc = "fails", !.outcome = "no_match"])
      PROVE  TypeInv'
  <2> DEFINE x == [reports[r] EXCEPT !.pc = "fails", !.outcome = "no_match"]
  <2>1. x \in ReportState /\ x.pc = "fails" /\ x.sig = reports[r].sig
    BY <1>1 DEF ReportState
  <2> HIDE DEF x
  <2> QED BY <1>1, <1>2, <2>1, MoveType DEF x
<1>3. ASSUME NEW c \in Calls, NEW pc \in {"verify", "attempt"},
             Advance(r, [reports[r] EXCEPT !.session = c, !.found = now, !.pc = pc])
      PROVE  TypeInv'
  <2> DEFINE x == [reports[r] EXCEPT !.session = c, !.found = now, !.pc = pc]
  <2>1. x \in ReportState /\ x.session = c /\ x.sig = reports[r].sig
    BY <1>1 DEF ReportState
  <2> HIDE DEF x
  <2> QED BY <1>1, <1>3, <2>1, MoveType DEF x
<1> QED BY <1>2, <1>3, MatchSessionType DEF Match

(* The rows of the sessions table fit its columns. *)
LEMMA SessionRowType ==
  ASSUME TypeInv, NEW c \in Calls
  PROVE  sessions[c] \in SessionRow
  BY DEF TypeInv, TypeOK, StoreTypeOK

(* IncrementAttempts keeps the types of the tables. *)
LEMMA ClaimMismatchType ==
  ASSUME TypeInv, NEW r \in Reports, ClaimMismatch(r)
  PROVE  TypeInv'
<1>1. /\ UNCHANGED <<calls, notified>> /\ reports[r].pc # "idle"
      /\ reports[r] \in ReportState /\ reports[r].session \in Calls
  BY DEF TypeInv, TypeOK, VerifyTypeOK, ReportsOK, ReportOK, ClaimMismatch
<1>2. StoreTypeOK'
  <2>1. sessions' \in [Calls -> SessionRow]
    BY <1>1 DEF TypeInv, TypeOK, StoreTypeOK, ClaimMismatch, IncrementAttempts, SessionRow
  <2> QED BY <2>1 DEF TypeInv, TypeOK, StoreTypeOK, ClaimMismatch
<1> DEFINE x == [reports[r] EXCEPT !.pc = "fails", !.outcome = "claim_mismatch"]
<1>3. x \in ReportState /\ x.pc = "fails" /\ x.sig = reports[r].sig
  BY <1>1 DEF ReportState
<1> HIDE DEF x
<1> QED BY <1>1, <1>2, <1>3, MoveType DEF x, ClaimMismatch

(* The UPDATE of VerifySession keeps the types of the tables, for any sender. *)
LEMMA VerifySessionType ==
  ASSUME TypeInv, NEW c \in Calls, NEW sender \in Senders, VerifySession(c, sender),
         UNCHANGED <<now, devices, numbers, events, blocks>>
  PROVE  StoreTypeOK'
<1>1. sessions' \in [Calls -> SessionRow]
  <2> DEFINE x == [sessions[c] EXCEPT !.status = "verified", !.verified = sender]
  <2>1. x \in SessionRow
    BY SessionRowType DEF SessionRow
  <2>2. sessions' = IF Pending(c) THEN [sessions EXCEPT ![c] = x] ELSE sessions
    BY DEF VerifySession
  <2> HIDE DEF x
  <2> QED BY <2>1, <2>2 DEF TypeInv, TypeOK, StoreTypeOK
<1> QED BY <1>1 DEF TypeInv, TypeOK, StoreTypeOK

(* A report that has begun carries the sender its device reported. *)
LEMMA SignalSender ==
  ASSUME TypeInv, NEW r \in Reports, reports[r].pc # "idle"
  PROVE  reports[r].sig \in Signals /\ reports[r].sig.sender \in Senders
  BY VerifyAssumption DEF TypeInv, ReportsOK, ReportOK

(* VerifySession in Service.Inbound, for the winner and for the loser of a race. *)
LEMMA VerifyMatchedType ==
  ASSUME TypeInv, NEW r \in Reports, VerifyMatched(r)
  PROVE  TypeInv'
<1>1. /\ UNCHANGED <<calls, notified>> /\ reports[r].pc # "idle"
      /\ reports[r] \in ReportState /\ reports[r].session \in Calls
  BY DEF TypeInv, TypeOK, VerifyTypeOK, ReportsOK, ReportOK, VerifyMatched
<1>2. StoreTypeOK'
  BY <1>1, SignalSender, VerifySessionType DEF VerifyMatched
<1>3. ASSUME Advance(r, [reports[r] EXCEPT !.pc = "notify", !.outcome = "matched", !.won = TRUE])
      PROVE  TypeInv'
  <2> DEFINE x == [reports[r] EXCEPT !.pc = "notify", !.outcome = "matched", !.won = TRUE]
  <2>1. x \in ReportState /\ x.session = reports[r].session /\ x.sig = reports[r].sig
    BY <1>1 DEF ReportState
  <2> HIDE DEF x
  <2> QED BY <1>1, <1>2, <1>3, <2>1, MoveType DEF x
<1> QED BY <1>1, <1>2, <1>3, LeaveType DEF VerifyMatched, Outcomes

(* The Notifier is told of a session of the store. *)
LEMMA NotifyType ==
  ASSUME TypeInv, NEW r \in Reports, Notify(r)
  PROVE  TypeInv'
<1>1. /\ StoreTypeOK' /\ UNCHANGED calls /\ reports[r].pc # "idle"
      /\ reports[r] \in ReportState
  BY DEF TypeInv, TypeOK, StoreTypeOK, VerifyTypeOK, storeVars, Notify
<1>2. notified' \in [Calls -> Nat]
  BY DEF TypeInv, TypeOK, VerifyTypeOK, ReportsOK, ReportOK, Notify
<1> DEFINE x == [reports[r] EXCEPT !.pc = "record"]
<1>3. x \in ReportState /\ x.pc = "record" /\ x.sig = reports[r].sig
  BY <1>1 DEF ReportState
<1> HIDE DEF x
<1> QED BY <1>1, <1>2, <1>3, SignalSender, AdvanceType DEF x, Notify

(* The first count of maybeBlock. *)
LEMMA CountFailuresType ==
  ASSUME TypeInv, NEW r \in Reports, CountFailures(r)
  PROVE  TypeInv'
<1>1. /\ StoreTypeOK' /\ UNCHANGED <<calls, notified>> /\ reports[r].pc # "idle"
      /\ reports[r] \in ReportState /\ now \in Nat
  BY DEF TypeInv, TypeOK, StoreTypeOK, VerifyTypeOK, storeVars, CountFailures
<1>2. PICK pc \in {"block", "floods"} : Advance(r, [reports[r] EXCEPT !.failing = now, !.pc = pc])
  BY DEF CountFailures
<1> DEFINE x == [reports[r] EXCEPT !.failing = now, !.pc = pc]
<1>3. x \in ReportState /\ x.pc = pc /\ x.sig = reports[r].sig
  BY <1>1 DEF ReportState
<1> HIDE DEF x
<1> QED BY <1>1, <1>2, <1>3, MoveType DEF x

(* The second count of maybeBlock. *)
LEMMA CountFloodType ==
  ASSUME TypeInv, NEW r \in Reports, CountFlood(r)
  PROVE  TypeInv'
<1>1. StoreTypeOK' /\ UNCHANGED <<calls, notified>> /\ reports[r].pc # "idle"
  BY DEF TypeInv, TypeOK, StoreTypeOK, storeVars, CountFlood
<1>2. PICK pc \in {"block", "record"} : Advance(r, [reports[r] EXCEPT !.pc = pc])
  BY DEF CountFlood
<1> QED BY <1>1, <1>2, GoType

(* The INSERT of CreateBlock blocks a sender until a time that is a number. *)
LEMMA CreateBlockType ==
  ASSUME TypeInv, NEW r \in Reports, CreateBlock(r)
  PROVE  TypeInv'
<1>1. UNCHANGED <<calls, notified>> /\ reports[r].pc # "idle" /\ reports[r] \in ReportState
  BY DEF TypeInv, TypeOK, VerifyTypeOK, CreateBlock
<1>2. reports[r].failing + BlockDuration \in Nat
  BY <1>1, VerifyAssumption DEF ReportState
<1>3. StoreTypeOK'
  BY <1>1, <1>2, SignalSender DEF TypeInv, TypeOK, StoreTypeOK, CreateBlock, InsertBlock
<1> QED BY <1>1, <1>3, GoType DEF CreateBlock

(* The audit row of a report fits the columns of inbound_events. *)
LEMMA AuditRowType ==
  ASSUME TypeInv, NEW r \in Reports, reports[r].pc = "record"
  PROVE  AuditRow(r) \in EventRow
<1>1. reports[r] \in ReportState /\ now \in Nat
  BY DEF TypeInv, TypeOK, StoreTypeOK, VerifyTypeOK
<1> QED BY <1>1, SignalSender DEF AuditRow, EventRow, ReportState

(* The deferred CreateInboundEvent of Service.Inbound. *)
LEMMA RecordEventType ==
  ASSUME TypeInv, NEW r \in Reports, RecordEvent(r)
  PROVE  TypeInv'
<1>1. UNCHANGED <<calls, notified>> /\ reports[r].pc = "record"
  BY DEF RecordEvent
<1>2. StoreTypeOK'
  BY <1>1, AuditRowType DEF TypeInv, TypeOK, StoreTypeOK, RecordEvent, InsertEvent
<1> QED BY <1>1, <1>2, GoType DEF RecordEvent

(* A failing or interrupted statement of Inbound leaves well-typed tables and a report that
   goes on where the code goes on after the error. *)
LEMMA ReportFaultType ==
  ASSUME TypeInv, NEW r \in Reports, ReportFault(r)
  PROVE  TypeInv'
<1>1. /\ UNCHANGED <<now, devices, numbers, events, blocks>> /\ UNCHANGED <<calls, notified>>
      /\ reports[r] \in ReportState /\ now \in Nat
  BY DEF TypeInv, TypeOK, StoreTypeOK, VerifyTypeOK, ReportFault
<1>2. ASSUME UNCHANGED sessions PROVE StoreTypeOK'
  BY <1>1, <1>2 DEF TypeInv, TypeOK, StoreTypeOK
<1>3. CASE /\ reports[r].pc \in DOMAIN AfterError
           /\ Advance(r, [reports[r] EXCEPT
                            !.pc = AfterError[@],
                            !.outcome = OutcomeOfError(reports[r]),
                            !.failing = IF reports[r].pc = "fails" THEN now ELSE @])
           /\ UNCHANGED sessions
  <2>1. reports[r].pc # "idle"
    BY <1>3 DEF AfterError
  <2>2. PICK pc \in {"match", "fails", "floods", "record", "done"} : pc = AfterError[reports[r].pc]
    BY <1>3 DEF AfterError
  <2>3. PICK outcome \in Outcomes : outcome = OutcomeOfError(reports[r])
    BY <1>1 DEF OutcomeOfError, ReportState, Outcomes
  <2>4. PICK failing \in Nat :
          failing = IF reports[r].pc = "fails" THEN now ELSE reports[r].failing
    BY <1>1 DEF ReportState
  <2> DEFINE x == [reports[r] EXCEPT !.pc = pc, !.outcome = outcome, !.failing = failing]
  <2>5. x \in ReportState /\ x.sig = reports[r].sig /\ x.pc = pc
    <3> DEFINE y == [reports[r] EXCEPT !.pc = pc, !.outcome = outcome]
    <3>1. y \in ReportState
      BY <1>1 DEF ReportState, Outcomes
    <3>2. x = [y EXCEPT !.failing = failing]
      BY <1>1 DEF ReportState
    <3>3. y.sig = reports[r].sig /\ y.pc = pc
      BY <1>1 DEF ReportState
    <3> HIDE DEF x, y
    <3> QED BY <3>1, <3>2, <3>3 DEF ReportState
  <2>6. Advance(r, x)
    BY <1>3, <2>2, <2>3, <2>4
  <2> HIDE DEF x
  <2> QED BY <1>1, <1>2, <1>3, <2>1, <2>5, <2>6, MoveType
<1>4. CASE /\ reports[r].pc = "verify"
           /\ VerifySession(reports[r].session, reports[r].sig.sender)
           /\ Advance(r, [reports[r] EXCEPT !.pc = "record", !.outcome = "error",
                                            !.won = Pending(reports[r].session)])
  <2> DEFINE x == [reports[r] EXCEPT !.pc = "record", !.outcome = "error",
                                     !.won = Pending(reports[r].session)]
  <2>1. Pending(reports[r].session) \in BOOLEAN
    BY DEF Pending
  <2>2. x \in ReportState /\ x.pc = "record" /\ x.sig = reports[r].sig
    BY <1>1, <2>1 DEF ReportState
  <2>3. reports[r].session \in Calls
    BY <1>4 DEF TypeInv, ReportsOK, ReportOK
  <2>4. StoreTypeOK'
    BY <1>1, <1>4, <2>3, SignalSender, VerifySessionType
  <2>5. Advance(r, x)
    BY <1>4
  <2> HIDE DEF x
  <2> QED BY <1>1, <1>4, <2>2, <2>4, <2>5, MoveType
<1>5. CASE reports[r].pc \notin {"idle", "done"} /\ Refuse(r, "lost") /\ UNCHANGED sessions
  BY <1>1, <1>2, <1>5, LeaveType DEF Outcomes
<1> QED BY <1>3, <1>4, <1>5 DEF ReportFault

(* Statements and commands outside the two handlers. *)
(* The clock, provisioning, device removal, the sweep and the prune leave the calls alone and
   keep the types of the tables. *)
LEMMA FleetType ==
  ASSUME TypeInv, Tick \/ Provision \/ RemoveDevice \/ Sweep \/ Prune
  PROVE  TypeInv'
<1>1. UNCHANGED verifyVars
  BY DEF Tick, Provision, RemoveDevice, Sweep, Prune
<1>2. StoreTypeOK'
  <2>1. CASE Tick
    BY <2>1 DEF TypeInv, TypeOK, StoreTypeOK, Tick
  <2>2. CASE Provision
    BY <2>2 DEF TypeInv, TypeOK, StoreTypeOK, Provision, CreateDevice, SetHeartbeat, CreateNumber
  <2>3. CASE RemoveDevice
    <3>1. PICK d \in Devices : DeleteDevice(d)
      BY <2>3, CoordinatorAssumption DEF RemoveDevice
    <3> DEFINE gone == {n \in Numbers : numbers[n] = "present" /\ Fleet[n].device = d}
               Unlink(row) == IF Backend = "postgres" /\ row.number \in gone
                              THEN [row EXCEPT !.number = None] ELSE row
    <3>2. \A c \in Calls : Unlink(sessions[c]) \in SessionRow
      BY SessionRowType DEF SessionRow
    <3>3. \A r \in Reports : Unlink(events[r]) \in EventRow
      BY DEF TypeInv, TypeOK, StoreTypeOK, EventRow
    <3>4. /\ sessions' = [c \in Calls |-> Unlink(sessions[c])]
          /\ events' = [r \in Reports |-> Unlink(events[r])]
          /\ devices' = [devices EXCEPT ![d] = "deleted"]
          /\ numbers' = [n \in Numbers |-> IF n \in gone THEN "deleted" ELSE numbers[n]]
          /\ UNCHANGED <<now, blocks>>
      BY <3>1 DEF DeleteDevice
    <3> HIDE DEF gone, Unlink
    <3> QED BY <3>2, <3>3, <3>4 DEF TypeInv, TypeOK, StoreTypeOK
  <2>4. CASE Sweep
    <3>1. \A c \in Calls : [sessions[c] EXCEPT !.status = "expired"] \in SessionRow
      BY SessionRowType DEF SessionRow
    <3> QED BY <2>4, <3>1 DEF TypeInv, TypeOK, StoreTypeOK, Sweep, ExpireDue
  <2>5. CASE Prune
    <3>1. NoEvent \in EventRow
      BY DEF NoEvent, EventRow
    <3> QED BY <2>5, <3>1 DEF TypeInv, TypeOK, StoreTypeOK, Prune, DeleteInboundEventsBefore
  <2> QED BY <2>1, <2>2, <2>3, <2>4, <2>5
<1>3. VerifyTypeOK' /\ CallsOK' /\ ReportsOK'
  BY <1>1 DEF TypeInv, TypeOK, VerifyTypeOK, CallsOK, CallOK, ReportsOK, ReportOK, verifyVars,
              ValidRequest
<1> QED BY <1>2, <1>3 DEF TypeInv, TypeOK

(* Every step of the coordinator keeps the types. *)
LEMMA NextType ==
  ASSUME TypeInv, [Next]_vars
  PROVE  TypeInv'
<1>1. CASE UNCHANGED vars
  BY <1>1 DEF vars, storeVars, verifyVars, TypeInv, TypeOK, StoreTypeOK, VerifyTypeOK,
              CallsOK, CallOK, ReportsOK, ReportOK, ValidRequest
<1>2. ASSUME NEW c \in Calls, BeginStart(c) \/ StartStep(c) \/ StartFault(c)
      PROVE  TypeInv'
  BY <1>2, BeginStartType, StartPickNumberType, StartCreateSessionType, StartNoNumberType,
     StartFaultType DEF StartStep
<1>3. ASSUME NEW r \in Reports, Receive(r) \/ InboundStep(r) \/ ReportFault(r)
      PROVE  TypeInv'
  BY <1>3, ReceiveType, ResolveType, GateType, MatchType, ClaimMismatchType, VerifyMatchedType,
     NotifyType, CountFailuresType, CountFloodType, CreateBlockType, RecordEventType,
     ReportFaultType DEF InboundStep
<1> QED BY <1>1, <1>2, <1>3, FleetType DEF Next, VerifyNext

(* Every reachable state has the right types, calls between two statements included: a call
   that is picking or inserting holds a valid request and has attempts left, a report that is
   verifying or notifying holds a session (service.go: Start and Inbound). *)
THEOREM TypeInvariant == Spec => []TypeInv
<1> QED BY InitType, NextType, PTL DEF Spec

(* The type invariant of the runs, for any number of calls, reports, devices and numbers, any
   backend, any limits and with or without faults. *)
THEOREM TypeCorrect == Spec => []TypeOK
<1>1. TypeInv => TypeOK
  BY DEF TypeInv
<1> QED BY <1>1, TypeInvariant, PTL
=============================================================================
