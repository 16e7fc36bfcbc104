------------------------------- MODULE Verify -------------------------------
(***************************************************************************)
(* The verification service (coordinator/internal/verify/service.go and    *)
(* codes.go): the HTTP handlers that run Service.Start and Service.Inbound *)
(* concurrently, in one process or in several over one database.           *)
(*                                                                         *)
(* Every call is a process.  One action is what the code does between two  *)
(* accesses to the database: the statement, and the local decision taken   *)
(* on its answer.  A message body is the run of digits it holds, which is  *)
(* a code when it is one somebody was given, Blank (nothing but white      *)
(* space) or NoCode (any other text).                                      *)
(***************************************************************************)
EXTENDS Store

CONSTANTS
  Digits,          \* how many digits each code has: the code_len of an app, the environment or
                   \* the engine's options, which nothing checks; six when it is not positive
  Requests,        \* the start requests callers make
  Signals,         \* the inbound signals receivers report
  EnabledChannels, \* app.Config.ChannelsEnabled; {} enables all
  TTL,             \* lifetime of a session
  MaxAttempts,     \* attempts of Start: 8 in the code
  FailWindow, FailThreshold, FloodWindow, FloodThreshold, BlockDuration,
  LimiterDenies,   \* TRUE: the rate limiter may refuse a report
  Faults,          \* TRUE: statements may fail and handlers may be cut short
  MaxClock         \* bound on the clock

Blank  == "blank"
NoCode == "no code"

ASSUME VerifyAssumption ==
  /\ Digits \in [Codes -> Nat \ {0}]
  /\ Requests \subseteq [channel : STRING, binding : STRING, claimed : Senders \cup {None}]
  /\ Signals \subseteq [device : Devices, line : Lines, type : STRING, sender : Senders,
                        body : Codes \cup {Blank, NoCode}]
  /\ Blank \notin Codes /\ NoCode \notin Codes
  /\ EnabledChannels \subseteq Channels
  /\ TTL \in Nat /\ MaxClock \in Nat
  /\ MaxAttempts \in Nat \ {0}
  /\ FailWindow \in Nat /\ FloodWindow \in Nat /\ BlockDuration \in Nat
  /\ FailThreshold \in Nat \ {0} /\ FloodThreshold \in Nat \ {0}
  /\ LimiterDenies \in BOOLEAN /\ Faults \in BOOLEAN

VARIABLES
  calls,     \* calls[c]: the local state of a call of Start
  reports,   \* reports[r]: the local state of a call of Inbound
  notified   \* notified[c]: how often the Notifier was told that c is verified

verifyVars == <<calls, reports, notified>>
vars == <<storeVars, verifyVars>>

CallState ==
  [pc : {"idle", "pick", "create", "count", "done"},
   req : Requests \cup {None}, number : Numbers \cup {None}, attempt : 0..MaxAttempts,
   expires : Nat,
   result : {"none", "created", "busy", "no_capacity", "invalid", "error", "lost"}]

ReportState ==
  [pc : {"idle", "resolve", "gate", "match", "attempt", "verify", "notify",
         "fails", "floods", "block", "record", "done"},
   sig : Signals \cup {None}, number : Numbers \cup {None}, session : Calls \cup {None},
   outcome : {"none", "invalid", "unknown_number", "forbidden", "blocked", "rate_limited",
              "no_match", "claim_mismatch", "matched", "already_resolved", "error", "lost"},
   found : Nat,      \* history: when matchSession saw the session live
   won : BOOLEAN,    \* history: the UPDATE of VerifySession changed the row
   failing : Nat]    \* `now' of maybeBlock

VerifyTypeOK ==
  /\ calls \in [Calls -> CallState]
  /\ reports \in [Reports -> ReportState]
  /\ notified \in [Calls -> Nat]

VerifyInit ==
  /\ calls = [c \in Calls |-> [pc |-> "idle", req |-> None, number |-> None, attempt |-> 0,
                               expires |-> 0, result |-> "none"]]
  /\ reports = [r \in Reports |->
                  [pc |-> "idle", sig |-> None, number |-> None, session |-> None,
                   outcome |-> "none", found |-> 0, won |-> FALSE, failing |-> 0]]
  /\ notified = [c \in Calls |-> 0]

-----------------------------------------------------------------------------
(* Service.Start *)

ChannelNeedsCode(channel) == channel \in {"sms", "dtmf"}

\* validateCombo, the app's enabled channels, and the claim that claim binding needs.
ValidRequest(req) ==
  /\ req.channel \in Channels /\ req.binding \in Bindings
  /\ req.channel = "call" => req.binding = "claim"
  /\ EnabledChannels # {} => req.channel \in EnabledChannels
  /\ req.binding = "claim" => req.claimed # None

Proceed(c, call) == calls' = [calls EXCEPT ![c] = call]

\* expires_at is fixed here, once, before the attempts.
BeginStart(c) ==
  /\ calls[c].pc = "idle"
  /\ now + TTL <= MaxClock
  /\ \E req \in Requests :
       \/ /\ ValidRequest(req)
          /\ Proceed(c, [calls[c] EXCEPT !.pc = "pick", !.req = req, !.expires = now + TTL])
       \/ /\ ~ValidRequest(req)
          /\ Proceed(c, [calls[c] EXCEPT !.pc = "done", !.req = req, !.result = "invalid"])
  /\ UNCHANGED <<storeVars, reports, notified>>

StartPickNumber(c) ==
  /\ calls[c].pc = "pick"
  /\ LET found == PickNumber(calls[c].req.channel) IN
       \/ \E n \in found : Proceed(c, [calls[c] EXCEPT !.pc = "create", !.number = n])
       \/ found = {} /\ Proceed(c, [calls[c] EXCEPT !.pc = "count"])
  /\ UNCHANGED <<storeVars, reports, notified>>

\* The row of call c: a fresh code where the channel carries one.
Candidate(c, code) ==
  [status |-> "pending", channel |-> calls[c].req.channel, binding |-> calls[c].req.binding,
   number |-> calls[c].number, code |-> code, claimed |-> calls[c].req.claimed,
   verified |-> None, attempts |-> 0, expires |-> calls[c].expires]

GeneratedCodes(c) == IF ChannelNeedsCode(calls[c].req.channel) THEN Codes ELSE {None}

\* Retry without its bound.
RetryForever(c) ==
  Proceed(c, [calls[c] EXCEPT !.attempt = @ + 1, !.number = None, !.pc = "pick"])

\* An attempt that ends in ErrConflict: pick again, or give up after MaxAttempts.
Retry(c) ==
  Proceed(c, [calls[c] EXCEPT
                !.attempt = @ + 1, !.number = None,
                !.pc = IF calls[c].attempt + 1 = MaxAttempts THEN "count" ELSE "pick"])

StartCreateSession(c) ==
  /\ calls[c].pc = "create"
  /\ \E code \in GeneratedCodes(c) :
       LET row == Candidate(c, code) IN
       \/ /\ Conflicts(row)
          /\ Retry(c)
          /\ UNCHANGED sessions
       \/ /\ ~Conflicts(row) /\ NumberRefOK(row.number)
          /\ InsertSession(c, row)
          /\ Proceed(c, [calls[c] EXCEPT !.pc = "done", !.result = "created"])
       \/ /\ ~Conflicts(row) /\ ~NumberRefOK(row.number)
          /\ Proceed(c, [calls[c] EXCEPT !.pc = "done", !.result = "error"])
          /\ UNCHANGED sessions
  /\ UNCHANGED <<now, devices, numbers, events, blocks, reports, notified>>

\* noNumberErr with an answer for voice channels only.
StartNoNumberVoiceOnly(c) ==
  /\ calls[c].pc = "count" /\ calls[c].req.channel \in VoiceChannels
  /\ LET busy == Available(calls[c].req.channel) # {} IN
       Proceed(c, [calls[c] EXCEPT !.pc = "done",
                                   !.result = IF busy THEN "busy" ELSE "no_capacity"])
  /\ UNCHANGED <<storeVars, reports, notified>>

\* noNumberErr: only voice channels ask CountAvailableNumbers.
StartNoNumber(c) ==
  /\ calls[c].pc = "count"
  /\ LET channel == calls[c].req.channel
         busy == channel \in VoiceChannels /\ Available(channel) # {}
     IN Proceed(c, [calls[c] EXCEPT !.pc = "done",
                                    !.result = IF busy THEN "busy" ELSE "no_capacity"])
  /\ UNCHANGED <<storeVars, reports, notified>>

-----------------------------------------------------------------------------
(* Service.Inbound *)

Advance(r, report) == reports' = [reports EXCEPT ![r] = report]

\* The handler returns before its audit row is due.
Refuse(r, outcome) == Advance(r, [reports[r] EXCEPT !.pc = "done", !.outcome = outcome])

\* The handler returns: its deferred audit row comes next.
Return(r, outcome) == Advance(r, [reports[r] EXCEPT !.pc = "record", !.outcome = outcome])

\* A device that authenticated delivers a signal; deviceapi hands it to Inbound.
Receive(r) ==
  /\ reports[r].pc = "idle"
  /\ \E sig \in Signals :
       /\ devices[sig.device] \in {"offline", "online"}
       /\ \/ /\ sig.type \in {"sms", "call"}
             /\ Advance(r, [reports[r] EXCEPT !.pc = "resolve", !.sig = sig])
          \/ /\ sig.type \notin {"sms", "call"}
             /\ Advance(r, [reports[r] EXCEPT !.pc = "done", !.sig = sig, !.outcome = "invalid"])
  /\ UNCHANGED <<storeVars, calls, notified>>

\* Resolve without the ownership check.
ResolveAnyDevice(r) ==
  /\ reports[r].pc = "resolve"
  /\ LET found == NumberByLine(reports[r].sig.line) IN
       \/ found = {} /\ Refuse(r, "unknown_number")
       \/ \E n \in found : Advance(r, [reports[r] EXCEPT !.pc = "gate", !.number = n])
  /\ UNCHANGED <<storeVars, calls, notified>>

\* GetNumberByMSISDN and the ownership check; nothing is recorded for a report that fails them.
Resolve(r) ==
  /\ reports[r].pc = "resolve"
  /\ LET found == NumberByLine(reports[r].sig.line) IN
       \/ found = {} /\ Refuse(r, "unknown_number")
       \/ \E n \in found :
            \/ /\ Fleet[n].device = reports[r].sig.device
               /\ Advance(r, [reports[r] EXCEPT !.pc = "gate", !.number = n])
            \/ /\ Fleet[n].device # reports[r].sig.device
               /\ Refuse(r, "forbidden")
  /\ UNCHANGED <<storeVars, calls, notified>>

\* IsBlocked, whose error counts as "not blocked", then the limiter.
Gate(r) ==
  /\ reports[r].pc = "gate"
  /\ LET blocked == IsBlocked(reports[r].sig.sender) IN
       \/ blocked /\ Return(r, "blocked")
       \/ (blocked => Faults) /\ LimiterDenies /\ Return(r, "rate_limited")
       \/ (blocked => Faults) /\ Advance(r, [reports[r] EXCEPT !.pc = "match"])
  /\ UNCHANGED <<storeVars, calls, notified>>

\* Mutated: twelve digits are too many.
ExtractCodeOfLess(body) == IF body \in Codes /\ Digits[body] \in 4..11 THEN body ELSE NoCode

\* extractCode: runs of less than 4 or more than 12 digits are skipped.
ExtractCode(body) == IF body \in Codes /\ Digits[body] \in 4..12 THEN body ELSE NoCode

\* matchSession: an sms by its code, a call with digits by its code, a bare call by caller id.
MatchSession(n, sig) ==
  LET code == ExtractCode(sig.body)
      ByCode(channel) == IF code = NoCode THEN {} ELSE FindPendingByCode(n, code, channel)
  IN CASE sig.type = "sms"                      -> ByCode("sms")
       [] sig.type = "call" /\ sig.body # Blank -> ByCode("dtmf")
       [] OTHER                                 -> FindPendingMissedCall(n, sig.sender)

\* The claim check left out.
ClaimAnything(c, sender) == TRUE

\* Claim binding accepts the claimed sender only.
ClaimAccepts(c, sender) ==
  sessions[c].binding = "claim" => sessions[c].claimed = sender

Match(r) ==
  /\ reports[r].pc = "match"
  /\ LET sig == reports[r].sig
         found == MatchSession(reports[r].number, sig)
     IN \/ /\ found = {}
           /\ Advance(r, [reports[r] EXCEPT !.pc = "fails", !.outcome = "no_match"])
        \/ \E c \in found :
             Advance(r, [reports[r] EXCEPT
                           !.session = c, !.found = now,
                           !.pc = IF ClaimAccepts(c, sig.sender) THEN "verify" ELSE "attempt"])
  /\ UNCHANGED <<storeVars, calls, notified>>

\* The session stays pending: only its attempts counter moves.
ClaimMismatch(r) ==
  /\ reports[r].pc = "attempt"
  /\ IncrementAttempts(reports[r].session)
  /\ Advance(r, [reports[r] EXCEPT !.pc = "fails", !.outcome = "claim_mismatch"])
  /\ UNCHANGED <<now, devices, numbers, events, blocks, calls, notified>>

\* VerifyMatched without a look at the number of rows the UPDATE changed.
VerifyIgnoringRows(r) ==
  /\ reports[r].pc = "verify"
  /\ VerifySession(reports[r].session, reports[r].sig.sender)
  /\ Advance(r, [reports[r] EXCEPT !.pc = "notify", !.outcome = "matched", !.won = TRUE])
  /\ UNCHANGED <<now, devices, numbers, events, blocks, calls, notified>>

\* VerifyMatched that tells nobody.
VerifySilently(r) ==
  /\ reports[r].pc = "verify"
  /\ VerifySession(reports[r].session, reports[r].sig.sender)
  /\ \/ /\ Pending(reports[r].session)
        /\ Advance(r, [reports[r] EXCEPT !.pc = "record", !.outcome = "matched", !.won = TRUE])
     \/ ~Pending(reports[r].session) /\ Return(r, "already_resolved")
  /\ UNCHANGED <<now, devices, numbers, events, blocks, calls, notified>>

\* VerifySession and its count of rows: only the UPDATE that changed the row goes on to notify.
VerifyMatched(r) ==
  /\ reports[r].pc = "verify"
  /\ VerifySession(reports[r].session, reports[r].sig.sender)
  /\ \/ /\ Pending(reports[r].session)
        /\ Advance(r, [reports[r] EXCEPT !.pc = "notify", !.outcome = "matched", !.won = TRUE])
     \/ ~Pending(reports[r].session) /\ Return(r, "already_resolved")
  /\ UNCHANGED <<now, devices, numbers, events, blocks, calls, notified>>

\* GetAppByID (apps are never deleted) and notify, which survives a panicking Notifier.
Notify(r) ==
  /\ reports[r].pc = "notify"
  /\ notified' = [notified EXCEPT ![reports[r].session] = @ + 1]
  /\ Advance(r, [reports[r] EXCEPT !.pc = "record"])
  /\ UNCHANGED <<storeVars, calls>>

-----------------------------------------------------------------------------
(* maybeBlock and the deferred audit row *)

\* CountFailures that counts the report at hand twice.
CountFailuresTwice(r) ==
  /\ reports[r].pc = "fails"
  /\ LET n == Cardinality(InboundBySender(reports[r].sig.sender, now - FailWindow, TRUE)) IN
       Advance(r, [reports[r] EXCEPT
                     !.failing = now,
                     !.pc = IF n + 2 >= FailThreshold THEN "block" ELSE "floods"])
  /\ UNCHANGED <<storeVars, calls, notified>>

\* The failed attempt being handled is not recorded yet: the + 1 stands for it.
CountFailures(r) ==
  /\ reports[r].pc = "fails"
  /\ LET n == Cardinality(InboundBySender(reports[r].sig.sender, now - FailWindow, TRUE)) IN
       Advance(r, [reports[r] EXCEPT
                     !.failing = now,
                     !.pc = IF n + 1 >= FailThreshold THEN "block" ELSE "floods"])
  /\ UNCHANGED <<storeVars, calls, notified>>

CountFlood(r) ==
  /\ reports[r].pc = "floods"
  /\ LET n == Cardinality(InboundBySender(reports[r].sig.sender,
                                          reports[r].failing - FloodWindow, FALSE)) IN
       Advance(r, [reports[r] EXCEPT
                     !.pc = IF n + 1 >= FloodThreshold THEN "block" ELSE "record"])
  /\ UNCHANGED <<storeVars, calls, notified>>

CreateBlock(r) ==
  /\ reports[r].pc = "block"
  /\ InsertBlock(reports[r].sig.sender, reports[r].failing + BlockDuration)
  /\ Advance(r, [reports[r] EXCEPT !.pc = "record"])
  /\ UNCHANGED <<now, devices, numbers, sessions, events, calls, notified>>

AuditRow(r) ==
  [recorded |-> TRUE, number |-> reports[r].number, sender |-> reports[r].sig.sender, at |-> now,
   matched |-> IF reports[r].outcome = "matched" THEN reports[r].session ELSE None]

\* RecordEvent that names the session whatever became of the report.
RecordEventOfLoser(r) ==
  /\ reports[r].pc = "record"
  /\ \/ /\ NumberRefOK(reports[r].number)
        /\ InsertEvent(r, [AuditRow(r) EXCEPT !.matched = reports[r].session])
     \/ ~NumberRefOK(reports[r].number) /\ UNCHANGED events
  /\ Advance(r, [reports[r] EXCEPT !.pc = "done"])
  /\ UNCHANGED <<now, devices, numbers, sessions, blocks, calls, notified>>

\* In Postgres the row is refused when the number has been deleted meanwhile.
RecordEvent(r) ==
  /\ reports[r].pc = "record"
  /\ \/ NumberRefOK(reports[r].number) /\ InsertEvent(r, AuditRow(r))
     \/ ~NumberRefOK(reports[r].number) /\ UNCHANGED events
  /\ Advance(r, [reports[r] EXCEPT !.pc = "done"])
  /\ UNCHANGED <<now, devices, numbers, sessions, blocks, calls, notified>>

-----------------------------------------------------------------------------
(* What fails.  A statement errors; a cancelled request or a crashed process ends a handler
   between two statements; an UPDATE commits although its answer is lost. *)

StartFault(c) ==
  /\ Faults
  /\ \/ /\ calls[c].pc \in {"pick", "create"}
        /\ Proceed(c, [calls[c] EXCEPT !.pc = "done", !.result = "error"])
        /\ UNCHANGED sessions
     \/ /\ calls[c].pc = "create"
        /\ \E code \in GeneratedCodes(c) :
             /\ ~Conflicts(Candidate(c, code)) /\ NumberRefOK(calls[c].number)
             /\ InsertSession(c, Candidate(c, code))
        /\ Proceed(c, [calls[c] EXCEPT !.pc = "done", !.result = "error"])
     \/ /\ calls[c].pc = "count"      \* the error of CountAvailableNumbers is dropped
        /\ Proceed(c, [calls[c] EXCEPT !.pc = "done", !.result = "no_capacity"])
        /\ UNCHANGED sessions
  /\ UNCHANGED <<now, devices, numbers, events, blocks, reports, notified>>

\* Where a handler goes on after the statement of each step failed.
AfterError ==
  [resolve |-> "done", match |-> "record", attempt |-> "fails", verify |-> "record",
   notify |-> "record", fails |-> "floods", floods |-> "record", block |-> "record",
   record |-> "done"]

OutcomeOfError(rep) ==
  CASE rep.pc \in {"resolve", "match", "verify"} -> "error"
    [] rep.pc = "attempt"                        -> "claim_mismatch"
    [] OTHER                                     -> rep.outcome

ReportFault(r) ==
  /\ Faults
  /\ \/ /\ reports[r].pc \in DOMAIN AfterError
        /\ Advance(r, [reports[r] EXCEPT
                         !.pc = AfterError[@],
                         !.outcome = OutcomeOfError(reports[r]),
                         !.failing = IF reports[r].pc = "fails" THEN now ELSE @])
        /\ UNCHANGED sessions
     \/ /\ reports[r].pc = "verify"
        /\ VerifySession(reports[r].session, reports[r].sig.sender)
        /\ Advance(r, [reports[r] EXCEPT !.pc = "record", !.outcome = "error",
                                         !.won = Pending(reports[r].session)])
     \/ /\ reports[r].pc \notin {"idle", "done"}
        /\ Refuse(r, "lost")
        /\ UNCHANGED sessions
  /\ UNCHANGED <<now, devices, numbers, events, blocks, calls, notified>>

-----------------------------------------------------------------------------
StartStep(c) == StartPickNumber(c) \/ StartCreateSession(c) \/ StartNoNumber(c)

InboundStep(r) ==
  \/ Resolve(r) \/ Gate(r) \/ Match(r) \/ ClaimMismatch(r) \/ VerifyMatched(r) \/ Notify(r)
  \/ CountFailures(r) \/ CountFlood(r) \/ CreateBlock(r) \/ RecordEvent(r)

VerifyNext ==
  \/ \E c \in Calls : BeginStart(c) \/ StartStep(c) \/ StartFault(c)
  \/ \E r \in Reports : Receive(r) \/ InboundStep(r) \/ ReportFault(r)
=============================================================================
