------------------------------- MODULE Store -------------------------------
(***************************************************************************)
(* The coordinator's database (coordinator/internal/store): its tables,    *)
(* and one operator per SQL statement the program issues.  A statement is  *)
(* atomic, nothing larger is: the code opens no transaction around two of  *)
(* them.  Two backends implement the same Go interface; they differ only   *)
(* in their foreign keys, which `Backend' selects.                         *)
(*                                                                         *)
(* Row ids are random UUIDs made in Go or by Postgres, so an id is never   *)
(* reused: a deleted row keeps the state "deleted" here.  Rows of numbers  *)
(* are never updated, so their columns are the constant Fleet and only     *)
(* whether the row exists is state.                                        *)
(***************************************************************************)
EXTENDS Integers, FiniteSets

CONSTANTS
  Backend,      \* "postgres" or "sqlite"
  Devices,      \* device row ids
  Numbers,      \* number row ids
  Lines,        \* receiver MSISDNs
  Fleet,        \* [Numbers -> [device, line, channels]]: the columns of each number row
  Provisioned,  \* the numbers that exist, on online devices, when the coordinator starts
  Senders,      \* MSISDNs of end users
  Codes,        \* what generateCode may return, for the code lengths of the apps
  Calls,        \* calls of Service.Start; a call inserts at most one session, of the same id
  Reports,      \* calls of Service.Inbound; a report inserts at most one inbound_event
  MaxPending,   \* the cap of WithMaxPending
  None          \* SQL NULL

VoiceChannels == {"call", "dtmf"}
Channels == {"sms"} \cup VoiceChannels
Bindings == {"derive", "claim"}

ASSUME StoreAssumption ==
  /\ Backend \in {"postgres", "sqlite"}
  /\ Fleet \in [Numbers -> [device : Devices, line : Lines, channels : SUBSET Channels]]
  /\ Provisioned \subseteq Numbers
  /\ \A m, n \in Provisioned : Fleet[m].line = Fleet[n].line => m = n
  /\ MaxPending \in Nat \ {0}
  /\ None \notin Numbers \cup Senders \cup Codes \cup Calls

VARIABLES
  now,       \* the clock of expires_at, received_at and until
  devices,   \* status of each device row
  numbers,   \* whether each number row exists
  sessions,  \* sessions[c]: the row inserted by call c
  events,    \* events[r]: the inbound_events row inserted by report r
  blocks     \* rows of blocks

storeVars == <<now, devices, numbers, sessions, events, blocks>>

SessionRow ==
  [status : {"none", "pending", "verified", "expired"},
   channel : Channels, binding : Bindings, number : Numbers \cup {None},
   code : Codes \cup {None}, claimed : Senders \cup {None},
   verified : Senders \cup {None}, attempts : Nat, expires : Nat]

NoSession ==
  [status |-> "none", channel |-> "sms", binding |-> "derive", number |-> None,
   code |-> None, claimed |-> None, verified |-> None, attempts |-> 0, expires |-> 0]

EventRow ==
  [recorded : BOOLEAN, number : Numbers \cup {None}, sender : Senders \cup {None},
   matched : Calls \cup {None}, at : Nat]

NoEvent ==
  [recorded |-> FALSE, number |-> None, sender |-> None, matched |-> None, at |-> 0]

StoreTypeOK ==
  /\ now \in Nat
  /\ devices \in [Devices -> {"absent", "offline", "online", "deleted"}]
  /\ numbers \in [Numbers -> {"absent", "present", "deleted"}]
  /\ sessions \in [Calls -> SessionRow]
  /\ events \in [Reports -> EventRow]
  /\ blocks \in SUBSET [target : Senders, until : Nat]

StoreInit ==
  /\ now = 0
  /\ devices = [d \in Devices |->
                  IF \E n \in Provisioned : Fleet[n].device = d THEN "online" ELSE "absent"]
  /\ numbers = [n \in Numbers |-> IF n \in Provisioned THEN "present" ELSE "absent"]
  /\ sessions = [c \in Calls |-> NoSession]
  /\ events = [r \in Reports |-> NoEvent]
  /\ blocks = {}

-----------------------------------------------------------------------------
(* Queries. *)

Pending(c) == sessions[c].status = "pending"

PendingOn(n) == {c \in Calls : Pending(c) /\ sessions[c].number = n}

VoicePendingOn(n) == {c \in PendingOn(n) : sessions[c].channel \in VoiceChannels}

\* GetNumberByMSISDN: msisdn is UNIQUE, so this has at most one member.
NumberByLine(line) == {n \in Numbers : numbers[n] = "present" /\ Fleet[n].line = line}

\* The numbers CountAvailableNumbers counts.
Available(channel) ==
  {n \in Numbers : /\ numbers[n] = "present"
                   /\ devices[Fleet[n].device] = "online"
                   /\ channel \in Fleet[n].channels}

\* The WHERE clause of PickNumber.
Pickable(channel) ==
  {n \in Available(channel) :
     /\ channel \in VoiceChannels => VoicePendingOn(n) = {}
     /\ Cardinality(PendingOn(n)) < MaxPending}

\* The rows PickNumber may return: ORDER BY pending sessions, then random().
PickNumber(channel) ==
  {n \in Pickable(channel) :
     \A m \in Pickable(channel) : Cardinality(PendingOn(n)) <= Cardinality(PendingOn(m))}

\* The WHERE clause of FindPendingByCode without expires_at > now.
FindPendingByCodeIgnoringDeadline(n, code, channel) ==
  {c \in PendingOn(n) : sessions[c].code = code /\ sessions[c].channel = channel}

FindPendingByCode(n, code, channel) ==
  {c \in PendingOn(n) : /\ sessions[c].code = code
                        /\ sessions[c].channel = channel
                        /\ sessions[c].expires > now}

\* The WHERE clause of FindPendingMissedCall without expires_at > now.
FindPendingMissedCallIgnoringDeadline(n, claimed) ==
  {c \in PendingOn(n) : sessions[c].channel = "call" /\ sessions[c].claimed = claimed}

FindPendingMissedCall(n, claimed) ==
  {c \in PendingOn(n) : /\ sessions[c].channel = "call"
                        /\ sessions[c].claimed = claimed
                        /\ sessions[c].expires > now}

\* The rows CountInboundBySender counts.
InboundBySender(sender, since, unmatchedOnly) ==
  {r \in Reports : /\ events[r].recorded
                   /\ events[r].sender = sender
                   /\ events[r].at > since
                   /\ unmatchedOnly => events[r].matched = None}

IsBlocked(sender) == \E b \in blocks : b.target = sender /\ b.until > now

-----------------------------------------------------------------------------
(* Statements on sessions. *)

\* The unique index on codes alone, and the one on voice rows alone.
ConflictsByCode(row) ==
  \E c \in Calls : /\ Pending(c) /\ sessions[c].number = row.number /\ row.number # None
                   /\ row.code # None /\ sessions[c].code = row.code

ConflictsByVoice(row) ==
  \E c \in Calls : /\ Pending(c) /\ sessions[c].number = row.number /\ row.number # None
                   /\ row.channel \in VoiceChannels /\ sessions[c].channel \in VoiceChannels

\* The two partial unique indexes: (number, code) among pending rows with a
\* code, and (number) among pending voice rows.  NULL equals nothing.
Conflicts(row) ==
  \E c \in Calls :
    /\ Pending(c)
    /\ sessions[c].number = row.number /\ row.number # None
    /\ \/ row.code # None /\ sessions[c].code = row.code
       \/ row.channel \in VoiceChannels /\ sessions[c].channel \in VoiceChannels

\* sessions.number_id is a foreign key in Postgres only.
NumberRefOK(n) == Backend = "postgres" => numbers[n] = "present"

InsertSession(c, row) == sessions' = [sessions EXCEPT ![c] = row]

\* The UPDATE of VerifySession without its status = 'pending'.
VerifySessionUnguarded(c, sender) ==
  sessions' = [sessions EXCEPT ![c] = [@ EXCEPT !.status = "verified", !.verified = sender]]

\* VerifySession: the deadline is not looked at again.
VerifySession(c, sender) ==
  sessions' = IF Pending(c)
              THEN [sessions EXCEPT ![c] = [@ EXCEPT !.status = "verified", !.verified = sender]]
              ELSE sessions

IncrementAttempts(c) == sessions' = [sessions EXCEPT ![c].attempts = @ + 1]

\* A sweep that misses the rows without a code.
DueWithCode(c) == Pending(c) /\ sessions[c].expires <= now /\ sessions[c].code # None

Due(c) == Pending(c) /\ sessions[c].expires <= now

\* The sweep without its status = 'pending'.
ExpireDueAnyStatus ==
  /\ sessions' = [c \in Calls |->
                    IF sessions[c].status # "none" /\ sessions[c].expires <= now
                    THEN [sessions[c] EXCEPT !.status = "expired"] ELSE sessions[c]]
  /\ UNCHANGED <<now, devices, numbers, events, blocks>>

ExpireDue ==
  /\ sessions' = [c \in Calls |->
                    IF Due(c) THEN [sessions[c] EXCEPT !.status = "expired"] ELSE sessions[c]]
  /\ UNCHANGED <<now, devices, numbers, events, blocks>>

-----------------------------------------------------------------------------
(* Statements on events, blocks, devices and numbers. *)

InsertEvent(r, row) == events' = [events EXCEPT ![r] = row]

DeleteInboundEventsBefore(cutoff) ==
  /\ events' = [r \in Reports |-> IF events[r].at < cutoff THEN NoEvent ELSE events[r]]
  /\ UNCHANGED <<now, devices, numbers, sessions, blocks>>

InsertBlock(sender, until) == blocks' = blocks \cup {[target |-> sender, until |-> until]}

CreateDevice(d) ==
  /\ devices[d] = "absent"
  /\ devices' = [devices EXCEPT ![d] = "offline"]
  /\ UNCHANGED <<now, numbers, sessions, events, blocks>>

\* No statement of the program takes a device back to 'offline'.
SetHeartbeat(d) ==
  /\ devices[d] \in {"offline", "online"}
  /\ devices' = [devices EXCEPT ![d] = "online"]
  /\ UNCHANGED <<now, numbers, sessions, events, blocks>>

CreateNumber(n) ==
  /\ numbers[n] = "absent"
  /\ devices[Fleet[n].device] \in {"offline", "online"}
  /\ NumberByLine(Fleet[n].line) = {}
  /\ numbers' = [numbers EXCEPT ![n] = "present"]
  /\ UNCHANGED <<now, devices, sessions, events, blocks>>

\* The device's numbers go with it; rows that refer to them lose the reference
\* where the backend declares it (ON DELETE SET NULL).
DeleteDevice(d) ==
  LET gone == {n \in Numbers : numbers[n] = "present" /\ Fleet[n].device = d}
      Unlink(row) == IF Backend = "postgres" /\ row.number \in gone
                     THEN [row EXCEPT !.number = None] ELSE row
  IN /\ devices[d] \in {"offline", "online"}
     /\ devices' = [devices EXCEPT ![d] = "deleted"]
     /\ numbers' = [n \in Numbers |-> IF n \in gone THEN "deleted" ELSE numbers[n]]
     /\ sessions' = [c \in Calls |-> Unlink(sessions[c])]
     /\ events' = [r \in Reports |-> Unlink(events[r])]
     /\ UNCHANGED <<now, blocks>>
=============================================================================
