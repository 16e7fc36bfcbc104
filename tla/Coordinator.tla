---------------------------- MODULE Coordinator ----------------------------
(***************************************************************************)
(* The whole control plane: the verification service, the provisioning     *)
(* and heartbeat handlers that change the fleet under it, the clock, and   *)
(* the background loop of cmd/coordinator/main.go, which the embedded      *)
(* engine (coordinator/engine) does not start.                             *)
(***************************************************************************)
EXTENDS Verify

CONSTANTS
  Sweeper,     \* TRUE: standalone coordinator; FALSE: embedded engine
  Retention,   \* age at which inbound_events rows are pruned; 0 keeps them
  Removable    \* the devices an operator may remove

ASSUME CoordinatorAssumption ==
  /\ Sweeper \in BOOLEAN
  /\ Sweeper => Backend = "postgres"    \* the standalone coordinator opens no SQLite file
  /\ Retention \in Nat
  /\ Removable \subseteq Devices

TypeOK == StoreTypeOK /\ VerifyTypeOK

Init == StoreInit /\ VerifyInit

Tick ==
  /\ now < MaxClock
  /\ now' = now + 1
  /\ UNCHANGED <<devices, numbers, sessions, events, blocks, verifyVars>>

Provision ==
  /\ \/ \E d \in Devices : CreateDevice(d) \/ SetHeartbeat(d)
     \/ \E n \in Numbers : CreateNumber(n)
  /\ UNCHANGED verifyVars

RemoveDevice ==
  /\ \E d \in Removable : DeleteDevice(d)
  /\ UNCHANGED verifyVars

Sweep ==
  /\ Sweeper
  /\ ExpireDue
  /\ UNCHANGED verifyVars

Prune ==
  /\ Sweeper /\ Retention > 0
  /\ DeleteInboundEventsBefore(now - Retention)
  /\ UNCHANGED verifyVars

Next == VerifyNext \/ Tick \/ Provision \/ RemoveDevice \/ Sweep \/ Prune

Spec == Init /\ [][Next]_vars

\* Handlers run to their end, time passes, and the ticker of the background loop keeps firing.
\* Users, receivers and operators owe nothing.
Fairness ==
  /\ \A c \in Calls : WF_vars(StartStep(c))
  /\ \A r \in Reports : WF_vars(InboundStep(r))
  /\ WF_vars(Tick)
  /\ WF_vars(Sweep)

FairSpec == Spec /\ Fairness

-----------------------------------------------------------------------------
(* Safety *)

\* What report r saw before it verified session c: a live session on a number its
\* own device holds, asked for by this very signal, and open to this sender.
Proves(r, c) ==
  LET sig == reports[r].sig
      row == sessions[c]
      n   == reports[r].number
  IN /\ row.verified = sig.sender
     /\ row.binding = "claim" => row.claimed = sig.sender
     /\ Fleet[n].line = sig.line /\ Fleet[n].device = sig.device
     /\ row.number \in {n, None}
     /\ \/ row.channel = "sms" /\ sig.type = "sms" /\ row.code = sig.body
        \/ row.channel = "dtmf" /\ sig.type = "call" /\ row.code = sig.body
        \/ row.channel = "call" /\ sig.type = "call" /\ sig.body = Blank /\ row.claimed = sig.sender
     /\ row.expires - TTL <= reports[r].found /\ reports[r].found < row.expires

Winners(c) == {r \in Reports : reports[r].won /\ reports[r].session = c}

\* A session is verified only by a report that proves it: the right code or caller on
\* the right line, reported by the device that holds the line, seen before the deadline
\* (matchSession, the claim check and VerifySession run as separate steps).
Provenance ==
  \A c \in Calls : sessions[c].status = "verified" => \E r \in Winners(c) : Proves(r, c)

\* A session is used once: whatever reports race for it, duplicate or overlap its expiry,
\* one wins, the application is told at most once and only of a verified session, and at
\* most one audit row names the session, with the sender it was verified for.
SingleUse ==
  \A c \in Calls :
    LET rows == {r \in Reports : events[r].recorded /\ events[r].matched = c} IN
    /\ \A r, s \in Winners(c) : r = s
    /\ \A r, s \in rows : r = s
    /\ notified[c] <= 1
    /\ notified[c] = 1 \/ rows # {} => sessions[c].status = "verified"
    /\ \A r \in rows : events[r].sender = sessions[c].verified

Live(c) == Pending(c) /\ sessions[c].expires > now

\* The signal the instructions of session c ask its user for, sent by `sender'.
AskedFor(c, sender) ==
  [type |-> IF sessions[c].channel = "sms" THEN "sms" ELSE "call", sender |-> sender,
   body |-> IF sessions[c].channel = "call" THEN Blank ELSE sessions[c].code]

\* While a session is live on an enrolled line the signal its instructions ask for matches
\* that session and no other (migrations/0001_init.sql: "inbound signals match exactly one
\* live session"), though codes are drawn blindly and sessions on a line come and go; unless
\* its code is one extractCode does not see, which no code_len rules out: then it matches none.
InstructionsWork ==
  \A c \in Calls : \A sender \in Senders :
    Live(c) /\ sessions[c].number # None /\ numbers[sessions[c].number] = "present"
       /\ (sessions[c].channel = "call" => sender = sessions[c].claimed)
    => MatchSession(sessions[c].number, AskedFor(c, sender)) =
         IF sessions[c].channel = "call" \/ Digits[sessions[c].code] \in 4..12 THEN {c} ELSE {}

\* A SIM carries one voice verification at a time, although PickNumber and CreateSession
\* are separate statements (CHANGELOG: "at most one pending call/DTMF verification per number").
OneVoicePerLine ==
  \A n \in Numbers : \A c, d \in VoicePendingOn(n) : c = d

\* Nobody is blocked who did not earn it: a block's target made FailThreshold unmatched
\* reports or FloodThreshold reports in all, counting each report once though its own
\* row is written only after maybeBlock counted.
BlocksEarned ==
  \A b \in blocks :
    LET made == {r \in Reports : reports[r].pc # "idle" /\ reports[r].sig.sender = b.target
                                 /\ reports[r].number # None}
    IN \/ Cardinality({r \in made : reports[r].outcome # "matched"}) >= FailThreshold
       \/ Cardinality(made) >= FloodThreshold

\* The sessions of this database keep the promises of SessionLifecycle.
Lifecycle == INSTANCE SessionLifecycle WITH
  Sessions <- Calls,
  phase    <- [c \in Calls |-> sessions[c].status],
  claim    <- [c \in Calls |-> IF sessions[c].binding = "claim" THEN sessions[c].claimed ELSE None],
  deadline <- [c \in Calls |-> sessions[c].expires],
  owner    <- [c \in Calls |-> sessions[c].verified],
  told     <- notified

\* Every step of every handler, sweep and operator command is a step of SessionLifecycle or
\* changes nothing in it: pending, then verified once by an entitled number or expired.
SessionsKeepPromises == Lifecycle!Spec

-----------------------------------------------------------------------------
(* Liveness *)

\* A call of Start is answered: the attempts are bounded, whatever other calls take away.
StartsAnswered == \A c \in Calls : calls[c].pc # "idle" ~> calls[c].pc = "done"

\* A session leaves `pending' (README.md: "`pending` -> `verified` / `expired`").
PendingResolved == \A c \in Calls : Pending(c) ~> ~Pending(c)

\* The application is told of a verification (Faults = FALSE: a crash between the two loses it).
VerifiedIsTold == \A c \in Calls : sessions[c].status = "verified" ~> notified[c] = 1

-----------------------------------------------------------------------------
(* What the documents say and the code does not do *)

\* store.go: DefaultMaxPendingPerNumber "caps how many pending sessions a single number may hold".
CapHeld == \A n \in Numbers : Cardinality(PendingOn(n)) <= MaxPending

\* service.go: BusyError means "online voice numbers exist but all are mid-verification":
\* nobody is told so before any voice session was ever created.
BusyMeansVoice ==
  (\E c \in Calls : calls[c].result = "busy") =>
     \E c \in Calls : sessions[c].status # "none" /\ sessions[c].channel \in VoiceChannels

\* docs/channels.md: under claim binding "the inbound sender must equal it, or the session
\* fails": once a wrong sender has answered it, a session is not verified.
MismatchFailsSession ==
  [][\A c \in Calls : Pending(c) /\ sessions[c].attempts > 0
                        => sessions'[c].status # "verified"]_vars
=============================================================================
