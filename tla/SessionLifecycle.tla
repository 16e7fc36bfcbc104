-------------------------- MODULE SessionLifecycle --------------------------
(***************************************************************************)
(* What a verification session promises the application, with no devices,  *)
(* codes or handlers in sight: it is opened once, with a claimed number or *)
(* none; while it is pending it is verified by one number, the claimed one *)
(* if there is a claim, or it expires, never before its deadline; and the  *)
(* application is told of a verification at most once.                     *)
(***************************************************************************)
EXTENDS Integers

CONSTANTS Sessions, Senders, None

VARIABLES
  now,
  phase,     \* what the application reads as the session's status
  claim,     \* the only sender that may verify the session, None for any
  deadline,
  owner,     \* the number the session was verified for
  told       \* how often the application was notified

lifecycleVars == <<now, phase, claim, deadline, owner, told>>

Init ==
  /\ now = 0
  /\ phase = [s \in Sessions |-> "none"]
  /\ claim = [s \in Sessions |-> None]
  /\ deadline = [s \in Sessions |-> 0]
  /\ owner = [s \in Sessions |-> None]
  /\ told = [s \in Sessions |-> 0]

Open(s) ==
  /\ phase[s] = "none"
  /\ phase' = [phase EXCEPT ![s] = "pending"]
  /\ claim'[s] \in Senders \cup {None} /\ claim' = [claim EXCEPT ![s] = claim'[s]]
  /\ deadline'[s] \in Nat /\ deadline' = [deadline EXCEPT ![s] = deadline'[s]]
  /\ UNCHANGED <<now, owner, told>>

Verify(s, sender) ==
  /\ phase[s] = "pending"
  /\ claim[s] \in {None, sender}
  /\ phase' = [phase EXCEPT ![s] = "verified"]
  /\ owner' = [owner EXCEPT ![s] = sender]
  /\ UNCHANGED <<now, claim, deadline, told>>

Expire(due) ==
  /\ \A s \in due : phase[s] = "pending" /\ deadline[s] <= now
  /\ phase' = [s \in Sessions |-> IF s \in due THEN "expired" ELSE phase[s]]
  /\ UNCHANGED <<now, claim, deadline, owner, told>>

Tell(s) ==
  /\ phase[s] = "verified"
  /\ told[s] = 0
  /\ told' = [told EXCEPT ![s] = 1]
  /\ UNCHANGED <<now, phase, claim, deadline, owner>>

TimePasses ==
  /\ now' = now + 1
  /\ UNCHANGED <<phase, claim, deadline, owner, told>>

Next ==
  \/ \E s \in Sessions : Open(s) \/ Tell(s)
  \/ \E s \in Sessions, sender \in Senders : Verify(s, sender)
  \/ \E due \in SUBSET Sessions : Expire(due)
  \/ TimePasses

Spec == Init /\ [][Next]_lifecycleVars
=============================================================================
