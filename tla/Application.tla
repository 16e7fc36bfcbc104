---------------------------- MODULE Application ----------------------------
(***************************************************************************)
(* The application's side of a verification: a widget that starts it and   *)
(* polls its status, and the webhook that announces it, around a           *)
(* coordinator that is known by the life of its sessions only              *)
(* (SessionLifecycle, which Coordinator implements).  The application's    *)
(* backend hands the widget's requests on to the API of the standalone     *)
(* coordinator (api/dev.go); the embedded engine's Start and Status have   *)
(* the same effect on sessions and page.                                   *)
(***************************************************************************)
EXTENDS Integers, Sequences, FiniteSets

CONSTANTS
  Sessions, Numbers, None,
  WebhookURL, MaxAttempts,
  MaxLosses     \* bound on requests that fail and deaths of the coordinator, together

ASSUME ApplicationAssumption ==
  /\ Sessions \subseteq Nat /\ None \notin Sessions \cup Numbers
  /\ WebhookURL \in BOOLEAN /\ MaxAttempts \in Nat \ {0} /\ MaxLosses \in Nat

VARIABLES
  now, phase, claim, deadline, owner, told,                 \* SessionLifecycle
  delivery, heard,                                          \* Webhook
  state, sid, screen, asked, opened, polls, timers, handle, stopped, reported,   \* Widget
  losses

lifecycleVars == <<now, phase, claim, deadline, owner, told>>
hookVars      == <<delivery, heard>>
pageVars      == <<state, sid, screen, asked, opened, polls, timers, handle, stopped, reported>>
appVars       == <<lifecycleVars, hookVars, pageVars, losses>>

Coordinator == INSTANCE SessionLifecycle WITH Senders <- Numbers
Hook        == INSTANCE Webhook
Page        == INSTANCE Widget

AppTypeOK == Hook!WebhookTypeOK /\ Page!WidgetTypeOK /\ losses \in 0..MaxLosses

AppInit == Coordinator!Init /\ Hook!WebhookInit /\ Page!WidgetInit /\ losses = 0

Loss == losses < MaxLosses /\ losses' = losses + 1

-----------------------------------------------------------------------------
\* POST /v1/verifications opens a session; its deadline may come at any time.
Start ==
  \E s \in Sessions :
    /\ \A r \in Sessions : phase[r] = "none" <=> r >= s
    /\ claim' = [claim EXCEPT ![s] = None] /\ deadline' = [deadline EXCEPT ![s] = now]
    /\ Coordinator!Open(s)
    /\ Page!StartProcessed(s)
    /\ UNCHANGED <<hookVars, losses>>

\* GET /v1/verifications/{id} reads the row.
Status ==
  \E i \in DOMAIN polls :
    /\ Page!PollProcessed(i, phase[polls[i].of], owner[polls[i].of])
    /\ UNCHANGED <<lifecycleVars, hookVars, losses>>

\* A report verifies a session, a sweep expires one.
Outcome(s) ==
  /\ (\E n \in Numbers : Coordinator!Verify(s, n)) \/ Coordinator!Expire({s})
  /\ UNCHANGED <<hookVars, pageVars, losses>>

\* Inbound calls the notifier with the session it verified.
Announce(s) ==
  /\ Coordinator!Tell(s)
  /\ Hook!Fire(s, owner[s])
  /\ UNCHANGED <<pageVars, losses>>

Deliver(s) ==
  /\ \/ Hook!Delivered(s) /\ UNCHANGED losses
     \/ Hook!Failed(s) /\ Loss
  /\ UNCHANGED <<lifecycleVars, pageVars>>

Die ==
  /\ Hook!SenderDies /\ Loss
  /\ UNCHANGED <<lifecycleVars, pageVars>>

\* The user starts as often as there are sessions left in Sessions.
Buttons ==
  \/ Page!Choose /\ asked < Cardinality({s \in Sessions : phase[s] = "none"})
  \/ Page!StartOver \/ Page!Stop

Answers ==
  \/ \E s \in Sessions : Page!StartAnswered(s)
  \/ \E i \in DOMAIN polls : Page!PollAnswered(i)

Failures ==
  /\ Page!StartFailed \/ \E i \in DOMAIN polls : Page!PollFailed(i)
  /\ Loss
  /\ UNCHANGED <<lifecycleVars, hookVars>>

Browser ==
  /\ Buttons \/ Page!Poll \/ Answers
  /\ UNCHANGED <<lifecycleVars, hookVars, losses>>

AppNext ==
  \/ Start \/ Status \/ Browser \/ Failures \/ Die
  \/ \E s \in Sessions : Outcome(s) \/ Announce(s) \/ Deliver(s)

AppSpec == AppInit /\ [][AppNext]_appVars

Requests ==
  \/ Start \/ Status
  \/ (Page!Poll \/ Answers) /\ UNCHANGED <<lifecycleVars, hookVars, losses>>

\* The timer fires and requests that do not fail are answered; nobody has to press a button,
\* and nothing is asked of the coordinator's sessions.
AppFairness == WF_appVars(Requests)

FairAppSpec == AppSpec /\ AppFairness

-----------------------------------------------------------------------------
\* The page reports one outcome of a session, once, and it is the one the coordinator settled on
\* for the number it names: although answers to polls and starts arrive after the user has
\* started over, and intervals that nobody can clear go on polling.
OutcomeOnce ==
  \A s \in Sessions :
    /\ Len(reported[s]) <= 1
    /\ \A i \in DOMAIN reported[s] :
         /\ reported[s][i].what = phase[s]
         /\ reported[s][i].what = "verified" => reported[s][i].number = owner[s]

\* The application hears of no session but a verified one, with the number it was verified for,
\* at most MaxAttempts times; a delivery that ended well was heard (webhook.go deliver).
HeardIsTrue ==
  \A s \in Sessions :
    /\ heard[s].posts <= MaxAttempts
    /\ heard[s].posts > 0 => phase[s] = "verified" /\ heard[s].numbers = {owner[s]}
    /\ delivery[s].st = "delivered" => heard[s].posts > 0

\* The verified result stays on the page until an answer to a start arrives that was under way
\* when it came: with none, neither a late poll nor a timer replaces it.
VerifiedStays ==
  [][screen = "verified" /\ asked = 0 /\ opened = {} => screen' = "verified"]_appVars

\* A page that waits never waits for nothing: behind "starting" a start is under way, behind the
\* instructions a pending session is polled; although answers of starts that were left behind and
\* of late polls change the state under the screen, and a start over resets both (index.ts begin,
\* switchChannel, restart; controller.ts begin, reset).
WaitIsServed ==
  ~stopped =>
    /\ screen = "starting" => asked > 0 \/ opened # {}
    /\ screen = "instructions" => state = "pending" /\ timers > 0

\* If the coordinator leaves no session pending (PendingResolved of Coordinator, which the
\* standalone one keeps and the embedded one does not), a page does not wait for ever, but gets
\* to an end or is left: polling goes on until the session is settled, whatever requests fail
\* and however many starts and intervals the user has left behind.
PageSettles ==
  <>[](\A s \in Sessions : phase[s] # "pending")
    => []<>(stopped \/ screen \notin {"starting", "instructions"})
=============================================================================
