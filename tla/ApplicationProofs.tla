------------------------- MODULE ApplicationProofs -------------------------
(***************************************************************************)
(* What holds of the application's side for any number of sessions,        *)
(* requests, losses and attempts: the page reports one true outcome of a   *)
(* session, a verified page stays, a page that waits waits for something,  *)
(* and the webhook tells the truth.                                        *)
(***************************************************************************)
EXTENDS Application, TLAPS

-----------------------------------------------------------------------------
(* The page: a session is reported once, and what is on the way about it is true *)

Phases == {"none", "pending", "verified", "expired"}
PollRow == [of : Sessions, status : Phases, number : Numbers \cup {None}]

\* The session of a poll in flight was opened, its start is answered, nothing is reported of it;
\* an outcome that the poll brings is the session's.
PollTrue(p) ==
  /\ phase[p.of] # "none" /\ p.of \notin opened /\ reported[p.of] = <<>>
  /\ p.status \in {"verified", "expired"} => phase[p.of] = p.status
  /\ p.status = "verified" => p.number = owner[p.of]

\* An outcome that was reported is the session's, and the page is through with it.
OutcomeTrue(s, o) ==
  /\ o.what \in {"verified", "expired"} /\ o.what = phase[s]
  /\ o.what = "verified" => o.number = owner[s]
  /\ s \notin opened
  /\ ~(state = "pending" /\ sid = s)

SessionTrue(s) ==
  /\ phase[s] = "none" => s \notin opened /\ sid # s
  /\ sid = s => s \notin opened
  /\ \/ reported[s] = <<>>
     \/ \E o : reported[s] = <<o>> /\ OutcomeTrue(s, o)

PageInv ==
  /\ phase \in [Sessions -> Phases] /\ owner \in [Sessions -> Numbers \cup {None}]
  /\ opened \subseteq Sessions /\ sid \in Sessions \cup {None}
  /\ DOMAIN reported = Sessions /\ reported = [s \in Sessions |-> reported[s]]
  /\ polls = <<>> \/ \E p \in PollRow : polls = <<p>> /\ PollTrue(p)
  /\ \A s \in Sessions : SessionTrue(s)
  /\ state = "pending" => sid # None

LEMMA OneLeft ==
  ASSUME NEW p
  PROVE  Page!RemoveAt(<<p>>, 1) = <<>>
BY DEF Page!RemoveAt

LEMMA PageInvInit == AppInit => PageInv
<1> SUFFICES ASSUME AppInit PROVE PageInv
  OBVIOUS
<1>1. /\ phase = [s \in Sessions |-> "none"] /\ owner = [s \in Sessions |-> None]
      /\ state = "idle" /\ sid = None /\ opened = {} /\ polls = <<>>
      /\ reported = [s \in Sessions |-> <<>>]
  BY DEF AppInit, Coordinator!Init, Page!WidgetInit
<1>2. \A s \in Sessions : SessionTrue(s)
  BY <1>1, ApplicationAssumption DEF SessionTrue
<1> QED BY <1>1, <1>2 DEF PageInv, Phases

\* What the page's buttons and the coordinator's clock leave alone.
LEMMA PageStays ==
  ASSUME PageInv, UNCHANGED <<phase, owner, opened, reported>>,
         polls' = polls \/ polls' = <<>>,
         \/ sid' = sid /\ (state' = state \/ state' # "pending")
         \/ sid' = None /\ state' # "pending"
  PROVE  PageInv'
<1>1. ASSUME NEW s \in Sessions PROVE SessionTrue(s)'
  <2>1. SessionTrue(s) /\ s # None
    BY ApplicationAssumption DEF PageInv
  <2>2. CASE reported[s] = <<>>
    BY <2>1, <2>2 DEF SessionTrue
  <2>3. CASE reported[s] # <<>>
    <3>1. PICK o : reported[s] = <<o>> /\ OutcomeTrue(s, o)
      BY <2>1, <2>3 DEF SessionTrue
    <3>2. OutcomeTrue(s, o)'
      BY <3>1, <2>1 DEF OutcomeTrue
    <3> QED BY <2>1, <3>1, <3>2 DEF SessionTrue
  <2> QED BY <2>2, <2>3
<1>2. polls' = <<>> \/ \E p \in PollRow : polls' = <<p>> /\ PollTrue(p)'
  BY DEF PageInv, PollTrue
<1> QED BY <1>1, <1>2 DEF PageInv

LEMMA StartKeeps ==
  ASSUME PageInv, Start
  PROVE  PageInv'
<1>1. PICK n \in Sessions : /\ phase[n] = "none"
                            /\ phase' = [phase EXCEPT ![n] = "pending"]
                            /\ opened' = opened \cup {n}
                            /\ UNCHANGED <<owner, state, sid, polls, reported>>
  BY DEF Start, Coordinator!Open, Page!StartProcessed
<1>2. ASSUME NEW s \in Sessions PROVE SessionTrue(s)'
  <2>0. SessionTrue(s)
    BY DEF PageInv
  <2>1. CASE s = n
    <3>1. sid # s /\ s \notin opened /\ reported[s] = <<>> /\ phase'[s] = "pending"
      BY <1>1, <2>0, <2>1 DEF SessionTrue, OutcomeTrue, PageInv
    <3> QED BY <1>1, <2>1, <3>1 DEF SessionTrue
  <2>2. CASE s # n
    <3>1. phase'[s] = phase[s] /\ (s \in opened' <=> s \in opened)
      BY <1>1, <2>2 DEF PageInv
    <3> QED BY <1>1, <2>0, <3>1 DEF SessionTrue, OutcomeTrue
  <2> QED BY <2>1, <2>2
<1>3. polls' = <<>> \/ \E p \in PollRow : polls' = <<p>> /\ PollTrue(p)'
  <2>1. ASSUME NEW p \in PollRow, PollTrue(p) PROVE PollTrue(p)'
    <3>1. p.of \in Sessions /\ p.of # n
      BY <1>1, <2>1 DEF PollRow, PollTrue
    <3>2. phase'[p.of] = phase[p.of] /\ (p.of \in opened' <=> p.of \in opened)
      BY <1>1, <3>1 DEF PageInv
    <3> QED BY <1>1, <2>1, <3>2 DEF PollTrue
  <2> QED BY <1>1, <2>1 DEF PageInv
<1>4. phase' \in [Sessions -> Phases]
  BY <1>1 DEF PageInv, Phases
<1> QED BY <1>1, <1>2, <1>3, <1>4 DEF PageInv

\* A pending session gets its outcome: nothing was reported of it, nor is on the way.
LEMMA OutcomeKeeps ==
  ASSUME PageInv, NEW n \in Sessions, Outcome(n)
  PROVE  PageInv'
<1>0. UNCHANGED <<state, sid, opened, polls, reported>>
  BY DEF Outcome, pageVars
<1>1. /\ phase' \in [Sessions -> Phases] /\ owner' \in [Sessions -> Numbers \cup {None}]
      /\ \A s \in Sessions : \/ phase'[s] = phase[s] /\ owner'[s] = owner[s]
                             \/ phase[s] = "pending" /\ phase'[s] # "none"
  <2>1. CASE Coordinator!Expire({n})
    BY <2>1 DEF Coordinator!Expire, PageInv, Phases
  <2>2. CASE \E m \in Numbers : Coordinator!Verify(n, m)
    <3>1. PICK m \in Numbers : /\ phase[n] = "pending"
                               /\ phase' = [phase EXCEPT ![n] = "verified"]
                               /\ owner' = [owner EXCEPT ![n] = m]
      BY <2>2 DEF Coordinator!Verify
    <3> QED BY <3>1 DEF PageInv, Phases
  <2> QED BY <2>1, <2>2 DEF Outcome
<1>2. ASSUME NEW s \in Sessions PROVE SessionTrue(s)'
  <2>0. SessionTrue(s)
    BY DEF PageInv
  <2>1. CASE phase'[s] = phase[s] /\ owner'[s] = owner[s]
    BY <1>0, <2>0, <2>1 DEF SessionTrue, OutcomeTrue
  <2>2. CASE phase[s] = "pending" /\ phase'[s] # "none"
    <3>1. reported[s] = <<>>
      BY <2>0, <2>2 DEF SessionTrue, OutcomeTrue
    <3> QED BY <1>0, <2>0, <2>2, <3>1 DEF SessionTrue
  <2> QED BY <1>1, <2>1, <2>2
<1>3. ASSUME NEW p \in PollRow, PollTrue(p) PROVE PollTrue(p)'
  <2>1. p.of \in Sessions
    BY DEF PollRow
  <2>2. CASE phase'[p.of] = phase[p.of] /\ owner'[p.of] = owner[p.of]
    BY <1>0, <1>3, <2>2 DEF PollTrue
  <2>3. CASE phase[p.of] = "pending" /\ phase'[p.of] # "none"
    BY <1>0, <1>3, <2>3 DEF PollTrue
  <2> QED BY <1>1, <2>1, <2>2, <2>3
<1> QED BY <1>0, <1>1, <1>2, <1>3 DEF PageInv

LEMMA StatusKeeps ==
  ASSUME PageInv, Status
  PROVE  PageInv'
<1>1. PICK p \in PollRow : polls = <<p>> /\ PollTrue(p)
  BY DEF Status, PageInv
<1>2. /\ UNCHANGED <<phase, owner, state, sid, opened, reported>>
      /\ p.status = "none"
      /\ polls' = [polls EXCEPT ![1].status = phase[p.of], ![1].number = owner[p.of]]
  <2>1. PICK i \in DOMAIN polls :
          Page!PollProcessed(i, phase[polls[i].of], owner[polls[i].of]) /\ UNCHANGED lifecycleVars
    BY DEF Status
  <2>2. i = 1 /\ polls[i] = p
    BY <1>1
  <2>3. Page!PollProcessed(1, phase[p.of], owner[p.of])
    BY <2>1, <2>2
  <2> QED BY <1>1, <2>1, <2>3 DEF Page!PollProcessed, lifecycleVars
<1>3. PICK q : q = [p EXCEPT !.status = phase[p.of], !.number = owner[p.of]]
  OBVIOUS
<1>4. polls' = <<q>>
  BY <1>1, <1>2, <1>3
<1>5. phase[p.of] \in Phases /\ owner[p.of] \in Numbers \cup {None} /\ p.of \in Sessions
  BY DEF PageInv, PollRow
<1>6. q \in PollRow /\ q.of = p.of /\ q.status = phase[p.of] /\ q.number = owner[p.of]
  BY <1>3, <1>5 DEF PollRow
<1>7. PollTrue(q)'
  BY <1>1, <1>2, <1>6 DEF PollTrue
<1>8. \A s \in Sessions : SessionTrue(s)'
  BY <1>2 DEF PageInv, SessionTrue, OutcomeTrue
<1> QED BY <1>2, <1>4, <1>6, <1>7, <1>8 DEF PageInv

LEMMA StartAnsweredKeeps ==
  ASSUME PageInv, NEW n \in Sessions, Page!StartAnswered(n), UNCHANGED lifecycleVars
  PROVE  PageInv'
<1>1. /\ UNCHANGED <<phase, owner, polls, reported>>
      /\ n \in opened /\ opened' = opened \ {n} /\ state' = "pending" /\ sid' = n
  BY DEF Page!StartAnswered, lifecycleVars
<1>2. ASSUME NEW s \in Sessions PROVE SessionTrue(s)'
  <2>0. SessionTrue(s) /\ SessionTrue(n)
    BY DEF PageInv
  <2>1. CASE s = n
    <3>1. phase[s] # "none" /\ reported[s] = <<>>
      BY <1>1, <2>0, <2>1 DEF SessionTrue, OutcomeTrue
    <3> QED BY <1>1, <2>1, <3>1 DEF SessionTrue
  <2>2. CASE s # n
    BY <1>1, <2>0, <2>2 DEF SessionTrue, OutcomeTrue
  <2> QED BY <2>1, <2>2
<1>3. polls' = <<>> \/ \E p \in PollRow : polls' = <<p>> /\ PollTrue(p)'
  BY <1>1 DEF PageInv, PollTrue
<1>4. n # None
  BY ApplicationAssumption
<1> QED BY <1>1, <1>2, <1>3, <1>4 DEF PageInv

LEMMA StartFailedKeeps ==
  ASSUME PageInv, Page!StartFailed, UNCHANGED lifecycleVars
  PROVE  PageInv'
<1>1. /\ UNCHANGED <<phase, owner, polls, reported, sid>>
      /\ opened' \subseteq opened /\ state' = "error"
  BY DEF Page!StartFailed, lifecycleVars
<1>2. ASSUME NEW s \in Sessions PROVE SessionTrue(s)'
  <2>0. SessionTrue(s)
    BY DEF PageInv
  <2>1. CASE reported[s] = <<>>
    BY <1>1, <2>0, <2>1 DEF SessionTrue
  <2>2. CASE reported[s] # <<>>
    <3>1. PICK o : reported[s] = <<o>> /\ OutcomeTrue(s, o)
      BY <2>0, <2>2 DEF SessionTrue
    <3>2. OutcomeTrue(s, o)'
      BY <1>1, <3>1 DEF OutcomeTrue
    <3> QED BY <1>1, <2>0, <3>1, <3>2 DEF SessionTrue
  <2> QED BY <2>1, <2>2
<1>3. polls' = <<>> \/ \E p \in PollRow : polls' = <<p>> /\ PollTrue(p)'
  BY <1>1 DEF PageInv, PollTrue
<1> QED BY <1>1, <1>2, <1>3 DEF PageInv

LEMMA PollKeeps ==
  ASSUME PageInv, Page!Poll, UNCHANGED lifecycleVars
  PROVE  PageInv'
<1>1. /\ UNCHANGED <<phase, owner, state, sid, opened, reported>>
      /\ state = "pending" /\ polls' = <<Page!PollOf(sid)>>
  BY DEF Page!Poll, lifecycleVars
<1>2. sid \in Sessions /\ SessionTrue(sid)
  BY <1>1 DEF PageInv
<1>3. PICK p : p = Page!PollOf(sid)
  OBVIOUS
<1>4. p \in PollRow /\ p.of = sid /\ p.status = "none"
  BY <1>2, <1>3 DEF Page!PollOf, PollRow, Phases
<1>5. phase[sid] # "none" /\ sid \notin opened /\ reported[sid] = <<>>
  BY <1>1, <1>2 DEF SessionTrue, OutcomeTrue
<1>6. PollTrue(p)'
  BY <1>1, <1>4, <1>5 DEF PollTrue
<1>7. \A s \in Sessions : SessionTrue(s)'
  BY <1>1 DEF PageInv, SessionTrue, OutcomeTrue
<1> QED BY <1>1, <1>3, <1>4, <1>6, <1>7 DEF PageInv

\* The one poll in flight comes back: with no outcome, or with the one of its session, of which
\* nothing was reported.
LEMMA PollAnsweredKeeps ==
  ASSUME PageInv, NEW i \in DOMAIN polls, Page!PollAnswered(i), UNCHANGED lifecycleVars
  PROVE  PageInv'
<1>1. PICK p \in PollRow : polls = <<p>> /\ PollTrue(p) /\ i = 1 /\ p.status # "none"
  BY DEF PageInv, Page!PollAnswered
<1>2. /\ UNCHANGED <<phase, owner, sid, opened>>
      /\ polls' = Page!RemoveAt(polls, 1)
  BY <1>1 DEF Page!PollAnswered, lifecycleVars
<1>3. polls' = <<>>
  BY <1>1, <1>2, OneLeft
<1>4. CASE p.status = "pending"
  <2>1. UNCHANGED <<state, reported>>
    BY <1>1, <1>4 DEF Page!PollAnswered
  <2> QED BY <1>2, <1>3, <2>1, PageStays
<1>5. CASE p.status # "pending"
  <2>1. PICK s, o : /\ s \in Sessions /\ s = p.of
                     /\ o = [what |-> p.status, number |-> p.number]
    BY DEF PollRow
  <2>2. /\ o.what \in {"verified", "expired"} /\ o.what = phase[s]
        /\ o.what = "verified" => o.number = owner[s]
        /\ s \notin opened /\ reported[s] = <<>>
    BY <1>1, <1>5, <2>1 DEF PollTrue, PollRow, Phases
  <2>3. Page!Conclude(s, o)
    BY <1>1, <1>5, <2>1 DEF Page!PollAnswered
  <2>4. /\ state' = o.what
        /\ reported' = reported \/ reported' = [reported EXCEPT ![s] = Append(@, o)]
    BY <2>3 DEF Page!Conclude
  <2>5. state' # "pending"
    BY <2>2, <2>4
  <2>6. CASE reported' = reported
    BY <1>2, <1>3, <2>5, <2>6, PageStays
  <2>7. CASE reported' = [reported EXCEPT ![s] = Append(@, o)]
    <3>1. reported' = [reported EXCEPT ![s] = <<o>>]
      BY <2>2, <2>7 DEF PageInv
    <3>2. DOMAIN reported' = Sessions /\ reported' = [r \in Sessions |-> reported'[r]]
      BY <3>1 DEF PageInv
    <3>3. ASSUME NEW r \in Sessions PROVE SessionTrue(r)'
      <4>0. SessionTrue(r)
        BY DEF PageInv
      <4>1. CASE r = s
        <5>1. reported'[r] = <<o>>
          BY <3>1, <4>1 DEF PageInv
        <5>2. OutcomeTrue(r, o)'
          BY <1>2, <2>2, <2>5, <4>1 DEF OutcomeTrue
        <5> QED BY <1>2, <4>0, <5>1, <5>2 DEF SessionTrue
      <4>2. CASE r # s
        <5>1. reported'[r] = reported[r]
          BY <3>1, <4>2 DEF PageInv
        <5> QED BY <1>2, <2>5, <4>0, <5>1 DEF SessionTrue, OutcomeTrue
      <4> QED BY <4>1, <4>2
    <3> QED BY <1>2, <1>3, <2>5, <3>2, <3>3 DEF PageInv
  <2> QED BY <2>4, <2>6, <2>7
<1> QED BY <1>4, <1>5

LEMMA PollFailedKeeps ==
  ASSUME PageInv, NEW i \in DOMAIN polls, Page!PollFailed(i), UNCHANGED lifecycleVars
  PROVE  PageInv'
<1>1. PICK p \in PollRow : polls = <<p>> /\ i = 1
  BY DEF PageInv
<1>2. polls' = <<>>
  BY <1>1, OneLeft DEF Page!PollFailed
<1>3. UNCHANGED <<phase, owner, state, sid, opened, reported>>
  BY DEF Page!PollFailed, lifecycleVars
<1> QED BY <1>2, <1>3, PageStays

LEMMA ButtonsKeep ==
  ASSUME PageInv, Buttons, UNCHANGED lifecycleVars
  PROVE  PageInv'
<1>1. /\ UNCHANGED <<phase, owner, opened, reported, polls>>
      /\ (UNCHANGED <<state, sid>>) \/ (sid' = None /\ state' = "idle")
  BY DEF Buttons, Page!Choose, Page!StartOver, Page!Stop, Page!Reset, lifecycleVars
<1> QED BY <1>1, PageStays

LEMMA PageInvStep == PageInv /\ [AppNext]_appVars => PageInv'
<1> SUFFICES ASSUME PageInv, [AppNext]_appVars PROVE PageInv'
  OBVIOUS
<1>1. CASE UNCHANGED <<phase, owner, pageVars>>
  BY <1>1, PageStays DEF pageVars
<1>2. CASE Browser
  BY <1>2, ButtonsKeep, PollKeeps, StartAnsweredKeeps, PollAnsweredKeeps DEF Browser, Answers
<1>3. CASE Failures
  BY <1>3, StartFailedKeeps, PollFailedKeeps DEF Failures
<1>4. CASE Die
  BY <1>4, <1>1 DEF Die, lifecycleVars
<1>5. ASSUME NEW s \in Sessions, Outcome(s) \/ Announce(s) \/ Deliver(s) PROVE PageInv'
  <2>1. CASE Announce(s)
    BY <2>1, <1>1 DEF Announce, Coordinator!Tell
  <2>2. CASE Deliver(s)
    BY <2>2, <1>1 DEF Deliver, lifecycleVars
  <2> QED BY <1>5, <2>1, <2>2, OutcomeKeeps
<1>6. CASE UNCHANGED appVars
  BY <1>6, <1>1 DEF appVars, lifecycleVars
<1> QED BY <1>2, <1>3, <1>4, <1>5, <1>6, StartKeeps, StatusKeeps DEF AppNext

\* The page reports at most one outcome of a session, and it is the session's, with the number it
\* was verified for (controller.ts, index.ts).
THEOREM OutcomeReportedOnce == AppSpec => []OutcomeOnce
<1>1. PageInv => OutcomeOnce
  BY DEF PageInv, SessionTrue, OutcomeTrue, OutcomeOnce
<1> QED BY <1>1, PageInvInit, PageInvStep, PTL DEF AppSpec

-----------------------------------------------------------------------------
(* The webhook: what was heard of a session follows from its one delivery *)

DeliveryRow == [st : {"none", "trying", "delivered", "gave up", "died"},
                attempt : 0..MaxAttempts, number : Numbers \cup {None}]
HeardRow == [numbers : SUBSET Numbers, posts : Nat]

\* The delivery d and the posts h of a session in phase p, with owner o, told t times: a delivery
\* exists for a session that is told of only, and every post was one of its attempts.
HookTrue(d, h, p, o, t) ==
  /\ t = 0 => d.st = "none"
  /\ d.st = "none" => h.posts = 0
  /\ d.st # "none" => p = "verified" /\ d.number = o
  /\ h.posts <= d.attempt
  /\ d.st = "trying" => h.posts < d.attempt
  /\ d.st = "delivered" => h.posts > 0
  /\ h.posts = 0 => h.numbers = {}
  /\ h.posts > 0 => h.numbers = {o}

HookInv ==
  /\ phase \in [Sessions -> Phases] /\ owner \in [Sessions -> Numbers \cup {None}]
  /\ told \in [Sessions -> {0, 1}]
  /\ delivery \in [Sessions -> DeliveryRow] /\ heard \in [Sessions -> HeardRow]
  /\ \A s \in Sessions : phase[s] = "verified" => owner[s] \in Numbers
  /\ \A s \in Sessions : HookTrue(delivery[s], heard[s], phase[s], owner[s], told[s])

LEMMA HookInvInit == AppInit => HookInv
<1> SUFFICES ASSUME AppInit PROVE HookInv
  OBVIOUS
<1>1. /\ phase = [s \in Sessions |-> "none"] /\ owner = [s \in Sessions |-> None]
      /\ told = [s \in Sessions |-> 0]
      /\ delivery = [s \in Sessions |-> Hook!NotFired]
      /\ heard = [s \in Sessions |-> [numbers |-> {}, posts |-> 0]]
  BY DEF AppInit, Coordinator!Init, Hook!WebhookInit
<1>2. PICK d, h : d = Hook!NotFired /\ h = [numbers |-> {}, posts |-> 0]
  OBVIOUS
<1>3. d \in DeliveryRow /\ h \in HeardRow
  BY <1>2, ApplicationAssumption DEF Hook!NotFired, DeliveryRow, HeardRow
<1>4. d.st = "none" /\ d.attempt = 0 /\ h.posts = 0 /\ h.numbers = {}
  BY <1>2 DEF Hook!NotFired
<1>5. ASSUME NEW s \in Sessions PROVE HookTrue(delivery[s], heard[s], phase[s], owner[s], told[s])
  BY <1>1, <1>2, <1>4 DEF HookTrue
<1> QED BY <1>1, <1>2, <1>3, <1>5 DEF HookInv, Phases

\* An outcome comes to a session with no delivery.
LEMMA OutcomeKeepsHook ==
  ASSUME HookInv, NEW n \in Sessions, Outcome(n)
  PROVE  HookInv'
<1>0. UNCHANGED <<told, delivery, heard>>
  BY DEF Outcome, hookVars, Coordinator!Verify, Coordinator!Expire
<1>1. /\ phase' \in [Sessions -> Phases] /\ owner' \in [Sessions -> Numbers \cup {None}]
      /\ \A s \in Sessions : phase'[s] = "verified" => owner'[s] \in Numbers
      /\ \A s \in Sessions : \/ phase'[s] = phase[s] /\ owner'[s] = owner[s]
                             \/ phase[s] = "pending"
  <2>1. CASE Coordinator!Expire({n})
    BY <2>1 DEF Coordinator!Expire, HookInv, Phases
  <2>2. CASE \E m \in Numbers : Coordinator!Verify(n, m)
    <3>1. PICK m \in Numbers : /\ phase[n] = "pending"
                               /\ phase' = [phase EXCEPT ![n] = "verified"]
                               /\ owner' = [owner EXCEPT ![n] = m]
      BY <2>2 DEF Coordinator!Verify
    <3> QED BY <3>1 DEF HookInv, Phases
  <2> QED BY <2>1, <2>2 DEF Outcome
<1>2. ASSUME NEW s \in Sessions
      PROVE  HookTrue(delivery[s], heard[s], phase'[s], owner'[s], told[s])
  <2>1. HookTrue(delivery[s], heard[s], phase[s], owner[s], told[s])
    BY DEF HookInv
  <2>2. CASE phase[s] = "pending"
    <3>1. delivery[s].st = "none" /\ heard[s].posts = 0
      BY <2>1, <2>2 DEF HookTrue
    <3> QED BY <2>1, <3>1 DEF HookTrue
  <2> QED BY <1>1, <2>1, <2>2
<1> QED BY <1>0, <1>1, <1>2 DEF HookInv

LEMMA AnnounceKeepsHook ==
  ASSUME HookInv, NEW n \in Sessions, Announce(n)
  PROVE  HookInv'
<1>1. /\ phase[n] = "verified" /\ told[n] = 0 /\ told' = [told EXCEPT ![n] = 1]
      /\ UNCHANGED <<phase, owner, heard>>
      /\ \/ delivery' = delivery
         \/ delivery' = [delivery EXCEPT ![n] = [st |-> "trying", attempt |-> 1,
                                                 number |-> owner[n]]]
  BY DEF Announce, Coordinator!Tell, Hook!Fire
<1>2. HookTrue(delivery[n], heard[n], phase[n], owner[n], told[n])
  BY DEF HookInv
<1>3. told' \in [Sessions -> {0, 1}]
  BY <1>1 DEF HookInv
<1>4. CASE delivery' = delivery
  <2>1. \A s \in Sessions : HookTrue(delivery[s], heard[s], phase[s], owner[s], told'[s])
    BY <1>1 DEF HookInv, HookTrue
  <2> QED BY <1>1, <1>3, <1>4, <2>1 DEF HookInv
<1>5. CASE delivery' # delivery
  <2>1. PICK d : d = [st |-> "trying", attempt |-> 1, number |-> owner[n]]
    OBVIOUS
  <2>2. d.st = "trying" /\ d.attempt = 1 /\ d.number = owner[n] /\ d \in DeliveryRow
    <3>1. owner[n] \in Numbers \cup {None}
      BY DEF HookInv
    <3>2. 1 \in 0..MaxAttempts
      BY ApplicationAssumption
    <3> QED BY <2>1, <3>1, <3>2 DEF DeliveryRow
  <2>3. delivery' = [delivery EXCEPT ![n] = d]
    BY <1>1, <1>5, <2>1
  <2>4. heard[n].posts = 0 /\ heard[n].numbers = {}
    BY <1>1, <1>2 DEF HookTrue
  <2>5. HookTrue(d, heard[n], phase[n], owner[n], 1)
    BY <1>1, <2>2, <2>4 DEF HookTrue
  <2>6. /\ \A s \in Sessions : HookTrue(delivery'[s], heard[s], phase[s], owner[s], told'[s])
        /\ delivery' \in [Sessions -> DeliveryRow]
    BY <1>1, <2>2, <2>3, <2>5 DEF HookInv
  <2> QED BY <1>1, <1>3, <2>6 DEF HookInv
<1> QED BY <1>4, <1>5

\* One more attempt of a delivery: heard or not, answered well or not.
LEMMA DeliverKeepsHook ==
  ASSUME HookInv, NEW n \in Sessions, Deliver(n)
  PROVE  HookInv'
<1>1. PICK d, h : d = delivery[n] /\ h = heard[n]
  OBVIOUS
<1>2. /\ d.st = "trying" /\ UNCHANGED <<phase, owner, told>>
      /\ d \in DeliveryRow /\ h \in HeardRow /\ HookTrue(d, h, phase[n], owner[n], told[n])
  BY <1>1 DEF Deliver, Hook!Delivered, Hook!Failed, HookInv, lifecycleVars
<1>3. /\ d.attempt \in 1..MaxAttempts /\ h.posts \in Nat /\ h.posts < d.attempt /\ told[n] # 0
      /\ phase[n] = "verified" /\ d.number = owner[n] /\ owner[n] \in Numbers
  <2>1. d.attempt \in 0..MaxAttempts /\ h.posts \in Nat /\ h.posts < d.attempt
    BY <1>2 DEF HookTrue, DeliveryRow, HeardRow
  <2>2. d.attempt \in 1..MaxAttempts
    BY <2>1, ApplicationAssumption
  <2>3. told[n] # 0 /\ phase[n] = "verified" /\ d.number = owner[n]
    BY <1>2 DEF HookTrue
  <2> QED BY <2>1, <2>2, <2>3 DEF HookInv
<1>4. PICK g : g = [numbers |-> h.numbers \cup {d.number}, posts |-> h.posts + 1]
  OBVIOUS
<1>5. g.posts = h.posts + 1 /\ g.numbers = {owner[n]} /\ g \in HeardRow
  <2>1. h.numbers = {} \/ h.numbers = {owner[n]}
    BY <1>2, <1>3 DEF HookTrue
  <2> QED BY <1>3, <1>4, <2>1 DEF HeardRow
<1>6. PICK e, k : /\ e \in DeliveryRow /\ k \in {h, g}
                  /\ delivery' = [delivery EXCEPT ![n] = e] /\ heard' = [heard EXCEPT ![n] = k]
                  /\ e.number = d.number
                  /\ \/ e.st = "delivered" /\ k = g /\ e.attempt = d.attempt
                     \/ e.st = "trying" /\ e.attempt = d.attempt + 1
                     \/ e.st = "gave up" /\ e.attempt = d.attempt
  <2>1. CASE Hook!Delivered(n)
    <3>1. heard' = [heard EXCEPT ![n] = g]
      BY <1>1, <1>4, <2>1 DEF Hook!Delivered, Hook!Hear
    <3>2. PICK e : e = [d EXCEPT !.st = "delivered"]
      OBVIOUS
    <3>3. e \in DeliveryRow /\ e.st = "delivered" /\ e.attempt = d.attempt /\ e.number = d.number
      BY <1>2, <3>2 DEF DeliveryRow
    <3>4. delivery' = [delivery EXCEPT ![n] = e]
      BY <1>1, <2>1, <3>2 DEF Hook!Delivered
    <3> QED BY <3>1, <3>3, <3>4
  <2>2. CASE Hook!Failed(n)
    <3>1. PICK k \in {h, g} : heard' = [heard EXCEPT ![n] = k]
      <4>1. CASE Hook!Hear(n)
        BY <1>1, <1>4, <4>1 DEF Hook!Hear
      <4>2. CASE UNCHANGED heard
        BY <1>1, <4>2 DEF HookInv
      <4> QED BY <2>2, <4>1, <4>2 DEF Hook!Failed
    <3>2. PICK e : e = Hook!AfterFailure(d)
      OBVIOUS
    <3>3. delivery' = [delivery EXCEPT ![n] = e]
      BY <1>1, <2>2, <3>2 DEF Hook!Failed
    <3>4. CASE d.attempt < MaxAttempts
      <4>1. e = [d EXCEPT !.attempt = d.attempt + 1]
        BY <3>2, <3>4 DEF Hook!AfterFailure
      <4>2. d.attempt + 1 \in 0..MaxAttempts
        BY <1>3, <3>4, ApplicationAssumption
      <4>3. /\ e \in DeliveryRow /\ e.st = "trying" /\ e.attempt = d.attempt + 1
            /\ e.number = d.number
        BY <1>2, <4>1, <4>2 DEF DeliveryRow
      <4> QED BY <3>1, <3>3, <4>3
    <3>5. CASE ~(d.attempt < MaxAttempts)
      <4>1. e = [d EXCEPT !.st = "gave up"]
        BY <3>2, <3>5 DEF Hook!AfterFailure
      <4>2. e \in DeliveryRow /\ e.st = "gave up" /\ e.attempt = d.attempt /\ e.number = d.number
        BY <1>2, <4>1 DEF DeliveryRow
      <4> QED BY <3>1, <3>3, <4>2
    <3> QED BY <3>4, <3>5
  <2> QED BY <2>1, <2>2 DEF Deliver
<1>7. HookTrue(e, k, phase[n], owner[n], told[n])
  <2>0. k = h \/ k = g
    BY <1>6
  <2>1. k.posts \in Nat /\ k.posts <= d.attempt
    <3>1. CASE k = h
      BY <1>3, <3>1
    <3>2. CASE k = g
      BY <1>3, <1>5, <3>2
    <3> QED BY <2>0, <3>1, <3>2
  <2>2. (k.posts = 0 => k.numbers = {}) /\ (k.posts > 0 => k.numbers = {owner[n]})
    <3>1. CASE k = h
      BY <1>2, <3>1 DEF HookTrue
    <3>2. CASE k = g
      BY <1>3, <1>5, <3>2
    <3> QED BY <2>0, <3>1, <3>2
  <2>3. k = g => k.posts > 0
    BY <1>3, <1>5
  <2>4. e.st # "none" /\ k.posts <= e.attempt /\ (e.st = "trying" => k.posts < e.attempt)
    <3>1. CASE e.st = "trying"
      <4>1. e.attempt = d.attempt + 1
        BY <1>6, <3>1
      <4> QED BY <1>3, <2>1, <3>1, <4>1
    <3>2. CASE e.st \in {"delivered", "gave up"}
      <4>1. e.attempt = d.attempt
        BY <1>6, <3>2
      <4> QED BY <2>1, <3>2, <4>1
    <3> QED BY <1>6, <3>1, <3>2
  <2>5. e.st = "delivered" => k.posts > 0
    BY <1>6, <2>3
  <2> QED BY <1>3, <1>6, <2>2, <2>4, <2>5 DEF HookTrue
<1>8. /\ \A s \in Sessions : HookTrue(delivery'[s], heard'[s], phase[s], owner[s], told[s])
      /\ delivery' \in [Sessions -> DeliveryRow] /\ heard' \in [Sessions -> HeardRow]
  BY <1>2, <1>5, <1>6, <1>7 DEF HookInv
<1> QED BY <1>2, <1>8 DEF HookInv

LEMMA DieKeepsHook ==
  ASSUME HookInv, Die
  PROVE  HookInv'
<1>0. UNCHANGED <<phase, owner, told, heard>>
  BY DEF Die, Hook!SenderDies, lifecycleVars
<1>1. ASSUME NEW s \in Sessions
      PROVE  /\ delivery'[s] \in DeliveryRow
             /\ HookTrue(delivery'[s], heard[s], phase[s], owner[s], told[s])
  <2>1. PICK d, e : d = delivery[s] /\ e = delivery'[s]
    OBVIOUS
  <2>2. d \in DeliveryRow /\ HookTrue(d, heard[s], phase[s], owner[s], told[s])
    BY <2>1 DEF HookInv
  <2>3. e = IF d.st = "trying" THEN [d EXCEPT !.st = "died"] ELSE d
    BY <2>1 DEF Die, Hook!SenderDies
  <2>4. CASE d.st = "trying"
    <3>1. e \in DeliveryRow /\ e.st = "died" /\ e.attempt = d.attempt /\ e.number = d.number
      BY <2>2, <2>3, <2>4 DEF DeliveryRow
    <3> QED BY <2>1, <2>2, <2>4, <3>1 DEF HookTrue
  <2> QED BY <2>1, <2>2, <2>3, <2>4
<1>2. delivery' \in [Sessions -> DeliveryRow]
  BY <1>1 DEF Die, Hook!SenderDies
<1> QED BY <1>0, <1>1, <1>2 DEF HookInv

LEMMA HookInvStep == HookInv /\ [AppNext]_appVars => HookInv'
<1> SUFFICES ASSUME HookInv, [AppNext]_appVars PROVE HookInv'
  OBVIOUS
<1>1. CASE UNCHANGED <<phase, owner, told, delivery, heard>>
  BY <1>1 DEF HookInv
<1>2. CASE Status \/ Browser \/ Failures
  BY <1>1, <1>2 DEF Status, Browser, Failures, lifecycleVars, hookVars
<1>3. CASE Start
  <2>1. PICK n \in Sessions : /\ phase[n] = "none" /\ phase' = [phase EXCEPT ![n] = "pending"]
                              /\ UNCHANGED <<owner, told, delivery, heard>>
    BY <1>3 DEF Start, Coordinator!Open, hookVars
  <2>2. ASSUME NEW s \in Sessions
        PROVE  HookTrue(delivery[s], heard[s], phase'[s], owner[s], told[s])
    <3>1. HookTrue(delivery[s], heard[s], phase[s], owner[s], told[s])
      BY DEF HookInv
    <3>2. phase'[s] = phase[s] \/ phase[s] = "none"
      BY <2>1 DEF HookInv
    <3> QED BY <3>1, <3>2 DEF HookTrue
  <2>3. /\ phase' \in [Sessions -> Phases]
        /\ \A s \in Sessions : phase'[s] = "verified" => phase[s] = "verified"
    BY <2>1 DEF HookInv, Phases
  <2> QED BY <2>1, <2>2, <2>3 DEF HookInv
<1>4. CASE UNCHANGED appVars
  BY <1>1, <1>4 DEF appVars, lifecycleVars, hookVars
<1> QED BY <1>2, <1>3, <1>4, OutcomeKeepsHook, AnnounceKeepsHook, DeliverKeepsHook, DieKeepsHook
        DEF AppNext

\* The application hears of verified sessions only, with the number, at most MaxAttempts times
\* each, and a delivery that ended well was heard (webhook.go).
THEOREM WebhookTellsTruth == AppSpec => []HeardIsTrue
<1>1. HookInv => HeardIsTrue
  <2> SUFFICES ASSUME HookInv, NEW s \in Sessions
               PROVE  /\ heard[s].posts <= MaxAttempts
                      /\ heard[s].posts > 0
                           => phase[s] = "verified" /\ heard[s].numbers = {owner[s]}
                      /\ delivery[s].st = "delivered" => heard[s].posts > 0
    BY DEF HeardIsTrue
  <2>1. delivery[s] \in DeliveryRow /\ heard[s] \in HeardRow
        /\ HookTrue(delivery[s], heard[s], phase[s], owner[s], told[s])
    BY DEF HookInv
  <2>2. delivery[s].attempt \in 0..MaxAttempts /\ heard[s].posts \in Nat
    BY <2>1 DEF DeliveryRow, HeardRow
  <2> QED BY <2>1, <2>2, ApplicationAssumption DEF HookTrue
<1> QED BY <1>1, HookInvInit, HookInvStep, PTL DEF AppSpec

-----------------------------------------------------------------------------
(* The verified screen: nothing is polled behind it *)

QuietInv == screen = "verified" => polls = <<>> /\ (state = "pending" => stopped)

\* What a step does to the page when it shows a verified number.
LEMMA VerifiedQuiet ==
  ASSUME PageInv, QuietInv, [AppNext]_appVars, screen = "verified"
  PROVE  /\ QuietInv'
         /\ asked = 0 /\ opened = {} => screen' = "verified"
<1>0. polls = <<>> /\ (state = "pending" => stopped) /\ DOMAIN polls = {}
  BY DEF QuietInv
<1>1. CASE UNCHANGED pageVars
  BY <1>0, <1>1 DEF pageVars, QuietInv
<1>2. CASE Start
  BY <1>0, <1>2 DEF Start, Page!StartProcessed, QuietInv
<1>3. CASE Browser
  <2>1. CASE Buttons
    BY <1>0, <2>1 DEF Buttons, Page!Choose, Page!StartOver, Page!Stop, QuietInv
  <2>2. CASE Page!Poll
    BY <1>0, <2>2 DEF Page!Poll
  <2>3. ASSUME NEW s \in Sessions, Page!StartAnswered(s)
        PROVE  /\ QuietInv'
               /\ asked = 0 /\ opened = {} => screen' = "verified"
    BY <1>0, <2>3 DEF Page!StartAnswered, Page!Show, QuietInv
  <2> QED BY <1>0, <1>3, <2>1, <2>2, <2>3 DEF Browser, Answers
<1>4. CASE Failures
  <2>1. Page!StartFailed
    BY <1>0, <1>4 DEF Failures
  <2> QED BY <1>0, <2>1 DEF Page!StartFailed, Page!Show, QuietInv
<1>5. CASE Status
  BY <1>0, <1>5 DEF Status
<1>6. CASE Die
  BY <1>1, <1>6 DEF Die
<1>7. ASSUME NEW s \in Sessions, Outcome(s) \/ Announce(s) \/ Deliver(s) PROVE UNCHANGED pageVars
  BY <1>7 DEF Outcome, Announce, Deliver
<1>8. CASE UNCHANGED appVars
  BY <1>1, <1>8 DEF appVars
<1> QED BY <1>1, <1>2, <1>3, <1>4, <1>5, <1>6, <1>7, <1>8 DEF AppNext

\* The verified screen is drawn by the answer to the one poll in flight.
LEMMA VerifiedAppears ==
  ASSUME PageInv, [AppNext]_appVars, screen # "verified"
  PROVE  QuietInv'
<1> SUFFICES ASSUME screen' = "verified" PROVE polls' = <<>> /\ state' # "pending"
  BY DEF QuietInv
<1>1. ~UNCHANGED pageVars
  BY DEF pageVars
<1>2. ~Start /\ ~Status
  BY DEF Start, Status, Page!StartProcessed, Page!PollProcessed
<1>3. ~Buttons /\ ~Page!Poll
  BY DEF Buttons, Page!Choose, Page!StartOver, Page!Stop, Page!Poll
<1>4. ASSUME NEW s \in Sessions PROVE ~Page!StartAnswered(s)
  BY DEF Page!StartAnswered, Page!Show
<1>5. ~Failures
  <2>1. ~Page!StartFailed
    BY DEF Page!StartFailed, Page!Show
  <2>2. \A i \in DOMAIN polls : ~Page!PollFailed(i)
    BY DEF Page!PollFailed
  <2> QED BY <2>1, <2>2 DEF Failures
<1>6. ~Die /\ ~UNCHANGED appVars
  BY <1>1 DEF Die, appVars
<1>7. ASSUME NEW s \in Sessions PROVE ~(Outcome(s) \/ Announce(s) \/ Deliver(s))
  BY <1>1 DEF Outcome, Announce, Deliver
<1>8. PICK i \in DOMAIN polls : Page!PollAnswered(i)
  BY <1>2, <1>3, <1>4, <1>5, <1>6, <1>7 DEF AppNext, Browser, Answers
<1>9. PICK p \in PollRow : polls = <<p>> /\ i = 1
  BY DEF PageInv
<1>10. polls' = <<>>
  BY <1>8, <1>9, OneLeft DEF Page!PollAnswered
<1>11. p.status # "pending" /\ state' = p.status
  BY <1>8, <1>9 DEF Page!PollAnswered, Page!Conclude
<1> QED BY <1>10, <1>11

\* With no start under way, a page that shows a verified number keeps showing it (index.ts).
THEOREM VerifiedPageStays == AppSpec => VerifiedStays
<1>1. AppInit => QuietInv
  BY DEF AppInit, Page!WidgetInit, QuietInv
<1>2. PageInv /\ QuietInv /\ [AppNext]_appVars => QuietInv'
  BY VerifiedQuiet, VerifiedAppears
<1>3. PageInv /\ QuietInv /\ [AppNext]_appVars
        => [screen = "verified" /\ asked = 0 /\ opened = {} => screen' = "verified"]_appVars
  BY VerifiedQuiet
<1> QED BY <1>1, <1>2, <1>3, PageInvInit, PageInvStep, PTL DEF AppSpec, VerifiedStays

-----------------------------------------------------------------------------
(* Types: what the page draws, its timers, and the outcomes it reports *)

\* Only a verified session has a number, and a poll that brings "expired" brings none.
OwnerInv ==
  /\ \A s \in Sessions : phase[s] # "verified" => owner[s] = None
  /\ \A p : polls = <<p>> /\ p.status = "expired" => p.number = None

ShellInv ==
  /\ state \in {"idle", "pending", "verified", "expired", "error"}
  /\ screen \in {"chooser", "starting", "instructions", "verified", "expired", "error"}
  /\ asked \in Nat
  /\ timers \in Nat /\ handle \in BOOLEAN /\ (handle => timers > 0)
  /\ stopped \in BOOLEAN
  /\ reported \in [Sessions -> Seq(Page!Outcomes)]
  /\ losses \in 0..MaxLosses

LEMMA OneIsOne ==
  ASSUME NEW p, NEW q, <<p>> = <<q>>
  PROVE  p = q
<1>1. <<p>>[1] = p /\ <<q>>[1] = q
  OBVIOUS
<1> QED BY <1>1

\* The coordinator's record and the polls stay, or the poll in flight is gone.
LEMMA OwnerStays ==
  ASSUME OwnerInv, UNCHANGED <<phase, owner>>, polls' = polls \/ polls' = <<>>
  PROVE  OwnerInv'
<1>1. ASSUME NEW p, polls' = <<p>>, p.status = "expired" PROVE p.number = None
  <2>1. polls' # <<>>
    BY <1>1
  <2> QED BY <1>1, <2>1 DEF OwnerInv
<1> QED BY <1>1 DEF OwnerInv

LEMMA OwnerInvStep == PageInv /\ OwnerInv /\ [AppNext]_appVars => OwnerInv'
<1> SUFFICES ASSUME PageInv, OwnerInv, [AppNext]_appVars PROVE OwnerInv'
  OBVIOUS
<1>0. phase \in [Sessions -> Phases] /\ owner \in [Sessions -> Numbers \cup {None}]
  BY DEF PageInv
<1>1. CASE UNCHANGED <<phase, owner, polls>>
  BY <1>1, OwnerStays
<1>2. CASE Start
  <2>1. PICK n \in Sessions : /\ phase[n] = "none" /\ phase' = [phase EXCEPT ![n] = "pending"]
                              /\ UNCHANGED <<owner, polls>>
    BY <1>2 DEF Start, Coordinator!Open, Page!StartProcessed
  <2>2. \A s \in Sessions : phase'[s] # "verified" => phase[s] # "verified"
    BY <1>0, <2>1
  <2> QED BY <2>1, <2>2 DEF OwnerInv
<1>3. CASE Status
  <2>1. PICK p \in PollRow : polls = <<p>> /\ PollTrue(p)
    BY <1>3 DEF Status, PageInv
  <2>2. PICK i \in DOMAIN polls :
           Page!PollProcessed(i, phase[polls[i].of], owner[polls[i].of]) /\ UNCHANGED lifecycleVars
    BY <1>3 DEF Status
  <2>3. i = 1 /\ polls[i] = p /\ p.of \in Sessions
    BY <2>1, <2>2 DEF PollRow
  <2>4. Page!PollProcessed(1, phase[p.of], owner[p.of]) /\ UNCHANGED <<phase, owner>>
    BY <2>2, <2>3 DEF lifecycleVars
  <2>5. PICK q : q = [p EXCEPT !.status = phase[p.of], !.number = owner[p.of]]
    OBVIOUS
  <2>6. polls' = <<q>>
    BY <2>1, <2>4, <2>5 DEF Page!PollProcessed
  <2>7. q.status = phase[p.of] /\ q.number = owner[p.of]
    BY <2>5 DEF PollRow
  <2>8. q.status = "expired" => q.number = None
    BY <2>3, <2>7 DEF OwnerInv
  <2>9. ASSUME NEW r, polls' = <<r>> PROVE r = q
    BY <2>6, <2>9, OneIsOne
  <2> QED BY <2>4, <2>8, <2>9 DEF OwnerInv
<1>4. CASE Browser
  <2>0. UNCHANGED <<phase, owner>>
    BY <1>4 DEF Browser, lifecycleVars
  <2>1. CASE Buttons \/ \E s \in Sessions : Page!StartAnswered(s)
    BY <1>1, <2>0, <2>1
       DEF Buttons, Page!Choose, Page!StartOver, Page!Stop, Page!StartAnswered
  <2>2. CASE Page!Poll
    <3>1. PICK q : q = Page!PollOf(sid)
      OBVIOUS
    <3>2. polls' = <<q>> /\ q.status = "none"
      BY <2>2, <3>1 DEF Page!Poll, Page!PollOf
    <3>3. ASSUME NEW r, polls' = <<r>> PROVE r = q
      BY <3>2, <3>3, OneIsOne
    <3> QED BY <2>0, <3>2, <3>3 DEF OwnerInv
  <2>3. ASSUME NEW i \in DOMAIN polls, Page!PollAnswered(i) PROVE OwnerInv'
    <3>1. PICK p \in PollRow : polls = <<p>> /\ i = 1
      BY <2>3 DEF PageInv
    <3>2. polls' = <<>>
      BY <2>3, <3>1, OneLeft DEF Page!PollAnswered
    <3> QED BY <2>0, <3>2, OwnerStays
  <2> QED BY <1>4, <2>1, <2>2, <2>3 DEF Browser, Answers
<1>5. CASE Failures
  <2>0. UNCHANGED <<phase, owner>>
    BY <1>5 DEF Failures, lifecycleVars
  <2>1. CASE Page!StartFailed
    BY <1>1, <2>0, <2>1 DEF Page!StartFailed
  <2>2. ASSUME NEW i \in DOMAIN polls, Page!PollFailed(i) PROVE OwnerInv'
    <3>1. PICK p \in PollRow : polls = <<p>> /\ i = 1
      BY <2>2 DEF PageInv
    <3>2. polls' = <<>>
      BY <2>2, <3>1, OneLeft DEF Page!PollFailed
    <3> QED BY <2>0, <3>2, OwnerStays
  <2> QED BY <1>5, <2>1, <2>2 DEF Failures
<1>6. ASSUME NEW n \in Sessions, Outcome(n) PROVE OwnerInv'
  <2>0. UNCHANGED polls
    BY <1>6 DEF Outcome, pageVars
  <2>1. CASE Coordinator!Expire({n})
    BY <1>0, <2>0, <2>1 DEF Coordinator!Expire, OwnerInv
  <2>2. ASSUME NEW m \in Numbers, Coordinator!Verify(n, m) PROVE OwnerInv'
    <3>1. phase' = [phase EXCEPT ![n] = "verified"] /\ owner' = [owner EXCEPT ![n] = m]
      BY <2>2 DEF Coordinator!Verify
    <3> QED BY <1>0, <2>0, <3>1 DEF OwnerInv
  <2> QED BY <1>6, <2>1, <2>2 DEF Outcome
<1>7. ASSUME NEW s \in Sessions, Announce(s) \/ Deliver(s) PROVE OwnerInv'
  BY <1>1, <1>7 DEF Announce, Deliver, Coordinator!Tell, lifecycleVars, pageVars
<1>8. CASE Die \/ UNCHANGED appVars
  BY <1>1, <1>8 DEF Die, appVars, lifecycleVars, pageVars
<1> QED BY <1>2, <1>3, <1>4, <1>5, <1>6, <1>7, <1>8 DEF AppNext

\* The intervals are counted, and pollTimer never names one that does not run.
LEMMA TimersStop ==
  ASSUME ShellInv, Page!StopTimers
  PROVE  timers' \in Nat /\ handle' = FALSE
BY DEF ShellInv, Page!StopTimers

LEMMA ShellInvStep == PageInv /\ OwnerInv /\ HookInv /\ ShellInv /\ [AppNext]_appVars => ShellInv'
<1> SUFFICES ASSUME PageInv, OwnerInv, HookInv, ShellInv, [AppNext]_appVars PROVE ShellInv'
  OBVIOUS
<1>1. ASSUME UNCHANGED pageVars, losses' \in 0..MaxLosses PROVE ShellInv'
  BY <1>1 DEF pageVars, ShellInv
<1>2. Loss => losses' \in 0..MaxLosses
  BY ApplicationAssumption DEF Loss, ShellInv
<1>3. CASE Start
  <2>1. asked > 0 /\ asked' = asked - 1
        /\ UNCHANGED <<state, screen, timers, handle, stopped, reported, losses>>
    BY <1>3 DEF Start, Page!StartProcessed
  <2> QED BY <2>1 DEF ShellInv
<1>4. CASE Status
  BY <1>4 DEF Status, Page!PollProcessed, ShellInv
<1>5. CASE Buttons /\ UNCHANGED losses
  <2>1. CASE Page!Choose
    BY <1>5, <2>1 DEF Page!Choose, ShellInv
  <2>2. CASE Page!StartOver
    BY <1>5, <2>2, TimersStop DEF Page!StartOver, Page!Reset, ShellInv
  <2>3. CASE Page!Stop
    BY <1>5, <2>3, TimersStop DEF Page!Stop, ShellInv
  <2> QED BY <1>5, <2>1, <2>2, <2>3 DEF Buttons
<1>6. CASE Page!Poll /\ UNCHANGED losses
  BY <1>6 DEF Page!Poll, ShellInv
<1>7. ASSUME NEW s \in Sessions, Page!StartAnswered(s), UNCHANGED losses PROVE ShellInv'
  BY <1>7 DEF Page!StartAnswered, Page!Show, ShellInv
<1>8. ASSUME NEW i \in DOMAIN polls, Page!PollAnswered(i), UNCHANGED losses PROVE ShellInv'
  <2>1. PICK p \in PollRow : polls = <<p>> /\ PollTrue(p) /\ i = 1 /\ p.status # "none"
    BY <1>8 DEF PageInv, Page!PollAnswered
  <2>2. UNCHANGED <<asked, stopped, losses>>
    BY <1>8 DEF Page!PollAnswered
  <2>3. CASE p.status = "pending"
    BY <1>8, <2>1, <2>2, <2>3 DEF Page!PollAnswered, ShellInv
  <2>4. CASE p.status # "pending"
    <3>1. PICK s, o : /\ s \in Sessions /\ s = p.of
                      /\ o = [what |-> p.status, number |-> p.number]
      BY DEF PollRow
    <3>2. o.what \in {"verified", "expired"} /\ o \in Page!Outcomes
      <4>1. CASE p.status = "verified"
        <5>1. p.number \in Numbers
          BY <2>1, <3>1, <4>1 DEF PollTrue, HookInv
        <5> QED BY <3>1, <4>1, <5>1 DEF Page!Outcomes
      <4>2. CASE p.status = "expired"
        <5>1. p.number = None
          BY <2>1, <4>2 DEF OwnerInv
        <5> QED BY <3>1, <4>2, <5>1 DEF Page!Outcomes
      <4> QED BY <2>1, <2>4, <4>1, <4>2 DEF PollRow, Phases
    <3>3. Page!Conclude(s, o)
      BY <1>8, <2>1, <2>4, <3>1 DEF Page!PollAnswered
    <3>4. state' = o.what /\ screen' \in {screen, o.what}
      BY <3>3 DEF Page!Conclude, Page!Show
    <3>5. CASE UNCHANGED <<timers, handle, reported>>
      BY <2>2, <3>2, <3>4, <3>5 DEF ShellInv
    <3>6. CASE Page!StopTimers /\ reported' = [reported EXCEPT ![s] = Append(@, o)]
      <4>1. reported[s] \in Seq(Page!Outcomes)
        BY <3>1 DEF ShellInv
      <4>2. Append(reported[s], o) \in Seq(Page!Outcomes)
        BY <3>2, <4>1
      <4>3. reported' \in [Sessions -> Seq(Page!Outcomes)]
        BY <3>6, <4>2 DEF ShellInv
      <4>4. timers' \in Nat /\ handle' = FALSE
        BY <3>6, TimersStop
      <4> QED BY <2>2, <3>2, <3>4, <4>3, <4>4 DEF ShellInv
    <3> QED BY <3>3, <3>5, <3>6 DEF Page!Conclude
  <2> QED BY <2>3, <2>4
<1>9. CASE Failures
  <2>1. losses' \in 0..MaxLosses
    BY <1>2, <1>9 DEF Failures
  <2>2. CASE Page!StartFailed
    <3>1. /\ asked' = asked \/ (asked > 0 /\ asked' = asked - 1)
          /\ state' = "error" /\ screen' \in {screen, "error"} /\ UNCHANGED <<stopped, reported>>
          /\ (UNCHANGED <<timers, handle>>) \/ Page!StopTimers
      BY <2>2 DEF Page!StartFailed, Page!Show
    <3>2. timers' \in Nat /\ handle' \in BOOLEAN /\ (handle' => timers' > 0)
      <4>1. CASE Page!StopTimers
        <5>1. timers' \in Nat /\ handle' = FALSE
          BY <4>1, TimersStop
        <5> QED BY <5>1
      <4>2. CASE UNCHANGED <<timers, handle>>
        BY <4>2 DEF ShellInv
      <4> QED BY <3>1, <4>1, <4>2
    <3> QED BY <2>1, <3>1, <3>2 DEF ShellInv
  <2>3. ASSUME NEW i \in DOMAIN polls, Page!PollFailed(i) PROVE ShellInv'
    BY <2>1, <2>3, TimersStop DEF Page!PollFailed, ShellInv
  <2> QED BY <1>9, <2>2, <2>3 DEF Failures
<1>10. ASSUME NEW s \in Sessions, Outcome(s) \/ Announce(s) PROVE ShellInv'
  BY <1>1, <1>10 DEF Outcome, Announce, ShellInv
<1>11. ASSUME NEW s \in Sessions, Deliver(s) PROVE ShellInv'
  BY <1>1, <1>2, <1>11 DEF Deliver, ShellInv
<1>12. CASE Die
  BY <1>1, <1>2, <1>12 DEF Die
<1>13. CASE UNCHANGED appVars
  BY <1>1, <1>13 DEF appVars, ShellInv
<1>14. CASE Browser
  BY <1>5, <1>6, <1>7, <1>8, <1>14 DEF Browser, Answers
<1> QED BY <1>3, <1>4, <1>9, <1>10, <1>11, <1>12, <1>13, <1>14 DEF AppNext

LEMMA OwnerInit == AppInit => OwnerInv
<1> SUFFICES ASSUME AppInit PROVE OwnerInv
  OBVIOUS
<1>1. /\ \A s \in Sessions : owner[s] = None
      /\ polls = <<>>
  BY DEF AppInit, Coordinator!Init, Page!WidgetInit
<1> QED BY <1>1 DEF OwnerInv

LEMMA ShellInit == AppInit => ShellInv
<1> SUFFICES ASSUME AppInit PROVE ShellInv
  OBVIOUS
<1>1. <<>> \in Seq(Page!Outcomes)
  OBVIOUS
<1>2. reported \in [Sessions -> Seq(Page!Outcomes)]
  BY <1>1 DEF AppInit, Page!WidgetInit
<1>3. losses \in 0..MaxLosses
  BY ApplicationAssumption DEF AppInit
<1>4. timers = 0 /\ handle = FALSE /\ stopped = FALSE /\ asked = 0
  BY DEF AppInit, Page!WidgetInit
<1>5. state = "idle" /\ screen = "chooser"
  BY DEF AppInit, Page!WidgetInit
<1> QED BY <1>2, <1>3, <1>4, <1>5 DEF ShellInv

\* Every variable of the page and the webhook keeps its type; an outcome that is reported has a
\* number exactly when it is a verification (controller.ts, index.ts, webhook.go).
THEOREM AppTypes == AppSpec => []AppTypeOK
<1>1. PageInv /\ HookInv /\ ShellInv => AppTypeOK
  <2> SUFFICES ASSUME PageInv, HookInv, ShellInv PROVE AppTypeOK
    OBVIOUS
  <2>1. Hook!WebhookTypeOK
    <3>1. \A d \in DeliveryRow :
            d \in [st : {"none", "trying", "delivered", "gave up", "died"}, attempt : Nat,
                   number : Numbers \cup {None}]
      <4>1. 0..MaxAttempts \subseteq Nat
        BY ApplicationAssumption
      <4> QED BY <4>1 DEF DeliveryRow
    <3> QED BY <3>1 DEF Hook!WebhookTypeOK, HookInv, HeardRow
  <2>2. polls \in Seq([of : Sessions, status : {"none", "pending", "verified", "expired"},
                       number : Numbers \cup {None}])
    <3>1. polls \in Seq(PollRow)
      <4>1. CASE polls = <<>>
        BY <4>1
      <4>2. ASSUME NEW p \in PollRow, polls = <<p>> PROVE polls \in Seq(PollRow)
        BY <4>2
      <4> QED BY <4>1, <4>2 DEF PageInv
    <3> QED BY <3>1 DEF PollRow, Phases
  <2>3. Page!WidgetTypeOK
    BY <2>2 DEF Page!WidgetTypeOK, PageInv, ShellInv
  <2> QED BY <2>1, <2>3 DEF AppTypeOK, ShellInv
<1> QED BY <1>1, PageInvInit, PageInvStep, HookInvInit, HookInvStep, OwnerInit, OwnerInvStep,
           ShellInit, ShellInvStep, PTL DEF AppSpec

-----------------------------------------------------------------------------
(* The page never waits for nothing *)

\* The controller's state goes with the screen, unless the page was stopped.
ScreenInv ==
  ~stopped =>
    /\ screen = "chooser" => state = "idle"
    /\ screen = "starting" => state = "idle" /\ (asked > 0 \/ opened # {})
    /\ screen = "instructions" => state = "pending" /\ handle

LEMMA ScreenInvStep == PageInv /\ ShellInv /\ ScreenInv /\ [AppNext]_appVars => ScreenInv'
<1> SUFFICES ASSUME PageInv, ShellInv, ScreenInv, [AppNext]_appVars PROVE ScreenInv'
  OBVIOUS
<1>0. asked \in Nat /\ handle \in BOOLEAN /\ stopped \in BOOLEAN
  BY DEF ShellInv
<1>1. CASE UNCHANGED <<state, screen, asked, opened, handle, stopped>>
  BY <1>1 DEF ScreenInv
<1>2. CASE Start
  <2>1. PICK s : opened' = opened \cup {s} /\ UNCHANGED <<state, screen, handle, stopped>>
    BY <1>2 DEF Start, Page!StartProcessed
  <2>2. opened' # {}
    BY <2>1
  <2> QED BY <2>1, <2>2 DEF ScreenInv
<1>3. CASE Status
  BY <1>1, <1>3 DEF Status, Page!PollProcessed
<1>4. CASE Buttons
  <2>1. CASE Page!Choose
    <3>1. /\ screen = "chooser" /\ screen' = "starting"
          /\ asked' = (IF state = "idle" THEN asked + 1 ELSE asked) /\ UNCHANGED <<state, stopped>>
      BY <2>1 DEF Page!Choose
    <3>2. stopped \/ state = "idle"
      BY <3>1 DEF ScreenInv
    <3>3. stopped \/ asked' > 0
      BY <1>0, <3>1, <3>2
    <3> QED BY <3>1, <3>2, <3>3 DEF ScreenInv
  <2>2. CASE Page!StartOver
    BY <2>2 DEF Page!StartOver, Page!Reset, ScreenInv
  <2>3. CASE Page!Stop
    BY <2>3 DEF Page!Stop, ScreenInv
  <2> QED BY <1>4, <2>1, <2>2, <2>3 DEF Buttons
<1>5. CASE Page!Poll
  BY <1>1, <1>5 DEF Page!Poll
<1>6. ASSUME NEW s \in Sessions, Page!StartAnswered(s) PROVE ScreenInv'
  <2>1. /\ state' = "pending" /\ UNCHANGED stopped
        /\ screen' = (IF stopped THEN screen ELSE "instructions")
        /\ handle' = (handle \/ ~stopped)
    BY <1>6 DEF Page!StartAnswered, Page!Show
  <2> QED BY <2>1 DEF ScreenInv
<1>7. ASSUME NEW i \in DOMAIN polls, Page!PollAnswered(i) PROVE ScreenInv'
  <2>1. UNCHANGED <<asked, opened, stopped>>
    BY <1>7 DEF Page!PollAnswered
  <2>2. CASE UNCHANGED <<state, screen, handle>>
    BY <1>1, <2>1, <2>2
  <2>3. ASSUME NEW s, NEW o, o.what \in {"verified", "expired"}, Page!Conclude(s, o)
        PROVE  ScreenInv'
    BY <2>1, <2>3 DEF Page!Conclude, Page!Show, ScreenInv
  <2>4. PICK p \in PollRow : polls = <<p>> /\ i = 1
    BY DEF PageInv
  <2>5. CASE p.status = "pending"
    BY <1>7, <2>2, <2>4, <2>5 DEF Page!PollAnswered
  <2>6. CASE p.status # "pending"
    <3>1. p.status \in {"verified", "expired"}
      BY <1>7, <2>4, <2>6 DEF Page!PollAnswered, PollRow, Phases
    <3>2. PICK o : o = [what |-> p.status, number |-> p.number]
      OBVIOUS
    <3>3. Page!Conclude(p.of, o)
      BY <1>7, <2>4, <2>6, <3>2 DEF Page!PollAnswered
    <3> QED BY <2>3, <3>1, <3>2, <3>3
  <2> QED BY <2>5, <2>6
<1>8. CASE Failures
  <2>1. CASE Page!StartFailed
    BY <2>1 DEF Page!StartFailed, Page!Show, ScreenInv
  <2>2. ASSUME NEW i \in DOMAIN polls, Page!PollFailed(i) PROVE ScreenInv'
    BY <1>1, <2>2 DEF Page!PollFailed, ScreenInv
  <2> QED BY <1>8, <2>1, <2>2 DEF Failures
<1>9. CASE Die \/ \E s \in Sessions : Outcome(s) \/ Announce(s) \/ Deliver(s)
  BY <1>1, <1>9 DEF Die, Outcome, Announce, Deliver, pageVars
<1>10. CASE UNCHANGED appVars
  BY <1>1, <1>10 DEF appVars, pageVars
<1> QED BY <1>2, <1>3, <1>4, <1>5, <1>6, <1>7, <1>8, <1>9, <1>10 DEF AppNext, Browser, Answers

\* A page that shows it waits has a start under way, or a pending session and a timer that polls
\* it, whatever answers arrive late, requests fail and users start over (index.ts, controller.ts).
THEOREM PageWaitsForSomething == AppSpec => []WaitIsServed
<1>1. AppInit => ScreenInv
  BY DEF AppInit, Page!WidgetInit, ScreenInv
<1>2. ShellInv /\ ScreenInv => WaitIsServed
  BY DEF ShellInv, ScreenInv, WaitIsServed
<1> QED BY <1>1, <1>2, ShellInit, OwnerInit, PageInvInit, PageInvStep, HookInvInit, HookInvStep,
           OwnerInvStep, ShellInvStep, ScreenInvStep, PTL DEF AppSpec
=============================================================================
