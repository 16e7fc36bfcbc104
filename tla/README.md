# A formal model of calltoverify

calltoverify verifies that a person holds a phone number by having them send an
SMS to, or call, a number the operator owns. The coordinator (Go) opens a
*session*, tells the user which signal to send, and waits until a *receiver* (an
Android phone or a Raspberry Pi with a modem) reports that signal. This directory
models the coordinator's verification path, down to the single SQL statement; the
start-up and the authentication in front of it; the receivers with their buffers;
and the webhook and the widget behind it. TLC checks the models on small
instances, and TLAPS proves their safety for instances of any size.

    tlc -workers 2 -config sms.cfg MCCoordinator.tla     # one run
    tlapm CoordinatorProofs.tla                          # the proofs of one module

## Inventory

| component | state it keeps | operations | correct when |
|---|---|---|---|
| Store (`internal/store`) | tables devices, numbers, sessions, inbound_events, blocks | one SQL statement per method, no transactions | each statement keeps its indexes and WHERE clauses |
| Verification service (`internal/verify`) | locals of each HTTP handler, nothing shared in memory | `Start`, `Inbound` | a session is verified once, by the right signal, in time; the application is told once; a user is never given instructions that cannot work |
| Standalone coordinator (`cmd/coordinator`) | a ticker, a bounded semaphore of requests | `expireLoop`: sweep and prune | unanswered sessions expire |
| Embedded engine (`engine`) | as above, SQLite or Postgres, no ticker | `New`, `RemoveDevice`, `NewPairing`, `Start` | the same promises as the standalone coordinator |
| Device API (`internal/deviceapi`) | none of its own | `Auth`, `Register`, `Heartbeat`, `Inbound` | a genuine receiver is let in; what is refused is refused for the reason given |
| Nonce caches (`internal/auth`) | a map with the time of its last sweep, or keys in Redis | `Seen`, `gc` | of the copies of one signed request, one is acted on |
| Rate limiters (`internal/ratelimit`) | token buckets, or counters in Redis | `Allow`, `gc` | eviction never gives budget back early; processes share one budget |
| Encryption at rest (`internal/store/encrypt.go`) | none; what the columns hold | seal on write, open on read | switching it on locks out no receiver enrolled before |
| Webhook sender (`internal/webhook`) | one goroutine per notification | `deliver`, three attempts | at most three posts, each of them true |
| Migrations (`internal/store/migrate.go`) | schema_migrations | `Migrate` | each file is applied once, and nobody serves before |
| Admin and developer API (`internal/api`) | none | create device, number, session | |
| Pi receiver (`receiver-pi`) | a retry file, a temporary file | hooks `on-sms`, `on-call`; `run` flushes | no reported signal is lost; order is kept |
| Android receiver (`receiver-android`) | buffer and pairing in SharedPreferences, threads | `handle`, `registerOnce`, `heartbeat`, `retryQueued`, `unpair` | the same; reports carry the pairing's own number |
| Widgets (web, React, Flutter) | the controller's state and session, the page's timers | `begin`, `poll`, `reset`, the buttons | each session's outcome is reported once and is true; waiting ends |
| Server SDKs | none | HTTP client, webhook signature check | |

**How they meet.** A backend calls `Start` over HTTP and shows the instructions.
Receivers post heartbeats and signals, signed, through `Auth` to `Inbound`. All
coordination between handlers, and between processes, goes through the database:
there is no lock, and no transaction spans two statements. The standalone
coordinator's background loop updates the same tables; an operator's
`RemoveDevice` deletes rows under running handlers. The notifier (webhook or
callback) is called after the verification has committed.

**What is hard.** `Start` picks a line and inserts a session in two statements, and
draws codes blindly; `Inbound` matches a session and verifies it in two
statements, with a rate limiter, a claim check and a block list around them, and
counts its own audit row before writing it; sessions expire, and lines
disappear, between any two statements; requests are cancelled, statements fail, or
commit although the answer is lost; receivers send the same signal twice. On the
Pi one process per signal and a daemon rewrite one file without a lock; on the
phone a service loop drains a snapshot of the buffer while dispatcher threads
append to it, and preferences reach their file after a crash could have come. In
front of the handlers, the time a nonce is judged by is read long before the
memory is asked, sweeps run inside requests, and processes start and die around
one database and one Redis. In the browser, answers arrive for a session that the
user has left. `PROJECT.json` lists each hazard at its line with the properties that watch it.

## Modules

| module | models | extends or instantiates |
|---|---|---|
| `Store` | tables and statements of both backends (`sqlite.go`, `postgres.go`, migrations) | |
| `Verify` | `Service.Start`, `Service.Inbound` and their failures (`service.go`, `codes.go`) | `Store` |
| `Coordinator` | the whole control plane: handlers, clock, provisioning, removal, background loop; its properties | `Verify`, instance of `SessionLifecycle` |
| `SessionLifecycle` | the abstract specification: what a session promises the application | |
| `PiReceiver` | hooks, daemon and retry file (`cli.py`, `client.py`, `retry.py`) | |
| `Migrate` | coordinators that migrate one database at start-up (`migrate.go`) | |
| `RateLimit` | the in-process limiter as a value (`ratelimit.go`) | |
| `NonceCache` | both memories of used nonces as values (`auth.go`, `redisnonce.go`) | |
| `Secrets` | what a store reads from a plaintext or sealed row (`encrypt.go`) | |
| `TokenBucket` | the abstract specification of a limiter | |
| `DeviceGate` | processes that start, serve and die; a receiver's request from its arrival to its handler (`main.go`, `deviceapi.go` `Auth`) | `Migrate`, `RateLimit`, `NonceCache`, `Secrets`, instance of `TokenBucket` |
| `AndroidReceiver` | dispatcher, buffer, service and pairing screen of the phone | |
| `Webhook` | the delivery goroutine (`webhook.go`) | |
| `Widget` | controller and page of the web widget | |
| `Application` | the application: widget and webhook around a coordinator | instances of `SessionLifecycle`, `Webhook`, `Widget` |
| `MCCoordinator`, `MCDeviceGate` | fleets, requests, signals and copies for TLC | `Coordinator`, `DeviceGate` |
| `MCEnds` | phone and application in one run | `AndroidReceiver`, `Application` |
| `CoordinatorProofs` | type correctness | `Coordinator` |
| `SessionProofs` | the rows of the sessions table | `CoordinatorProofs` |
| `ReportProofs` | provenance, single use, earned blocks; `Coordinator` implements `SessionLifecycle` | `SessionProofs` |
| `PiProofs` | the Pi's retry file | `PiReceiver` |
| `GateProofs` | migrations, nonces and refusals | `DeviceGate` |
| `LimiterProofs` | the limiter implements `TokenBucket`; the shared budget; types | `GateProofs` |
| `PhoneProofs` | the phone's buffer and number | `AndroidReceiver` |
| `ApplicationProofs` | the page and the webhook | `Application` |

**State.** A call of `Start` is `calls[c]`, a call of `Inbound` is `reports[r]`: a
program counter and the local variables that live across statements. A session row
is `sessions[c]`, named after the call that inserts it (a call inserts at most one,
ids are UUIDs and never reused); likewise `events[r]`. Rows of `numbers` are never
updated, so the columns are the constant `Fleet` and only existence is state: a SIM
enrolled again on another device is another member of `Numbers` with the same line.
`reports[r].found`, `.won` are history: when the session was seen live, and whether
this report's UPDATE changed the row.

**Steps.** One action is what the code does between two database accesses: the
statement, and the decision on its answer.

| code | actions |
|---|---|
| `Start` validation, `expiresAt` | `BeginStart` |
| loop: `PickNumber`; `generateCode`, `CreateSession`, `ErrConflict` | `StartPickNumber`; `StartCreateSession` (`Retry`) |
| `noNumberErr` | `StartNoNumber` |
| `deviceapi.Inbound`, `GetNumberByMSISDN` and ownership | `Receive`, `Resolve` |
| `IsBlocked`, limiter | `Gate` |
| `matchSession` and the claim check | `Match` |
| `IncrementAttempts` | `ClaimMismatch` |
| `VerifySession` and its row count; `GetAppByID`, `notify` | `VerifyMatched`; `Notify` |
| `maybeBlock` | `CountFailures`, `CountFlood`, `CreateBlock` |
| deferred `CreateInboundEvent` | `RecordEvent` |
| an error, a cancelled request, a crash, a lost answer | `StartFault`, `ReportFault` |
| `expireLoop` | `Sweep`, `Prune` |
| admin, heartbeat, `RemoveDevice` | `Provision`, `RemoveDevice` |

Data is abstract: a line and a sender are model values. A code is one too, with a
number of digits (`Digits`), because `extractCode` reads runs of 4 to 12 digits and
nothing checks the `code_len` that codes are generated with (`service.go:127`,
`admin.go:58`, `config.go:51`, `engine.go:146`). A message body is the run of digits
it holds, or blank, or text without one; `ExtractCode` decides whether the code is
seen. The two backends are one module: they differ in their foreign keys only
(`Backend`). The error of `IsBlocked` is dropped in the code, so with faults `Gate`
may let a blocked sender's report through, to the limiter and on.

`PiReceiver` has one action per system call on the file or post to the coordinator:
opening the temporary file truncates it, writing overwrites at the start of
whatever the descriptor names by then, renaming replaces the queue. A post is
answered, lost on the way there or back, or rejected.

**`DeviceGate`.** A request is a nonce and the second it was signed in; the network
delivers any number of *copies* of it, late, to any process. `Arrive` is
`limitInFlight`, the timestamp and the limiter, and captures the time;
`Authenticate` is everything from the device row to the nonce memory; `Handle` is
the service's limiter and the answer. A process walks `Migrating` to `Serve`, where
it takes Redis if Redis answers and memories of its own if not, and `Crash` empties
what it held. The clock counts parts of a second (`TPS`) because timestamps are whole
seconds and the memories' times are not. Signatures are reduced to the secret they
were made with, and AES-GCM to the key that opens a row (`Reads`). Limiters and
nonce caches are values in modules without variables: `AfterAllow` and `AfterSeen`
map one to the next as the code's methods do, sweep included.

**`AndroidReceiver`.** A dispatcher thread is `hand[e]`; the service's loop, a loop
that was stopped in the middle of a call, and the pairing screen are the *workers*,
each with the pairing it speaks for and the rest of its snapshot. Each post blocks
its thread: between `Retry` and `Settle`, or within `DeliverOrBuffer`, everything
else may happen. `credsFile` and `queueFile` lag behind (`apply`), and `PhoneCrash`
goes back to them. A pairing stands for a device with one number, which the operator
may create after the scan (`Number`) and remove together with its device
(`RemoveDevice`). What the coordinator answers a report is one of four: it is
processed, or of a number that exists no more, which is a success too (`Takes`); it is
forbidden, the number being another device's (`Refuses`); it is denied with some other
4xx (`Denies`), by `Auth` for a device that is gone, a clock that is off, a nonce
used by a copy whose answer was lost, a nonce memory that fails closed, a missing key,
or for its body; or there is no answer to act on (`NoAnswer`: network, 5xx, 429). The
phone does not try again after any of the first three (`Final`). Registers and
heartbeats are denied for the same reasons (`Unanswered`). A denial for another
reason than a removed device counts as a fault, so that there are finitely many.

**`Application`.** The coordinator is its abstract specification, `SessionLifecycle`,
which `Coordinator` is shown to implement, so that this composition rests on a
theorem and not on a second model. Requests go through the HTTP API of the standalone
coordinator (`api/dev.go`); the embedded engine's `StartVerification` and `Status` do
the same to sessions and page. A request of the widget is three steps: asked,
processed (`StartProcessed`, `PollProcessed`), answered (`StartAnswered`,
`PollAnswered`, or a failure of either half). The buttons go on working after `stop`,
and so do `Choose` and `StartOver`.

## Runs

| run | question | bounds |
|---|---|---|
| `sms` | two SMS starts and two reports on one line, standalone | 2 calls, 2 reports, 2 codes of 4 and 3 digits, 2 senders, clock 0..2, TTL 1, first failure blocks |
| `voice` | missed calls and DTMF on two lines whose device may be removed (standalone coordinator and embedded engine on one Postgres database) | 2 calls, 2 reports, 2 codes of 12 and 13 digits, clock 0..1 |
| `faults` | everything fails everywhere, and a SIM moves to a second device (SQLite) | 1 call, 2 reports, clock 0..2, thresholds 2 |
| `fair` | liveness under fair scheduling | 2 calls, 2 reports, clock 0..1 |
| `pi` | the retry file under lost posts, rejections, a full buffer and a power failure | 3 signals, 1 hook at a time beside the daemon, 2 items, 2 outages, 1 crash |
| `gate` | two processes start on one database and are sent three copies of one request, with Redis or without | 2 migrations, 2 ticks a second, clock 0..5, tolerance 1 s, lifetime of a nonce 2 s, receiver's clock 0 or 1 s ahead, burst 1, 2 requests in flight, 1 fault; 1.27 million states |
| `ends` | the phone with its buffer; the page and the webhook around a coordinator | phone: 2 entries, 1 fault, and 2 signals under 2 pairings of which the second stays, or 1 signal under 2 pairings with devices removed, or 3 signals under 1 pairing; application: 2 numbers, 2 attempts, 2 losses, and 2 sessions with webhooks, or 3 without; 700,606 states |
| `embedded`, `cap`, `busy`, `claim`, `pi_lost` | counterexamples, see below | smallest that shows them |

What the properties say:

* `Provenance`: a verified session has a report that saw it live, on a number its
  own device holds, with the code or caller its instructions ask for, from the
  claimed sender if there is one.
* `SingleUse`: one winner per session, at most one notification, at most one audit
  row that names it, for the sender it was verified for.
* `OneVoicePerLine`, `InstructionsWork`: a line carries one pending voice session;
  a live session's own signal matches it and no other, unless its code has fewer than
  4 or more than 12 digits: then the signal matches nothing, which the runs reach on
  both sides of both edges.
* `BlocksEarned`: no sender is blocked who did not make the number of reports the
  threshold asks for.
* `SessionsKeepPromises`: the whole coordinator implements `SessionLifecycle` under
  the mapping of its `INSTANCE`.
* `StartsAnswered`, `PendingResolved`, `VerifiedIsTold`: liveness.
* `SentOrKept`, `DrainedInOrder`, `QueueDrains` for the Pi: unless two processes
  overlap in the file, a signal is accepted, dropped on purpose, or in the file;
  buffered signals are first answered in the order they were added; the file
  empties when the outage is over.

* `ServingOnMigrated`: no process serves before every migration ran, once and in
  order, however many start together or fail half way.
* `HandledOnce`: what one memory recorded it never lets through again. At the very
  edge it may: a timestamp of a clock that is fast by the whole tolerance is
  accepted until a moment after its nonce is forgotten; `FarAhead` says which. Two
  memories, as before and after a restart, know nothing of each other.
* `ReplayMeansKnown`: "nonce replay" is answered only to a request of which another
  copy got through that memory, or while Redis is down and the setting refuses
  everything. A request that failed before its nonce was recorded can be retried.
* `LegacyReadable`: encryption switched on locks out no receiver enrolled before.
* `SharedBudget`: processes on one Redis together keep to the budget of a window.
* `LimitsAsPromised`: `RateLimit`, with its map, times and sweep, implements
  `TokenBucket`.
* `EventsKept`: the phone's dispatcher is done with an event only when it was answered,
  pushed out at the cap, lost to a crash, or is in the buffer.
* `OwnNumberOnly`, `NumberHeals`: only an answer that arrives when its pairing is gone
  leaves the phone with another pairing's number, and a heartbeat corrects it once
  denials and outages end; only a phone that was paired again has a report forbidden
  because the number is another device's. It says nothing of denials for other
  reasons: any phone may meet those, and drops what they are given for.
* `BufferDrains`: with a pairing whose number exists the phone's buffer empties.
* `OutcomeOnce`, `VerifiedStays`, `PageSettles`: the page reports one outcome of a
  session and the true one; a verified page stays unless the answer to a start is
  still to come; a page that waits gets to an end, if the coordinator leaves no
  session pending. The standalone one does not (`PendingResolved` in `fair`); the
  embedded one does (`embedded`), and a page before it may wait for ever.
* `WaitIsServed`: a page that waits never waits for nothing: a start is under way, or a
  pending session is polled.
* `HeardIsTrue`: every post the application receives is of a verified session, with its
  number, at most `MaxAttempts` of them; a delivery that ended well was heard.

**Why the bounds are enough.** Every conflict in this code is between two
handlers, or a handler and a background step, over one row: two calls and two
reports give every pair, and the second report is the duplicate, the rival, or the
late one. Two codes let a collision and a free draw both happen. `TTL = 1` with a
clock to 2 puts a session before, at and after its deadline, between any two
steps, and lets a block end; where the clock stops at 1 the deadline itself is
still reached. `MaxAttempts = 2` has a retry and an exhausted retry (the code
allows 8). The bounds are `MaxClock` (guards of `Tick` and `BeginStart`), the sets
`Calls` and `Reports`, and in `PiReceiver` `MaxHooks`, `MaxOutages`, `MaxCrashes`.

In `gate`, three copies at two processes give a copy that passes, one that meets a
sweep, and one that comes too late; clock 0..5 is longer than the lifetime of a nonce
(4 ticks), so one is forgotten between copies. `MaxFaults` counts incidents: a crash,
an outage, a removal, a failed statement, a key switched on; with one, each is seen
against every interleaving of the rest. `AuthTime` bounds how long authentication
takes. Two guards cut interleavings that decide nothing: while a process starts,
no other step runs (`Quiet`: start-up touches nothing requests use), and the clock
starts with the first request (`Dated`). `MaxInFlight = 0` means no limit in the code;
the run uses 2. In `ends`, phone and application share no variable, so one run
explores either of them, in one of five scenarios (`MCEnds`): every property of the
one holds in the other's initial state. Two pairings and two signals give the late
answer and the signal under either pairing; a removed device needs one signal only;
two entries with a third signal make a drain of several entries meet a buffer that
drops its head. Three starts leave two in flight at once and the first of two
intervals to nobody; webhooks are sent per session and need two. The phone's files
matter to a crash only and are written in the model while a fault is left (`FlushQueue`, `FlushCreds`); one screen
registers at a time, and one stopped loop at a time is still in its call (the code
waits for neither). The user of the page starts as often as there are sessions left.

Calls and reports are interchangeable, as are processes and copies, hence the
symmetry in the safety runs; the liveness runs use none. Deadlock checking is off because the bounded system ends:
all handlers done, the clock at its bound.

**Fairness.** `WF` on each handler's steps: net/http runs each request in its own
goroutine to the end, and the database answers (`Faults = FALSE` in these runs).
`WF` on `Tick`, time passes, and on `Sweep`, the ticker of `expireLoop` keeps
firing. Nothing is assumed of users, receivers or operators: `BeginStart`,
`Receive`, `Provision` and `RemoveDevice` are not fair. On the Pi the daemon loops
and a started hook runs on; a crash may end it. On the phone `WF` on the service's
thread: Android restarts a foreground service (`START_STICKY`, the boot receiver),
and its calls end (they have timeouts); pairing, numbers, files and signals are not
fair, so `BufferDrains` and `NumberHeals` ask that the pairing stays. In the
application `WF` on requests (the interval timer fires, and a request is processed
and answered or fails, at most `MaxLosses` times). Nothing is asked of the sessions'
outcomes: that none stays pending is the premise of `PageSettles`. Nobody has to press
a button.

### Where documents and code disagree

| run | what the run shows |
|---|---|
| `embedded` | the embedded engine starts no sweep, so an unanswered session stays `pending` for ever, counts against the cap and, on a voice channel, keeps the line out of `PickNumber`; the README's lifecycle says `pending` -> `verified` / `expired` |
| `cap` | the cap on pending sessions is checked by `PickNumber` and not by the INSERT: two starts exceed it |
| `busy` | `BusyError` ("all are mid-verification") is returned when the line is merely at its cap of SMS sessions |
| `claim` | a claim mismatch leaves the session open; `docs/channels.md` says the session fails |
| `pi_lost` | the daemon's `flush` writes back what it read before it sent; a signal a hook added meanwhile is in no file and with nobody |

Seen while modelling, with no run of their own:

* `0001_init.sql:68` says that "inbound signals match exactly one live session", and
  `docs/architecture.md` repeats it. Any `code_len` is accepted, and with 1 to 3 or more than 12
  digits the instructions are given out, the signal is sent as asked, and it matches
  nothing (`codes.go:72`). `InstructionsWork` states both sides.
* SQLite keeps `sessions.number_id` after `RemoveDevice` (`store.go:44` promises null;
  the SQLite schema has no foreign key), and concurrent failures of one sender may
  reach the threshold with nobody blocked, because each audit row is written after
  the count.
* `InboundDispatcher.kt:102` drops a report on any 4xx because "the server will never
  accept this"; a 401 may be due to a clock that is off, to a nonce whose answer was
  lost, to a fail-closed memory during an outage of Redis, or to a process that was
  started without the key while encryption is being switched on.
* On the phone, a late answer to a register call after unpairing and pairing again
  leaves the old number until the next heartbeat, and reports sent meanwhile are
  forbidden and dropped; the buffer outlives unpairing and is sent under the new
  pairing.
* In the web widget, a late outcome of an old session concludes the page of a new
  one (what is reported is still true of the old one); the answer to a start that arrives
  after a verified outcome replaces the success screen; an overwritten `pollTimer`
  leaves an interval that nothing clears.

## Proofs

Every invariant and every action property that a passing run checks is also a theorem, as are
both refinements (29 theorems). They hold for constants of any size: every fleet, any calls,
reports, signals, copies, events and sessions, both backends, any limits, thresholds, lifetimes,
bounds and number of faults. They rest on the named ASSUMEs of the models alone, which TLC evaluates in the runs:

* `Store`, `Verify`, `Coordinator`: the sorts of the constants, a backend that is one of
  the two, one provisioned number per line (`UNIQUE (msisdn)`), limits and thresholds
  above zero, a sweep only where `expireLoop` runs.
* `Migrate`, `RateLimit`, `NonceCache`, `Secrets`, `DeviceGate`: a bucket holds at least one
  token; a nonce is kept for twice the tolerance (`main.go`: ten minutes against
  `deviceapi.go`'s five); the tags of memories are no processes.
* `Verify`: a code has at least one digit (`generateCode` makes six of none).
* `AndroidReceiver`, `Application`: the buffer holds an entry, a delivery makes an attempt.
* `PiReceiver`: the daemon is not a signal, the file may hold an item.

| theorem | module | establishes |
|---|---|---|
| `TypeCorrect` | `CoordinatorProofs` | `TypeOK` |
| `OneVoice` | `SessionProofs` | `OneVoicePerLine` |
| `InstructionsAlwaysWork` | `SessionProofs` | `InstructionsWork` |
| `ProvenanceHolds` | `ReportProofs` | `Provenance` |
| `SingleUseHolds` | `ReportProofs` | `SingleUse` |
| `PromisesKept` | `ReportProofs` | `SessionsKeepPromises` |
| `BlocksAreEarned` | `ReportProofs` | `BlocksEarned` |
| `PiTypes`, `PiKeepsReports`, `PiDrainsInOrder` | `PiProofs` | `TypeOK`, `SentOrKept`, `DrainedInOrder` of `PiReceiver` |
| `Migrated` | `GateProofs` | `ServingOnMigrated` |
| `ReplaysCaught` | `GateProofs` | `HandledOnce` |
| `ReplaysAreTrue` | `GateProofs` | `ReplayMeansKnown` |
| `LegacyKeepsWorking` | `GateProofs` | `LegacyReadable` |
| `LimiterIsTokenBucket` | `LimiterProofs` | `LimitsAsPromised` |
| `BudgetIsShared`, `GateTypes` | `LimiterProofs` | `SharedBudget`, `TypeOK` of `DeviceGate` |
| `PhoneTypes`, `PhoneKeepsEvents`, `PhoneOwnNumber` | `PhoneProofs` | `PhoneTypeOK`, `EventsKept`, `OwnNumberOnly` |
| `AppTypes`, `OutcomeReportedOnce`, `VerifiedPageStays`, `PageWaitsForSomething` | `ApplicationProofs` | `AppTypeOK`, `OutcomeOnce`, `VerifiedStays`, `WaitIsServed` |
| `WebhookTellsTruth` | `ApplicationProofs` | `HeardIsTrue` |

**The coordinator.** None of these properties is inductive. The strengthening is built in
four layers, each proved with the ones before it:

1. `TypeInv`. That a row fits its columns depends on what a handler carries from
   one statement to the next: `CallOK` (a call that picks or inserts holds a valid
   request and has attempts left) and `ReportOK` (a report that verifies or
   notifies holds a session).
2. `UniqueRows`. The unique indexes are conditions on one INSERT; as an invariant
   of the table they need that no UPDATE makes a row pending again and that
   a DELETE only clears a number. `SessionsStep` reduces the whole of `Next` to the
   six ways the table is written.
3. `CallsSafe`. A row appears when its own `Start` returns, expires at most `TTL`
   after its call began, and holds a code where its channel needs one. With it,
   `RowsKept` shows that no step changes what `Start` promised, or undoes a
   verification. `InstructionsWork` follows from 2 and 3 (`UniqueAnswers`): a code of 4
   to 12 digits is extracted as it is and unique, any other is not extracted at all.
4. `UseInv`. A report still relies, at `VerifySession`, on what `Resolve` and
   `Match` read several statements earlier: `ReportSafe` says what it read, and
   `RowsKept` that this is still true except for the status, which the UPDATE's own
   guard checks. That guard gives `OneWinner`. `EventSafe` and `SessionSafe` tie the
   audit rows and the notification to the winner; `Provenance` and `SingleUse`
   follow from them.

`PromisesKept` splits a step by what it writes (`StepEffects`): the clock, the
notifications, or the sessions table, and for the table by `SessionsStep` again.
Each statement is then one action of `SessionLifecycle`, or a stutter: `Open` needs
layer 3 (the row was absent), `Verify` needs layer 4 (the claim compared in `Match`
is still the row's), `Tell` needs that the winner has not notified yet. A `Tick`
is `TimePasses`.

**Blocks.** `maybeBlock` counts audit rows of a window and `Prune` deletes rows, so a count of
rows says nothing of later states. `EarnInv` counts the reports themselves: `MadeBy` and
`FailedBy` of a sender only grow. Every row stands for a report of that kind (`RowIsReport`),
and the report at hand, whose own row is still to come, is one more that no row stands for:
`RowsAndOne` bounds rows plus one by the reports, which is why the code's threshold may count
its own report before it is written. So a report that is about to block has a sender who
earned it (`CondemnedEarned`), and a block stays earned.

**The Pi.** The properties speak of a file that no process reads while another is about to
replace it (`overlapped` records that, and the run `pi_lost` shows why). `KeptInv` follows the
one process between its read and its rename: the temporary file is its own, holds what the
process read plus its signal (`WritesOwn`), and covers what the queue holds now (`Covers`), so
that the rename loses nothing, wherever the crash comes. `OrderInv` adds that the queue and the
rewriter's list are `Ordered` as the signals were added, and what is still to be drained comes
after what was; a flush that died half way sends its head again, and `Drain` counts a signal's
first answer only. `FilesInv` is the part about descriptors: one names the temporary file only
while there is one.

**Migrations.** `AppliedInOrder` and the stage of a process are related by `Walk`: a
process at file *f* saw every file before it applied, whoever applied it, and one
that is through saw all. Two that apply the same file are told apart by the primary key.

**Nonces and refusals.** `Effects` first reduces `Next` to six kinds of step (`Aside`,
`Ticks`, `Signs`, `Crashed`, `Moves`, `Judged`) with only what the properties need of
each, so that the three theorems share one case analysis of the code. `GateInv` holds the
types and `Flying`: a copy in authentication arrived before the request's `Horizon`, the
last tick at which its timestamp is accepted plus `AuthTime`. For `HandledOnce` the
strengthening is `Remembered`: as long as a copy could still ask, a memory that
let one through keeps its nonce (`Keeps`). It survives the sweep, although a
sweep uses the time captured by *another* request, because that time is never
ahead of the clock (`CacheKeeps`), and it holds on recording unless the
timestamp was `FarAhead`: exactly then `now + NonceTTL` ends before the horizon. For
`ReplayMeansKnown` the strengthening is the converse, `KnownBy`: what a memory holds it
got from a copy it let through. `LegacyReadable` needs that a row not yet
written was not sealed.

**The limiter.** `SweepSound`: a bucket that the sweep drops would have refilled by then, so
that dropping it changes no `Budget`. `LimitStep` maps each step to `TokenBucket`: an
`Arrive` past the tolerance asks and pays, a `Tick` refills, a `Crash` restarts the
buckets of its process, all else stutters.

**The shared budget.** `SharedBudget` counts copies, the code counts in Redis. `BudgetInv`
relates the two: the copies let in on the window that Redis counts are no more than its
counter, those of any earlier window no more than `WindowRate`, and no later window has any.
`StepCounts` reduces `Next` to steps that let nobody in and steps that count one (`Counted`),
and the time only moves a window forward (`WindowType`).

**Types at the gate.** Beyond `GateInv` and `LimitInv`, `TypeOK` needs that no sweep is dated
ahead of the clock (`SweptNow`): sweeps take the time of the request they run in, which was
captured earlier.

**The phone.** `PhoneInv` bounds every pairing and number that a thread, a file or the
buffer still holds by the pairing counter, for the calls of threads that outlive an
unpairing. `RemoveFirstProperties` is the lemma about removal by value: it takes one
occurrence, and so the entry another thread appended meanwhile stays. `EventsKept`
then needs only what each step adds to the events done with and takes from the buffer.

**The application.** `PageInv`: at most one poll is in flight, it is of an opened session of
which nothing was reported, and what it brings is that session's outcome; reporting a
session takes its poll away. `HookInv` relates the one delivery of a session, its attempts
and what was heard. `QuietInv` (no poll behind a verified screen) gives `VerifiedStays`.
`ScreenInv` ties the controller's state to the screen: the chooser and "starting" mean an idle
controller, so that `begin` cannot return without a start, and the instructions mean a pending
one with an interval; each late answer moves both or neither. `WaitIsServed` follows.
`AppTypeOK` needs `OwnerInv` (only a verified session has a number) for the outcomes the page
reports.

**Only model-checked** is what needs fairness, which the prover does not treat:
`StartsAnswered`, `PendingResolved`, `VerifiedIsTold`, `QueueDrains`, `BufferDrains`,
`NumberHeals` and `PageSettles`.

## Not modelled

* The composition of gate and coordinator in one state space: `Receive` in `Verify` stands
  for a request that passed `Auth`, and the service's limiter is a free choice there
  (`LimiterDenies`), which includes what `DeviceGate` makes of it. A failed `Expire` of a
  shared counter is left out: the next window has another key.
* API keys, JSON and HTTP framing, list queries for dashboards, the web console,
  configuration, logging and metrics have no state across calls, or none
  these properties are about; nor do the server SDKs.
* Signatures are the secret they were made with. The webhook's own signature and the
  dialer's check of the address are left out; a post reaches the application or does not.
* Waiting for the database at start and the graceful shutdown: a process that waits does
  not serve, and a shutdown is a `Crash` that waited for requests.
* The React and Flutter widgets follow the same controller as the web widget but keep their
  own page state, which is not modelled.
* On Android the broadcast receivers, permissions, parsing of SMS and the screens, except
  where they pair and unpair. On the Pi pairing, signing, the AGI scripts, and hooks that
  are called without a line or a sender and give up (`cli.py:71-74`, `89-91`).
* A SETNX whose answer is lost, or that go-redis sends again (`redisnonce.go:39`): Redis is
  up and answers, or down. The nonce may then be recorded by a request that was answered as
  a replay, and `ReplayMeansKnown` is not claimed across such a loss.
* The `apps` table is written once at start-up; there is one application here.

## Plan

Done, in this order: `Store`, `Verify`, `Coordinator`, `SessionLifecycle`, `PiReceiver` and
the coordinator's proofs; `AndroidReceiver`; `Migrate`, `RateLimit`, `NonceCache`,
`Secrets`, `TokenBucket` and `DeviceGate`; `Webhook`, `Widget` and `Application`; their
proofs.

Then the proofs of `BlocksEarned`, of the Pi's properties, of `SharedBudget`, of the remaining
type invariants, and of `WaitIsServed`, which was stated for them.

Left: the safety half of the liveness properties as theorems, where one says more than the
invariants do (a phone's drain that does not wait has removed an entry); the composition of
the gate with the coordinator by theorem, `Receive` being what `Handle` lets through.
