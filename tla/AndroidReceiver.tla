-------------------------- MODULE AndroidReceiver --------------------------
(***************************************************************************)
(* The Android receiver (receiver-android): SMS and calls arrive at the    *)
(* dispatcher (InboundDispatcher.kt), which posts them to the coordinator  *)
(* or buffers them (InboundQueue.kt); a foreground service registers,      *)
(* heartbeats and drains the buffer (ReceiverService.kt); the user pairs   *)
(* and unpairs the phone meanwhile (MainActivity.kt).                      *)
(*                                                                         *)
(* A post blocks its thread and nothing cancels it: an answer may arrive   *)
(* when the phone has been unpaired, or paired again.  Preferences are     *)
(* changed in memory and written to their file later (apply), so a crash   *)
(* takes back what was not written yet.                                    *)
(***************************************************************************)
EXTENDS Integers, Sequences, SequencesExt

CONSTANTS
  Events,        \* SMS and calls, after CallReceiver's removal of repeated broadcasts, numbered
                 \* in the order they arrive
  MaxPairings,   \* bound on codes scanned; each stands for a device with a number of its own
  LateNumbers,   \* those whose number the operator creates after the code was scanned
  MaxEntries,    \* MAX_ENTRIES of InboundQueue
  MaxFaults      \* bound on posts that are denied or not answered, devices the operator removes
                 \* and deaths of the process, together

ASSUME AndroidAssumption ==
  /\ Events \subseteq Nat /\ LateNumbers \subseteq 1..MaxPairings
  /\ MaxEntries \in Nat \ {0} /\ MaxPairings \in Nat /\ MaxFaults \in Nat

Pairings == 1..MaxPairings
Nil == 0

\* The threads that talk to the coordinator beside the dispatcher's: the loop of the running
\* service, one that was stopped in the middle of a call, and the pairing screen's.
Workers == {"service", "stopped", "screen"}

VARIABLES
  creds,      \* CredentialStore in memory: the pairing, the number the coordinator named and, for
              \* the properties only, whether it did so when the pairing of the call was gone
  queue,      \* InboundQueue in memory: entries of an event and the number it came to
  credsFile, queueFile,   \* what a crash leaves of them
  hand,       \* per event: how far the dispatcher is, and the pairing and number it holds
  work,       \* per worker: what it does, for which pairing, and the rest of its snapshot
  numbered,   \* pairings that have a number: the operator has created it
  removed,    \* pairings whose device the operator has removed, and its number with it
  gone,       \* history: events the coordinator gave a final answer to, that newer ones pushed out
              \* at the cap, or that were in hand, or not written yet, at a crash
  forbidden,  \* history: whether the coordinator forbade a report of another device's number
  faults,
  pairs       \* the pairing scanned last

phoneVars == <<creds, queue, credsFile, queueFile, hand, work, numbered, removed, gone, forbidden,
               faults, pairs>>

Unpaired == [pairing |-> Nil, number |-> Nil, late |-> FALSE]
Entry == [ev : Events, num : Pairings \cup {Nil}]   \* Nil: buffered before the number was known
New == [st |-> "new", as |-> Nil, num |-> Nil]
Done == [New EXCEPT !.st = "done"]
Off == [st |-> "off", as |-> Nil, todo |-> <<>>]

PhoneTypeOK ==
  /\ {creds, credsFile} \subseteq [pairing : Pairings \cup {Nil}, number : Pairings \cup {Nil},
                                  late : BOOLEAN]
  /\ queue \in Seq(Entry) /\ queueFile \in Seq(Entry)
  /\ Len(queue) <= MaxEntries /\ Len(queueFile) <= MaxEntries
  /\ hand \in [Events -> [st : {"new", "resolve", "post", "done"},
                          as : Pairings \cup {Nil}, num : Pairings \cup {Nil}]]
  /\ work \in [Workers -> [st : {"off", "register", "pause", "beat", "drain", "answered"},
                           as : Pairings \cup {Nil}, todo : Seq(Entry)]]
  /\ \A w \in Workers : work[w].st \in {"drain", "answered"} <=> work[w].todo # <<>>
  /\ numbered \subseteq Pairings /\ removed \subseteq Pairings \ numbered
  /\ gone \subseteq Events /\ forbidden \in BOOLEAN
  /\ faults \in 0..MaxFaults /\ pairs \in 0..MaxPairings

PhoneInit ==
  /\ creds = Unpaired /\ credsFile = Unpaired
  /\ queue = <<>> /\ queueFile = <<>>
  /\ hand = [e \in Events |-> New]
  /\ work = [w \in Workers |-> Off]
  /\ numbered = Pairings \ LateNumbers /\ removed = {}
  /\ gone = {} /\ forbidden = FALSE
  /\ faults = 0 /\ pairs = 0

Buffered == {queue[i].ev : i \in DOMAIN queue}
OnFile == {queueFile[i].ev : i \in DOMAIN queueFile}

-----------------------------------------------------------------------------
(* InboundQueue *)

\* Mutated: the length is taken before the entry is added.
EnqueueOneMore(entry) ==
  LET all == Append(queue, entry)
      over == Len(queue) > MaxEntries
  IN  /\ queue' = IF over THEN Tail(all) ELSE all
      /\ gone' = IF over THEN gone \cup {Head(all).ev} ELSE gone

\* enqueue: append, then drop the oldest over the cap.
Enqueue(entry) ==
  LET all == Append(queue, entry)
      over == Len(all) > MaxEntries
  IN  /\ queue' = IF over THEN Tail(all) ELSE all
      /\ gone' = IF over THEN gone \cup {Head(all).ev} ELSE gone

\* Mutated: remove by position, what the drain is at being the head.
RemovedFirst(q, entry) == IF q = <<>> THEN q ELSE Tail(q)

\* remove: the first entry equal to `entry', wherever it stands now.
Removed(q, entry) == RemoveFirst(q, entry)

\* The preferences reach their files, some time after apply.  What the files hold matters
\* to a crash only.
FlushQueue ==
  /\ faults < MaxFaults
  /\ queueFile # queue
  /\ queueFile' = queue
  /\ UNCHANGED <<creds, queue, credsFile, hand, work, numbered, removed, gone, forbidden,
                 faults, pairs>>

FlushCreds ==
  /\ faults < MaxFaults
  /\ credsFile # creds
  /\ credsFile' = creds
  /\ UNCHANGED <<creds, queue, queueFile, hand, work, numbered, removed, gone, forbidden,
                 faults, pairs>>

-----------------------------------------------------------------------------
(* CtvClient: a post of pairing `as' for number `num' *)

\* A report of its own number is processed, one of a number that exists no more is answered
\* "unknown_number".
Takes(as, num) ==
  /\ as \notin removed /\ num \in {as} \cup removed
  /\ UNCHANGED <<forbidden, faults>>

\* 403: the number is another device's.
Refuses(as, num) ==
  /\ {as, num} \cap removed = {} /\ num # as
  /\ forbidden' = TRUE /\ UNCHANGED faults

\* Any other 4xx: the device was removed; or the clocks disagree, the nonce was used by a copy
\* whose answer was lost, the nonce memory fails closed, the device has no key, the body is refused.
Denies(as) ==
  /\ \/ as \in removed /\ UNCHANGED faults
     \/ faults < MaxFaults /\ faults' = faults + 1
  /\ UNCHANGED forbidden

\* An answer after which the phone does not try the same report again.
Final(as, num) == Takes(as, num) \/ Refuses(as, num) \/ Denies(as)

\* No answer in time, 5xx or 429, whether the coordinator has processed it or not.
NoAnswer == faults < MaxFaults /\ faults' = faults + 1 /\ UNCHANGED forbidden

-----------------------------------------------------------------------------
(* InboundDispatcher.handle, on a thread of its own for every event; unpaired, it ignores them *)

Arrive(e) ==
  /\ hand[e].st = "new" /\ creds.pairing # Nil
  /\ \A f \in Events : f < e => hand[f].st # "new"
  /\ hand' = [hand EXCEPT ![e] = [st |-> "resolve", as |-> creds.pairing, num |-> Nil]]
  /\ UNCHANGED <<creds, queue, credsFile, queueFile, work, numbered, removed, gone, forbidden,
                 faults, pairs>>

\* primaryMsisdnFor; with no number known the event is buffered without one.
Resolve(e) ==
  /\ hand[e].st = "resolve"
  /\ IF creds.number = Nil
     THEN /\ Enqueue([ev |-> e, num |-> Nil])
          /\ hand' = [hand EXCEPT ![e] = Done]
     ELSE /\ hand' = [hand EXCEPT ![e].st = "post", ![e].num = creds.number]
          /\ UNCHANGED <<queue, gone>>
  /\ UNCHANGED <<creds, credsFile, queueFile, work, numbered, removed, forbidden, faults,
                 pairs>>

\* deliverOrBuffer.
DeliverOrBuffer(e) ==
  LET as == hand[e].as
      num == hand[e].num
  IN  /\ hand[e].st = "post"
      /\ \/ /\ Final(as, num)
            /\ gone' = gone \cup {e}
            /\ UNCHANGED queue
         \/ /\ NoAnswer
            /\ Enqueue([ev |-> e, num |-> num])
      /\ hand' = [hand EXCEPT ![e] = Done]
      /\ UNCHANGED <<creds, credsFile, queueFile, work, numbered, removed, pairs>>

-----------------------------------------------------------------------------
(* ReceiverService, and the register call of the pairing screen *)

\* Where a worker goes when its work is done.
Rest(w) == IF w = "service" THEN [Off EXCEPT !.st = "pause"] ELSE Off

\* retryQueued: the pairing and the whole buffer are read once.
Drain(w) == IF creds.pairing = Nil \/ queue = <<>> THEN Rest(w)
            ELSE [st |-> "drain", as |-> creds.pairing, todo |-> queue]

\* onStartCommand, at boot, on resuming the screen or after pairing; registerOnce.
StartService ==
  /\ creds.pairing # Nil /\ work["service"].st = "off"
  /\ work' = [work EXCEPT !["service"] = [Off EXCEPT !.st = "register", !.as = creds.pairing]]
  /\ UNCHANGED <<creds, queue, credsFile, queueFile, hand, numbered, removed, gone, forbidden,
                 faults, pairs>>

\* What the answer to a register or heartbeat names: the pairing's number, if it has one.
Named(as) == IF as \in numbered THEN as ELSE Nil

\* updateNumbers, whatever the pairing has become since the call of w was made.
Learned(w) == [creds EXCEPT !.number = Named(work[w].as), !.late = work[w].as # creds.pairing]

\* No answer, or one that is no success: Auth denies it for the reasons it denies a report.
Unanswered(w) == (NoAnswer \/ Denies(work[w].as)) /\ UNCHANGED creds

\* The answer to registerOnce, or to the pairing screen's register, which drains nothing.
Registered(w) ==
  /\ work[w].st = "register"
  /\ \/ /\ work[w].as \notin removed
        /\ creds' = Learned(w)
        /\ UNCHANGED <<forbidden, faults>>
        /\ work' = [work EXCEPT ![w] = IF w = "screen" THEN Off ELSE Drain(w)]
     \/ /\ Unanswered(w)
        /\ work' = [work EXCEPT ![w] = Rest(w)]
  /\ UNCHANGED <<queue, credsFile, queueFile, hand, numbered, removed, gone, pairs>>

Heartbeat ==
  /\ work["service"].st = "pause" /\ creds.pairing # Nil
  /\ work' = [work EXCEPT !["service"] = [Off EXCEPT !.st = "beat", !.as = creds.pairing]]
  /\ UNCHANGED <<creds, queue, credsFile, queueFile, hand, numbered, removed, gone, forbidden,
                 faults, pairs>>

\* Mutated: the numbers of the answer are not read.
HeartbeatUnread(w) ==
  /\ work[w].st = "beat"
  /\ (UNCHANGED <<creds, forbidden, faults>>) \/ Unanswered(w)
  /\ work' = [work EXCEPT ![w] = Drain(w)]
  /\ UNCHANGED <<queue, credsFile, queueFile, hand, numbered, removed, gone, pairs>>

\* An answer that names no number leaves the one known; the buffer is drained in any case.
HeartbeatAnswered(w) ==
  /\ work[w].st = "beat"
  /\ \/ /\ work[w].as \notin removed
        /\ creds' = IF Named(work[w].as) = Nil THEN creds ELSE Learned(w)
        /\ UNCHANGED <<forbidden, faults>>
     \/ Unanswered(w)
  /\ work' = [work EXCEPT ![w] = Drain(w)]
  /\ UNCHANGED <<queue, credsFile, queueFile, hand, numbered, removed, gone, pairs>>

\* The worker w goes on behind the entry it was at.
Onward(w) == IF Len(work[w].todo) = 1 THEN Rest(w)
            ELSE [work[w] EXCEPT !.st = "drain", !.todo = Tail(@)]

\* The number an entry is reported for: one that was buffered without takes the number known now.
NumberFor(entry) == IF entry.num = Nil THEN creds.number ELSE entry.num

\* Mutated: an entry the coordinator refuses stays.
RetryKeeping(w) ==
  /\ work[w].st = "drain"
  /\ LET num == NumberFor(Head(work[w].todo))
         as == work[w].as
     IN  \/ /\ num = Nil
            /\ work' = [work EXCEPT ![w] = Onward(w)]
            /\ UNCHANGED <<forbidden, faults>>
         \/ /\ num # Nil /\ Takes(as, num)
            /\ work' = [work EXCEPT ![w].st = "answered"]
         \/ /\ num # Nil /\ (Refuses(as, num) \/ Denies(as))
            /\ work' = [work EXCEPT ![w] = Onward(w)]
         \/ /\ num # Nil /\ NoAnswer
            /\ work' = [work EXCEPT ![w] = Rest(w)]
  /\ UNCHANGED <<creds, queue, credsFile, queueFile, hand, numbered, removed, gone, pairs>>

\* One entry of the snapshot is posted: skipped while its number is unknown, and the drain ends
\* when no answer comes.
Retry(w) ==
  /\ work[w].st = "drain"
  /\ LET num == NumberFor(Head(work[w].todo))
         as == work[w].as
     IN  \/ /\ num = Nil
            /\ work' = [work EXCEPT ![w] = Onward(w)]
            /\ UNCHANGED <<forbidden, faults>>
         \/ /\ num # Nil /\ Final(as, num)
            /\ work' = [work EXCEPT ![w].st = "answered"]
         \/ /\ num # Nil /\ NoAnswer
            /\ work' = [work EXCEPT ![w] = Rest(w)]
  /\ UNCHANGED <<creds, queue, credsFile, queueFile, hand, numbered, removed, gone, pairs>>

\* The answer to it has come, whatever it says: the entry leaves the buffer.
Settle(w) ==
  /\ work[w].st = "answered"
  /\ LET entry == Head(work[w].todo) IN
       /\ queue' = Removed(queue, entry)
       /\ gone' = gone \cup {entry.ev}
  /\ work' = [work EXCEPT ![w] = Onward(w)]
  /\ UNCHANGED <<creds, credsFile, queueFile, hand, numbered, removed, forbidden, faults,
                 pairs>>

-----------------------------------------------------------------------------
(* The user, the operator, and the phone itself *)

\* A scanned code is saved; the screen registers with it, and starts the service afterwards.
Pair ==
  /\ creds.pairing = Nil /\ work["screen"].st = "off"
  /\ pairs < MaxPairings
  /\ pairs' = pairs + 1
  /\ creds' = [creds EXCEPT !.pairing = pairs']
  /\ work' = [work EXCEPT !["screen"] = [Off EXCEPT !.st = "register", !.as = pairs']]
  /\ UNCHANGED <<queue, credsFile, queueFile, hand, numbered, removed, gone, forbidden, faults>>

Busy == {"register", "beat", "drain", "answered"}

\* Mutated: the numbers stay.
ClearedOfPairing == [creds EXCEPT !.pairing = Nil]

\* CredentialStore.clear.
Cleared == Unpaired

\* The service is stopped, its loop not before the call it is in; credentials and numbers go,
\* the buffer stays.
Unpair ==
  /\ creds.pairing # Nil
  /\ creds' = Cleared
  /\ work["service"].st \in Busy => work["stopped"].st = "off"
  /\ work' = [work EXCEPT !["service"] = Off,
                          !["stopped"] = IF work["service"].st \in Busy THEN work["service"] ELSE @]
  /\ UNCHANGED <<queue, credsFile, queueFile, hand, numbered, removed, gone, forbidden, faults,
                 pairs>>

Number(p) ==
  /\ p \notin numbered \cup removed /\ p <= pairs
  /\ numbered' = numbered \cup {p}
  /\ UNCHANGED <<creds, queue, credsFile, queueFile, hand, work, removed, gone, forbidden,
                 faults, pairs>>

RemoveDevice(p) ==
  /\ p \notin removed
  /\ faults < MaxFaults /\ faults' = faults + 1
  /\ removed' = removed \cup {p} /\ numbered' = numbered \ {p}
  /\ UNCHANGED <<creds, queue, credsFile, queueFile, hand, work, gone, forbidden, pairs>>

\* The process dies: threads and unwritten preferences are gone.
PhoneCrash ==
  /\ faults < MaxFaults
  /\ faults' = faults + 1
  /\ LET inHand == {e \in Events : hand[e].st \in {"resolve", "post"}} IN
       /\ gone' = gone \cup inHand \cup (Buffered \ OnFile)
       /\ hand' = [e \in Events |-> IF e \in inHand THEN Done ELSE hand[e]]
  /\ creds' = credsFile /\ queue' = queueFile
  /\ work' = [w \in Workers |-> Off]
  /\ UNCHANGED <<credsFile, queueFile, numbered, removed, forbidden, pairs>>

-----------------------------------------------------------------------------
DispatcherStep(e) == Arrive(e) \/ Resolve(e) \/ DeliverOrBuffer(e)

WorkerStep(w) == Registered(w) \/ HeartbeatAnswered(w) \/ Retry(w) \/ Settle(w)

PhoneNext ==
  \/ \E e \in Events : DispatcherStep(e)
  \/ \E w \in Workers : WorkerStep(w)
  \/ StartService \/ Heartbeat \/ FlushQueue \/ FlushCreds
  \/ \E p \in Pairings : Number(p) \/ RemoveDevice(p)
  \/ Pair \/ Unpair \/ PhoneCrash

PhoneSpec == PhoneInit /\ [][PhoneNext]_phoneVars

ServiceThread == StartService \/ Heartbeat \/ WorkerStep("service")

\* Calls end, the loop goes on and Android restarts the service (START_STICKY, BootReceiver);
\* nobody has to pair a phone, send a signal or write a file.
PhoneFairness == WF_phoneVars(ServiceThread)

FairPhoneSpec == PhoneSpec /\ PhoneFairness

-----------------------------------------------------------------------------
\* An event the dispatcher is done with was answered for, pushed out by newer ones at the cap, or
\* stands in the buffer, although drains and fresh events change the buffer under each
\* other's snapshots; a crash takes only what was in hand or not written yet (InboundQueue.kt:
\* "survives process death/reboot", "avoids races if the queue changed between peek and remove").
EventsKept ==
  \A e \in Events :
    hand[e].st = "done" => e \in gone \cup Buffered

\* Only an answer that comes late, for a pairing the phone no longer has, can leave it with a
\* number that is not its own, whatever is unpaired, scanned, crashed and restored in between;
\* and a report is forbidden as another device's only on a phone that was paired again, whatever
\* else Auth denies and whichever devices the operator removes (CredentialStore.kt clear).
OwnNumberOnly ==
  /\ ~creds.late => creds.number \in {Nil, creds.pairing}
  /\ forbidden => pairs > 1

\* With a pairing that has a number the buffer empties for good once the outage is over.
BufferDrains ==
  <>[](creds.pairing \in numbered) => <>[](queue = <<>>)

\* A late answer for the old pairing may overwrite the number of the new one, not for good.
NumberHeals ==
  <>[](creds.pairing \in numbered) => <>[](creds.number = creds.pairing)
=============================================================================
