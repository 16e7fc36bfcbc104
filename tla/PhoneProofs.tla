---------------------------- MODULE PhoneProofs ----------------------------
(***************************************************************************)
(* What holds of the Android receiver for any number of events, pairings   *)
(* and faults and any cap of its buffer: the types, that no event is lost  *)
(* silently, and that the number of a pairing reaches no other one except  *)
(* by an answer that came too late.                                        *)
(***************************************************************************)
EXTENDS AndroidReceiver, SequenceTheorems, WellFoundedInduction, TLAPS

-----------------------------------------------------------------------------
(* Sequences *)

\* A set of numbers that is not empty has a least one.
LEMMA LeastExists ==
  ASSUME NEW T \in SUBSET Nat, T # {}
  PROVE  \E x \in T : \A y \in T : x <= y
<1>1. PICK x \in T : \A y \in T : <<y, x>> \notin OpToRel(<, Nat)
  BY NatLessThanWellFounded, WFMin
<1>2. \A y \in T : ~(y < x)
  BY <1>1 DEF OpToRel
<1> QED BY <1>2

\* Removing an element takes one occurrence of it and leaves the others.
LEMMA RemoveFirstProperties ==
  ASSUME NEW S, NEW s \in Seq(S), NEW e
  PROVE  /\ RemoveFirst(s, e) \in Seq(S)
         /\ Len(RemoveFirst(s, e)) <= Len(s)
         /\ \A i \in 1..Len(s) :
              s[i] = e \/ \E j \in 1..Len(RemoveFirst(s, e)) : RemoveFirst(s, e)[j] = s[i]
<1>1. CASE \E i \in 1..Len(s) : s[i] = e
  <2> DEFINE I == {i \in 1..Len(s) : s[i] = e}
  <2>1. \E x \in I : \A y \in I : x <= y
    <3>1. I \in SUBSET Nat /\ I # {}
      BY <1>1
    <3> QED BY <3>1, LeastExists
  <2>2. SelectInSeq(s, LAMBDA v : v = e) = CHOOSE x \in I : \A y \in I : x <= y
    BY <1>1 DEF SelectInSeq, Min
  <2>3. PICK k \in 1..Len(s) : k = SelectInSeq(s, LAMBDA v : v = e) /\ s[k] = e
    BY <2>1, <2>2
  <2> DEFINE a == SubSeq(s, 1, k - 1)
             b == SubSeq(s, k + 1, Len(s))
  <2>4. RemoveFirst(s, e) = a \o b
    BY <1>1, <2>3 DEF RemoveFirst, RemoveAt
  <2>5. Len(s) \in Nat /\ \A i \in 1..Len(s) : s[i] \in S
    OBVIOUS
  <2>6. /\ a \in Seq(S) /\ Len(a) = k - 1
        /\ \A i \in 1..(k - 1) : a[i] = s[i]
    BY <2>5, SubSeqProperties
  <2>7. /\ b \in Seq(S) /\ Len(b) = Len(s) - k
        /\ \A i \in 1..(Len(s) - k) : b[i] = s[k + i]
    BY <2>5, SubSeqProperties
  <2> HIDE DEF a, b, I
  <2>8. /\ a \o b \in Seq(S) /\ Len(a \o b) = (k - 1) + (Len(s) - k)
        /\ \A i \in 1..((k - 1) + (Len(s) - k)) :
             (a \o b)[i] = IF i <= k - 1 THEN a[i] ELSE b[i - (k - 1)]
    <3>1. /\ a \o b \in Seq(S) /\ Len(a \o b) = Len(a) + Len(b)
          /\ \A i \in 1..(Len(a) + Len(b)) :
               (a \o b)[i] = IF i <= Len(a) THEN a[i] ELSE b[i - Len(a)]
      BY <2>6, <2>7, ConcatProperties
    <3> QED BY <2>6, <2>7, <3>1
  <2>9. /\ k \in Nat /\ 1 <= k /\ k <= Len(s) /\ (k - 1) + (Len(s) - k) = Len(s) - 1
    BY <2>5
  <2>10. ASSUME NEW i \in 1..Len(s), i # k
        PROVE  \E j \in 1..(Len(s) - 1) : (a \o b)[j] = s[i]
    <3>1. CASE i < k
      <4>1. i \in 1..(k - 1) /\ i \in 1..(Len(s) - 1) /\ i <= k - 1
        BY <3>1, <2>5, <2>9
      <4>2. (a \o b)[i] = s[i]
        BY <4>1, <2>6, <2>8, <2>9
      <4> QED BY <4>1, <4>2
    <3>2. CASE i > k
      <4>1. PICK h \in 1..(Len(s) - k) : i = k + h
        BY <3>2, <2>5, <2>9
      <4>2. /\ i - 1 \in 1..(Len(s) - 1) /\ ~(i - 1 <= k - 1)
            /\ (i - 1) - (k - 1) = h
        BY <3>2, <4>1, <2>5, <2>9
      <4>3. (a \o b)[i - 1] = s[i]
        BY <4>1, <4>2, <2>7, <2>8, <2>9
      <4> QED BY <4>2, <4>3
    <3>3. i < k \/ i > k
      BY <2>9, <2>10
    <3> QED BY <3>1, <3>2, <3>3
  <2>11. Len(RemoveFirst(s, e)) = Len(s) - 1
    BY <2>4, <2>8, <2>9
  <2>12. Len(RemoveFirst(s, e)) <= Len(s)
    BY <2>5, <2>11
  <2>13. RemoveFirst(s, e) \in Seq(S)
    BY <2>4, <2>8
  <2>14. \A i \in 1..Len(s) :
           s[i] = e \/ \E j \in 1..Len(RemoveFirst(s, e)) : RemoveFirst(s, e)[j] = s[i]
    BY <2>3, <2>4, <2>10, <2>11
  <2> QED BY <2>12, <2>13, <2>14
<1>2. CASE ~\E i \in 1..Len(s) : s[i] = e
  BY <1>2 DEF RemoveFirst
<1> QED BY <1>1, <1>2

-----------------------------------------------------------------------------
(* The inductive invariant: the types, with every pairing and number bounded by the pairing
   scanned last, and whoever is in a call has a pairing. *)

EntryUpTo(n) == [ev : Events, num : 0..n]
CredsUpTo(n) == [pairing : 0..n, number : 0..n, late : BOOLEAN]
HandUpTo(n) == [st : {"new", "resolve", "post", "done"}, as : 0..n, num : 0..n]
WorkUpTo(n) == [st : {"off", "register", "pause", "beat", "drain", "answered"},
                as : 0..n, todo : Seq(EntryUpTo(n))]

Scalars ==
  /\ numbered \subseteq Pairings /\ removed \subseteq Pairings \ numbered
  /\ gone \subseteq Events
  /\ forbidden \in BOOLEAN /\ faults \in 0..MaxFaults /\ pairs \in 0..MaxPairings

OwnUnlessLate(c) == ~c.late => c.number \in {Nil, c.pairing}

CredsInv ==
  /\ creds \in CredsUpTo(pairs) /\ credsFile \in CredsUpTo(pairs)
  /\ OwnUnlessLate(creds) /\ OwnUnlessLate(credsFile)

QueueOK(q) == q \in Seq(EntryUpTo(pairs)) /\ Len(q) <= MaxEntries

QueueInv == QueueOK(queue) /\ QueueOK(queueFile)

HandOK(h) ==
  /\ h.st \in {"resolve", "post"} => h.as # Nil
  /\ h.st = "post" => h.num # Nil

HandInv ==
  /\ hand \in [Events -> HandUpTo(pairs)]
  /\ \A e \in Events : HandOK(hand[e])

WorkOK(x) ==
  /\ x.st \in {"drain", "answered"} <=> x.todo # <<>>
  /\ x.st \in Busy => x.as # Nil

WorkInv ==
  /\ work \in [Workers -> WorkUpTo(pairs)]
  /\ \A w \in Workers : WorkOK(work[w])

PhoneInv ==
  /\ Scalars /\ CredsInv /\ QueueInv /\ HandInv /\ WorkInv
  /\ EventsKept
  /\ forbidden => pairs > 1

LEMMA TypeFollows == PhoneInv => PhoneTypeOK
<1> SUFFICES ASSUME PhoneInv PROVE PhoneTypeOK
  OBVIOUS
<1>1. 0..pairs \subseteq Pairings \cup {Nil}
  BY AndroidAssumption DEF PhoneInv, Scalars, Pairings, Nil
<1>2. EntryUpTo(pairs) \subseteq Entry
  BY <1>1 DEF EntryUpTo, Entry
<1>3. Seq(EntryUpTo(pairs)) \subseteq Seq(Entry)
  BY <1>2, SeqMonotonic
<1>4. {creds, credsFile} \subseteq [pairing : Pairings \cup {Nil}, number : Pairings \cup {Nil},
                                  late : BOOLEAN]
  BY <1>1 DEF PhoneInv, CredsInv, CredsUpTo
<1>5. /\ queue \in Seq(Entry) /\ queueFile \in Seq(Entry)
      /\ Len(queue) <= MaxEntries /\ Len(queueFile) <= MaxEntries
  BY <1>3 DEF PhoneInv, QueueInv, QueueOK
<1>6. hand \in [Events -> [st : {"new", "resolve", "post", "done"},
                          as : Pairings \cup {Nil}, num : Pairings \cup {Nil}]]
  BY <1>1 DEF PhoneInv, HandInv, HandUpTo
<1>7. work \in [Workers -> [st : {"off", "register", "pause", "beat", "drain", "answered"},
                           as : Pairings \cup {Nil}, todo : Seq(Entry)]]
  BY <1>1, <1>3 DEF PhoneInv, WorkInv, WorkUpTo
<1> QED BY <1>4, <1>5, <1>6, <1>7 DEF PhoneInv, Scalars, WorkInv, WorkOK, PhoneTypeOK

LEMMA PhoneInvInit == PhoneInit => PhoneInv
<1> SUFFICES ASSUME PhoneInit PROVE PhoneInv
  OBVIOUS
<1>0. Unpaired \in CredsUpTo(0) /\ OwnUnlessLate(Unpaired)
  BY DEF Unpaired, CredsUpTo, OwnUnlessLate, Nil
<1>1. Scalars /\ CredsInv
  <2>1. MaxFaults \in Nat /\ MaxPairings \in Nat
    BY AndroidAssumption
  <2>2. 0 \in 0..MaxFaults /\ 0 \in 0..MaxPairings
    BY <2>1
  <2>a. /\ numbered \subseteq Pairings /\ removed \subseteq Pairings \ numbered
        /\ gone \subseteq Events /\ forbidden \in BOOLEAN
    BY DEF PhoneInit
  <2>b. Scalars
    BY <2>2, <2>a DEF PhoneInit, Scalars
  <2>3. CredsInv
    BY <1>0 DEF PhoneInit, CredsInv
  <2> QED BY <2>b, <2>3
<1>2. QueueInv
  BY AndroidAssumption, EmptySeq DEF PhoneInit, QueueInv, QueueOK
<1>3. HandInv /\ EventsKept
  BY DEF PhoneInit, HandInv, HandUpTo, HandOK, EventsKept, New, Nil
<1>4. WorkInv
  BY EmptySeq DEF PhoneInit, WorkInv, WorkUpTo, WorkOK, Busy, Off, Nil
<1> QED BY <1>1, <1>2, <1>3, <1>4 DEF PhoneInv, PhoneInit

-----------------------------------------------------------------------------
(* What the steps do to the parts *)

LEMMA EntryMoves ==
  ASSUME NEW e \in Events, NEW n \in 0..pairs
  PROVE  [ev |-> e, num |-> n] \in EntryUpTo(pairs)
BY DEF EntryUpTo

\* One dispatcher thread moves on.
LEMMA HandMoves ==
  ASSUME HandInv, NEW e \in Events, NEW h \in HandUpTo(pairs), HandOK(h),
         hand' = [hand EXCEPT ![e] = h], UNCHANGED pairs
  PROVE  HandInv'
BY DEF HandInv, HandOK, HandUpTo

\* One worker moves on.
LEMMA WorkMoves ==
  ASSUME WorkInv, NEW w \in Workers, NEW x \in WorkUpTo(pairs), WorkOK(x),
         work' = [work EXCEPT ![w] = x], UNCHANGED pairs
  PROVE  WorkInv'
BY DEF WorkInv, WorkOK, WorkUpTo

\* An entry is buffered; what it pushes out is recorded.
LEMMA EnqueueKeeps ==
  ASSUME PhoneInv, NEW e \in Events, NEW n \in 0..pairs, Enqueue([ev |-> e, num |-> n]),
         UNCHANGED <<queueFile, pairs>>
  PROVE  /\ QueueInv'
         /\ gone' \subseteq Events
         /\ gone \cup Buffered \subseteq (gone \cup Buffered)'
         /\ e \in (gone \cup Buffered)'
<1> DEFINE entry == [ev |-> e, num |-> n]
           all == Append(queue, entry)
<1>0. /\ entry \in EntryUpTo(pairs) /\ entry.ev = e
      /\ queue \in Seq(EntryUpTo(pairs)) /\ Len(queue) <= MaxEntries /\ Len(queue) \in Nat
      /\ MaxEntries \in Nat
  BY AndroidAssumption, EntryMoves DEF PhoneInv, QueueInv, QueueOK
<1>x. /\ queue' = IF Len(all) > MaxEntries THEN Tail(all) ELSE all
      /\ gone' = IF Len(all) > MaxEntries THEN gone \cup {Head(all).ev} ELSE gone
  BY DEF Enqueue
<1>1. /\ all \in Seq(EntryUpTo(pairs)) /\ all # <<>> /\ Len(all) = Len(queue) + 1
      /\ \A i \in 1..Len(queue) : all[i] = queue[i]
      /\ all[Len(all)] = entry
  BY <1>0, AppendProperties
<1>2. Buffered \cup {e} \subseteq {all[i].ev : i \in 1..Len(all)}
  BY <1>0, <1>1 DEF Buffered
<1> HIDE DEF all, entry
<1>3. CASE Len(all) > MaxEntries
  <2>1. /\ Tail(all) \in Seq(EntryUpTo(pairs)) /\ Len(Tail(all)) = Len(all) - 1
        /\ \A i \in 1..(Len(all) - 1) : Tail(all)[i] = all[i + 1]
        /\ Head(all) \in EntryUpTo(pairs) /\ Head(all) = all[1]
    BY <1>1, HeadTailProperties
  <2>2. queue' = Tail(all) /\ gone' = gone \cup {all[1].ev} /\ Head(all).ev \in Events
    BY <1>3, <1>x, <2>1 DEF EntryUpTo
  <2>3. ASSUME NEW i \in 1..Len(all)
        PROVE  all[i].ev \in (gone \cup Buffered)'
    <3>1. CASE i = 1
      BY <3>1, <2>2
    <3>2. CASE i # 1
      <4>1. i - 1 \in 1..(Len(all) - 1) /\ (i - 1) + 1 = i
        BY <1>0, <1>1, <3>2
      <4>2. i - 1 \in DOMAIN queue' /\ queue'[i - 1] = all[i]
        BY <2>1, <2>2, <4>1
      <4> QED BY <4>2 DEF Buffered
    <3> QED BY <3>1, <3>2
  <2>4. QueueInv'
    BY <1>0, <1>1, <2>1, <2>2 DEF QueueInv, QueueOK, PhoneInv
  <2>5. gone' \subseteq Events /\ gone \subseteq gone'
    BY <2>1, <2>2 DEF PhoneInv, Scalars
  <2> QED BY <1>2, <2>3, <2>4, <2>5
<1>4. CASE ~(Len(all) > MaxEntries)
  <2>1. queue' = all /\ gone' = gone
    BY <1>4, <1>x
  <2>2. Buffered' = {all[i].ev : i \in 1..Len(all)}
    BY <1>1, <2>1 DEF Buffered
  <2>3. QueueInv'
    BY <1>0, <1>1, <1>4, <2>1 DEF QueueInv, QueueOK, PhoneInv
  <2> QED BY <1>2, <2>1, <2>2, <2>3 DEF PhoneInv, Scalars
<1> QED BY <1>3, <1>4

\* An entry leaves the buffer; what leaves is recorded.
LEMMA SettleKeeps ==
  ASSUME PhoneInv, NEW entry \in EntryUpTo(pairs), queue' = Removed(queue, entry),
         gone' = gone \cup {entry.ev}, UNCHANGED <<queueFile, pairs>>
  PROVE  /\ QueueInv'
         /\ gone' \subseteq Events
         /\ gone \cup Buffered \subseteq (gone \cup Buffered)'
<1>0. /\ queue \in Seq(EntryUpTo(pairs)) /\ Len(queue) <= MaxEntries /\ Len(queue) \in Nat
      /\ MaxEntries \in Nat
  BY AndroidAssumption DEF PhoneInv, QueueInv, QueueOK
<1>1. /\ queue' \in Seq(EntryUpTo(pairs)) /\ Len(queue') <= Len(queue)
      /\ \A i \in 1..Len(queue) :
           queue[i] = entry \/ \E j \in 1..Len(queue') : queue'[j] = queue[i]
  BY <1>0, RemoveFirstProperties DEF Removed
<1>2. Len(queue') \in Nat /\ DOMAIN queue' = 1..Len(queue') /\ DOMAIN queue = 1..Len(queue)
  BY <1>0, <1>1
<1>3. QueueInv'
  BY <1>0, <1>1, <1>2 DEF QueueInv, QueueOK, PhoneInv
<1>4. ASSUME NEW i \in 1..Len(queue)
      PROVE  queue[i].ev \in (gone \cup Buffered)'
  <2>1. CASE queue[i] = entry
    BY <2>1
  <2>2. CASE queue[i] # entry
    <3>1. PICK j \in 1..Len(queue') : queue'[j] = queue[i]
      BY <1>1, <2>2
    <3> QED BY <3>1, <1>2 DEF Buffered
  <2> QED BY <2>1, <2>2
<1>5. Buffered \subseteq (gone \cup Buffered)'
  BY <1>2, <1>4 DEF Buffered
<1>6. entry.ev \in Events
  BY DEF EntryUpTo
<1> QED BY <1>3, <1>5, <1>6 DEF PhoneInv, Scalars

-----------------------------------------------------------------------------
(* Steps.  One that changes neither the buffer nor what is done with keeps EventsKept. *)

LEMMA KeptStays ==
  ASSUME EventsKept, (gone \cup Buffered) \subseteq (gone \cup Buffered)',
         \A e \in Events :
           hand'[e].st = "done" => hand[e].st = "done" \/ e \in (gone \cup Buffered)'
  PROVE  EventsKept'
BY DEF EventsKept

LEMMA ArriveKeeps ==
  ASSUME PhoneInv, NEW e \in Events, Arrive(e)
  PROVE  PhoneInv'
<1> DEFINE h == [st |-> "resolve", as |-> creds.pairing, num |-> Nil]
<1>1. h \in HandUpTo(pairs) /\ HandOK(h)
  BY DEF PhoneInv, Scalars, CredsInv, CredsUpTo, HandUpTo, HandOK, Arrive, Nil
<1>2. hand' = [hand EXCEPT ![e] = h] /\ h.st # "done"
  BY DEF Arrive
<1> HIDE DEF h
<1>3. UNCHANGED <<creds, queue, credsFile, queueFile, work, numbered, removed, gone, forbidden,
                  faults, pairs>>
  BY DEF Arrive
<1>4. HandInv'
  BY <1>1, <1>2, <1>3, HandMoves DEF PhoneInv
<1>5. EventsKept'
  BY <1>2, <1>3 DEF PhoneInv, HandInv, EventsKept, Buffered
<1>6. Scalars' /\ CredsInv' /\ QueueInv' /\ WorkInv'
  BY <1>3 DEF PhoneInv, Scalars, CredsInv, OwnUnlessLate, QueueInv, QueueOK, WorkInv
<1> QED BY <1>3, <1>4, <1>5, <1>6 DEF PhoneInv

\* The dispatcher is done with an event it buffered, or the coordinator answered for.
LEMMA DoneKeeps ==
  ASSUME PhoneInv, NEW e \in Events, hand' = [hand EXCEPT ![e] = Done],
         QueueInv', gone' \subseteq Events,
         (gone \cup Buffered) \subseteq (gone \cup Buffered)', e \in (gone \cup Buffered)',
         UNCHANGED <<creds, credsFile, queueFile, work, numbered, removed, pairs>>,
         forbidden' \in BOOLEAN, forbidden' => pairs > 1, faults' \in 0..MaxFaults
  PROVE  PhoneInv'
<1>1. Done \in HandUpTo(pairs) /\ HandOK(Done)
  BY DEF PhoneInv, Scalars, Done, New, Nil, HandUpTo, HandOK
<1>2. HandInv'
  BY <1>1, HandMoves DEF PhoneInv
<1>3. \A f \in Events : f # e => hand'[f] = hand[f]
  BY DEF PhoneInv, HandInv
<1>4. EventsKept'
  BY <1>3, KeptStays DEF PhoneInv
<1>5. Scalars' /\ CredsInv' /\ WorkInv'
  BY DEF PhoneInv, Scalars, CredsInv, OwnUnlessLate, WorkInv
<1> QED BY <1>2, <1>4, <1>5 DEF PhoneInv

LEMMA ResolveKeeps ==
  ASSUME PhoneInv, NEW e \in Events, Resolve(e)
  PROVE  PhoneInv'
<1>0. UNCHANGED <<creds, credsFile, queueFile, work, numbered, removed, forbidden, faults, pairs>>
  BY DEF Resolve
<1>1. CASE creds.number = Nil
  <2>1. Enqueue([ev |-> e, num |-> Nil]) /\ hand' = [hand EXCEPT ![e] = Done]
    BY <1>1 DEF Resolve
  <2>2. Nil \in 0..pairs
    BY DEF PhoneInv, Scalars, Nil
  <2>3. /\ QueueInv' /\ gone' \subseteq Events
        /\ gone \cup Buffered \subseteq (gone \cup Buffered)'
        /\ e \in (gone \cup Buffered)'
    BY <1>0, <2>1, <2>2, EnqueueKeeps
  <2> QED BY <1>0, <2>1, <2>3, DoneKeeps DEF PhoneInv, Scalars
<1>2. CASE creds.number # Nil
  <2>1. /\ hand' = [hand EXCEPT ![e].st = "post", ![e].num = creds.number]
        /\ UNCHANGED <<queue, gone>> /\ hand[e].st = "resolve"
    BY <1>2 DEF Resolve
  <2>2. PICK h : h = [hand[e] EXCEPT !.st = "post", !.num = creds.number]
    OBVIOUS
  <2>3. hand' = [hand EXCEPT ![e] = h]
    BY <2>1, <2>2 DEF PhoneInv, HandInv
  <2>4. hand[e] \in HandUpTo(pairs) /\ creds.number \in 0..pairs /\ hand[e].as # Nil
    BY <2>1 DEF PhoneInv, HandInv, HandOK, CredsInv, CredsUpTo
  <2>5. h \in HandUpTo(pairs) /\ h.st = "post" /\ h.num # Nil /\ h.as # Nil
    BY <1>2, <2>2, <2>4 DEF HandUpTo
  <2>6. HandInv'
    BY <1>0, <2>3, <2>5, HandMoves DEF PhoneInv, HandOK
  <2>7. EventsKept'
    BY <2>1, <2>3, <2>5 DEF PhoneInv, HandInv, EventsKept, Buffered
  <2>8. Scalars' /\ CredsInv' /\ QueueInv' /\ WorkInv'
    BY <1>0, <2>1 DEF PhoneInv, Scalars, CredsInv, OwnUnlessLate, QueueInv, QueueOK, WorkInv
  <2> QED BY <1>0, <2>6, <2>7, <2>8 DEF PhoneInv
<1> QED BY <1>1, <1>2

LEMMA TwoNumbers ==
  ASSUME NEW n \in Nat, NEW a \in 0..n, NEW b \in 0..n, a # 0, b # 0, a # b
  PROVE  n > 1
OBVIOUS

LEMMA DeniesSound ==
  ASSUME PhoneInv, NEW as, Denies(as)
  PROVE  forbidden' = forbidden /\ faults' \in 0..MaxFaults
<1>1. faults' = faults \/ (faults < MaxFaults /\ faults' = faults + 1)
  BY DEF Denies
<1>2. faults \in 0..MaxFaults /\ MaxFaults \in Nat
  BY AndroidAssumption DEF PhoneInv, Scalars
<1> QED BY <1>1, <1>2 DEF Denies

\* With one pairing there is one number: nothing to forbid, whatever else is denied.
LEMMA AnswerSound ==
  ASSUME PhoneInv, NEW as \in 0..pairs, NEW num \in 0..pairs, as # Nil, num # Nil,
         Final(as, num)
  PROVE  forbidden' \in BOOLEAN /\ (forbidden' => pairs > 1) /\ faults' \in 0..MaxFaults
<1>1. /\ forbidden \in BOOLEAN /\ (forbidden => pairs > 1) /\ pairs \in Nat
      /\ faults \in 0..MaxFaults
  BY AndroidAssumption DEF PhoneInv, Scalars
<1>2. CASE Takes(as, num)
  BY <1>1, <1>2 DEF Takes
<1>3. CASE Refuses(as, num)
  <2>1. forbidden' = TRUE /\ faults' = faults
    BY <1>3 DEF Refuses
  <2>2. pairs \in Nat /\ as # num
    BY <1>1, <1>3 DEF Refuses
  <2>3. pairs > 1
    BY <2>2, TwoNumbers DEF Nil
  <2> QED BY <1>1, <2>1, <2>3
<1>4. CASE Denies(as)
  BY <1>1, <1>4, DeniesSound
<1> QED BY <1>2, <1>3, <1>4 DEF Final

LEMMA NoAnswerSound ==
  ASSUME PhoneInv, NoAnswer
  PROVE  forbidden' = forbidden /\ faults' \in 0..MaxFaults
BY AndroidAssumption DEF PhoneInv, Scalars, NoAnswer

LEMMA DeliverKeeps ==
  ASSUME PhoneInv, NEW e \in Events, DeliverOrBuffer(e)
  PROVE  PhoneInv'
<1>0. /\ UNCHANGED <<creds, credsFile, queueFile, work, numbered, removed, pairs>>
      /\ hand' = [hand EXCEPT ![e] = Done]
  BY DEF DeliverOrBuffer
<1>1. PICK as \in 0..pairs, num \in 0..pairs :
         as = hand[e].as /\ num = hand[e].num /\ as # Nil /\ num # Nil
  BY DEF PhoneInv, HandInv, HandOK, HandUpTo, DeliverOrBuffer
<1>2. CASE Final(as, num) /\ gone' = gone \cup {e} /\ UNCHANGED queue
  <2>1. forbidden' \in BOOLEAN /\ (forbidden' => pairs > 1) /\ faults' \in 0..MaxFaults
    BY <1>1, <1>2, AnswerSound
  <2>2. /\ QueueInv' /\ gone' \subseteq Events
        /\ gone \cup Buffered \subseteq (gone \cup Buffered)'
        /\ e \in (gone \cup Buffered)'
    BY <1>0, <1>2 DEF PhoneInv, Scalars, QueueInv, QueueOK, Buffered
  <2> QED BY <1>0, <2>1, <2>2, DoneKeeps DEF PhoneInv, Scalars
<1>3. CASE NoAnswer /\ Enqueue([ev |-> e, num |-> num])
  <2>1. forbidden' = forbidden /\ faults' \in 0..MaxFaults
    BY <1>3, NoAnswerSound
  <2>2. /\ QueueInv' /\ gone' \subseteq Events
        /\ gone \cup Buffered \subseteq (gone \cup Buffered)'
        /\ e \in (gone \cup Buffered)'
    BY <1>0, <1>3, EnqueueKeeps
  <2> QED BY <1>0, <2>1, <2>2, DoneKeeps DEF PhoneInv, Scalars
<1> QED BY <1>1, <1>2, <1>3 DEF DeliverOrBuffer

-----------------------------------------------------------------------------
(* The workers *)

LEMMA RestOK ==
  ASSUME PhoneInv, NEW w
  PROVE  /\ Off \in WorkUpTo(pairs) /\ WorkOK(Off)
         /\ Rest(w) \in WorkUpTo(pairs) /\ WorkOK(Rest(w))
<1>1. 0 \in 0..pairs /\ <<>> \in Seq(EntryUpTo(pairs))
  BY EmptySeq DEF PhoneInv, Scalars
<1>2. Off \in WorkUpTo(pairs) /\ WorkOK(Off)
  BY <1>1 DEF Off, WorkUpTo, WorkOK, Busy, Nil
<1>3. PICK r : r = [Off EXCEPT !.st = "pause"]
  OBVIOUS
<1>4. r \in WorkUpTo(pairs) /\ r.st = "pause" /\ r.todo = <<>>
  BY <1>2, <1>3 DEF WorkUpTo, Off
<1>5. WorkOK(r)
  BY <1>4 DEF WorkOK, Busy
<1> QED BY <1>2, <1>3, <1>4, <1>5 DEF Rest

LEMMA DrainOK ==
  ASSUME PhoneInv, NEW w
  PROVE  Drain(w) \in WorkUpTo(pairs) /\ WorkOK(Drain(w))
<1>1. CASE creds.pairing = Nil \/ queue = <<>>
  BY <1>1, RestOK DEF Drain
<1>2. CASE ~(creds.pairing = Nil \/ queue = <<>>)
  <2>1. PICK r : r = [st |-> "drain", as |-> creds.pairing, todo |-> queue]
    OBVIOUS
  <2>2. r \in WorkUpTo(pairs) /\ r.st = "drain" /\ r.as # Nil /\ r.todo # <<>>
    BY <1>2, <2>1 DEF PhoneInv, CredsInv, CredsUpTo, QueueInv, QueueOK, WorkUpTo
  <2> QED BY <1>2, <2>1, <2>2 DEF Drain, WorkOK
<1> QED BY <1>1, <1>2

LEMMA OnwardOK ==
  ASSUME PhoneInv, NEW w \in Workers, work[w].st \in {"drain", "answered"}
  PROVE  Onward(w) \in WorkUpTo(pairs) /\ WorkOK(Onward(w))
<1>1. /\ work[w] \in WorkUpTo(pairs) /\ work[w].todo # <<>> /\ work[w].as # Nil
      /\ work[w].todo \in Seq(EntryUpTo(pairs))
  BY DEF PhoneInv, WorkInv, WorkOK, WorkUpTo, Busy
<1>2. CASE Len(work[w].todo) = 1
  BY <1>2, RestOK DEF Onward
<1>3. CASE Len(work[w].todo) # 1
  <2>1. PICK t \in Seq(EntryUpTo(pairs)) : t = Tail(work[w].todo) /\ t # <<>>
    <3>1. PICK s \in Seq(EntryUpTo(pairs)) : s = work[w].todo /\ s # <<>> /\ Len(s) # 1
      BY <1>1, <1>3
    <3>2. Tail(s) \in Seq(EntryUpTo(pairs)) /\ Len(Tail(s)) = Len(s) - 1 /\ Len(s) \in Nat
      BY <3>1, HeadTailProperties
    <3>3. PICK t \in Seq(EntryUpTo(pairs)) : t = Tail(s)
      BY <3>2
    <3>4. Len(t) # 0
      BY <3>1, <3>2, <3>3
    <3>5. t # <<>>
      BY <3>4
    <3> QED BY <3>1, <3>3, <3>5
  <2>2. PICK r : r = [work[w] EXCEPT !.st = "drain", !.todo = t]
    OBVIOUS
  <2>3. r \in WorkUpTo(pairs) /\ r.st = "drain" /\ r.as = work[w].as /\ r.todo = t
    BY <1>1, <2>2 DEF WorkUpTo
  <2> QED BY <1>1, <1>3, <2>1, <2>2, <2>3 DEF Onward, WorkOK
<1> QED BY <1>2, <1>3

\* A worker moves on, perhaps with an answer, and touches neither the buffer nor the dispatcher.
LEMMA WorkerKeeps ==
  ASSUME PhoneInv, WorkInv',
         UNCHANGED <<queue, credsFile, queueFile, hand, numbered, removed, gone, pairs>>,
         creds' \in CredsUpTo(pairs), OwnUnlessLate(creds'),
         forbidden' \in BOOLEAN, forbidden' => pairs > 1, faults' \in 0..MaxFaults
  PROVE  PhoneInv'
<1>1. Scalars' /\ CredsInv' /\ QueueInv' /\ HandInv'
  BY DEF PhoneInv, Scalars, CredsInv, OwnUnlessLate, QueueInv, QueueOK, HandInv
<1>2. EventsKept'
  BY DEF PhoneInv, EventsKept, Buffered
<1> QED BY <1>1, <1>2 DEF PhoneInv

LEMMA LearnedOK ==
  ASSUME PhoneInv, NEW w \in Workers
  PROVE  Learned(w) \in CredsUpTo(pairs) /\ OwnUnlessLate(Learned(w))
<1>1. creds \in CredsUpTo(pairs) /\ work[w].as \in 0..pairs /\ Nil \in 0..pairs
  BY DEF PhoneInv, Scalars, CredsInv, WorkInv, WorkUpTo, Nil
<1>2. PICK n \in 0..pairs : n = Named(work[w].as) /\ n \in {Nil, work[w].as}
  BY <1>1 DEF Named
<1>3. PICK l \in BOOLEAN : l = (work[w].as # creds.pairing)
  OBVIOUS
<1>4. PICK r : r = [creds EXCEPT !.number = n, !.late = l]
  OBVIOUS
<1>5. r \in CredsUpTo(pairs) /\ r.pairing = creds.pairing /\ r.number = n /\ r.late = l
  BY <1>1, <1>4 DEF CredsUpTo
<1>6. OwnUnlessLate(r)
  BY <1>2, <1>3, <1>5 DEF OwnUnlessLate
<1> QED BY <1>2, <1>3, <1>4, <1>5, <1>6 DEF Learned

\* What is no answer, or no success, tells the phone nothing.
LEMMA UnansweredSound ==
  ASSUME PhoneInv, NEW w, Unanswered(w)
  PROVE  creds' = creds /\ forbidden' = forbidden /\ faults' \in 0..MaxFaults
BY NoAnswerSound, DeniesSound DEF Unanswered

LEMMA CallAnswered ==
  ASSUME PhoneInv, NEW w \in Workers, Registered(w) \/ HeartbeatAnswered(w)
  PROVE  PhoneInv'
<1>0. UNCHANGED <<queue, credsFile, queueFile, hand, numbered, removed, gone, pairs>>
  BY DEF Registered, HeartbeatAnswered
<1>1. \/ creds' \in {creds, Learned(w)} /\ UNCHANGED <<forbidden, faults>>
      \/ Unanswered(w)
  BY DEF Registered, HeartbeatAnswered
<1>2. PICK x \in {Off, Drain(w), Rest(w)} : work' = [work EXCEPT ![w] = x]
  BY DEF Registered, HeartbeatAnswered
<1>3. WorkInv'
  BY <1>0, <1>2, RestOK, DrainOK, WorkMoves DEF PhoneInv
<1>4. creds' \in {creds, Learned(w)} /\ forbidden' = forbidden /\ faults' \in 0..MaxFaults
  BY <1>1, UnansweredSound DEF PhoneInv, Scalars
<1>5. creds' \in CredsUpTo(pairs) /\ OwnUnlessLate(creds')
  BY <1>4, LearnedOK DEF PhoneInv, CredsInv
<1> QED BY <1>0, <1>3, <1>4, <1>5, WorkerKeeps DEF PhoneInv, Scalars

LEMMA RetryKeeps ==
  ASSUME PhoneInv, NEW w \in Workers, Retry(w)
  PROVE  PhoneInv'
<1>0. /\ UNCHANGED <<creds, queue, credsFile, queueFile, hand, numbered, removed, gone, pairs>>
      /\ work[w].st = "drain"
  BY DEF Retry
<1>1. /\ work[w] \in WorkUpTo(pairs) /\ work[w].todo # <<>>
      /\ work[w].todo \in Seq(EntryUpTo(pairs))
  BY <1>0 DEF PhoneInv, WorkInv, WorkOK, WorkUpTo
<1>2. PICK as \in 0..pairs : as = work[w].as /\ as # Nil
  BY <1>0 DEF PhoneInv, WorkInv, WorkUpTo, WorkOK, Busy
<1>3. PICK entry \in EntryUpTo(pairs) : entry = Head(work[w].todo)
  BY <1>1, HeadTailProperties
<1>4. PICK num \in 0..pairs : num = NumberFor(entry)
  BY DEF NumberFor, EntryUpTo, PhoneInv, CredsInv, CredsUpTo
<1>5. /\ forbidden' \in BOOLEAN /\ (forbidden' => pairs > 1) /\ faults' \in 0..MaxFaults
  <2>1. CASE UNCHANGED <<forbidden, faults>>
    BY <2>1 DEF PhoneInv, Scalars
  <2>2. CASE num # Nil /\ Final(as, num)
    BY <1>2, <2>2, AnswerSound DEF PhoneInv, Scalars
  <2>3. CASE NoAnswer
    BY <2>3, NoAnswerSound DEF PhoneInv, Scalars
  <2> QED BY <1>2, <1>3, <1>4, <2>1, <2>2, <2>3 DEF Retry
<1>6. WorkInv'
  <2>1. CASE work' = [work EXCEPT ![w] = Onward(w)]
    BY <1>0, <2>1, OnwardOK, WorkMoves DEF PhoneInv
  <2>2. CASE work' = [work EXCEPT ![w].st = "answered"]
    <3>1. PICK x : x = [work[w] EXCEPT !.st = "answered"]
      OBVIOUS
    <3>2. work' = [work EXCEPT ![w] = x]
      BY <2>2, <3>1 DEF PhoneInv, WorkInv
    <3>3. x \in WorkUpTo(pairs) /\ x.st = "answered" /\ x.as = as /\ x.todo # <<>>
      BY <1>1, <1>2, <3>1 DEF WorkUpTo
    <3> QED BY <1>0, <1>2, <3>2, <3>3, WorkMoves DEF PhoneInv, WorkOK
  <2>3. CASE work' = [work EXCEPT ![w] = Rest(w)]
    BY <1>0, <2>3, RestOK, WorkMoves DEF PhoneInv
  <2> QED BY <2>1, <2>2, <2>3 DEF Retry
<1> QED BY <1>0, <1>5, <1>6, WorkerKeeps DEF PhoneInv, CredsInv

LEMMA SettleStep ==
  ASSUME PhoneInv, NEW w \in Workers, Settle(w)
  PROVE  PhoneInv'
<1>0. /\ UNCHANGED <<creds, credsFile, queueFile, hand, numbered, removed, forbidden, faults, pairs>>
      /\ work[w].st = "answered" /\ work' = [work EXCEPT ![w] = Onward(w)]
  BY DEF Settle
<1>1. work[w].todo \in Seq(EntryUpTo(pairs)) /\ work[w].todo # <<>>
  BY <1>0 DEF PhoneInv, WorkInv, WorkOK, WorkUpTo
<1>2. PICK entry \in EntryUpTo(pairs) : entry = Head(work[w].todo)
  BY <1>1, HeadTailProperties
<1>3. queue' = Removed(queue, entry) /\ gone' = gone \cup {entry.ev}
  BY <1>2 DEF Settle
<1>4. /\ QueueInv' /\ gone' \subseteq Events
      /\ gone \cup Buffered \subseteq (gone \cup Buffered)'
  BY <1>0, <1>3, SettleKeeps
<1>5. EventsKept'
  BY <1>0, <1>4, KeptStays DEF PhoneInv
<1>6. WorkInv'
  BY <1>0, OnwardOK, WorkMoves DEF PhoneInv
<1>7. Scalars' /\ CredsInv' /\ HandInv'
  BY <1>0, <1>4 DEF PhoneInv, Scalars, CredsInv, OwnUnlessLate, HandInv
<1> QED BY <1>0, <1>4, <1>5, <1>6, <1>7 DEF PhoneInv

-----------------------------------------------------------------------------
(* The user, the operator and the phone *)

LEMMA CallBegins ==
  ASSUME PhoneInv, StartService \/ Heartbeat
  PROVE  PhoneInv'
<1>0. UNCHANGED <<creds, queue, credsFile, queueFile, hand, numbered, removed, gone, forbidden,
                  faults, pairs>>
  BY DEF StartService, Heartbeat
<1>1. PICK as \in 0..pairs : as = creds.pairing /\ as # Nil
  BY DEF StartService, Heartbeat, PhoneInv, CredsInv, CredsUpTo
<1>2. PICK st \in {"register", "beat"} :
         work' = [work EXCEPT !["service"] = [Off EXCEPT !.st = st, !.as = as]]
  BY <1>1 DEF StartService, Heartbeat
<1>3. PICK x : x = [Off EXCEPT !.st = st, !.as = as]
  OBVIOUS
<1>4. x \in WorkUpTo(pairs) /\ x.st = st /\ x.as = as /\ x.todo = <<>>
  <2>1. <<>> \in Seq(EntryUpTo(pairs))
    BY EmptySeq
  <2>2. x = [st |-> st, as |-> as, todo |-> <<>>]
    BY <1>3 DEF Off
  <2> QED BY <2>1, <2>2 DEF WorkUpTo
<1>5. WorkOK(x)
  BY <1>1, <1>4 DEF WorkOK
<1>6. WorkInv'
  BY <1>0, <1>2, <1>3, <1>4, <1>5, WorkMoves DEF PhoneInv, Workers
<1> QED BY <1>0, <1>6, WorkerKeeps DEF PhoneInv, CredsInv, Scalars

\* What is bounded by one pairing is bounded by the next.
LEMMA UpToGrows ==
  ASSUME PhoneInv, pairs' \in 0..MaxPairings, pairs' = pairs + 1
  PROVE  /\ CredsUpTo(pairs) \subseteq CredsUpTo(pairs')
         /\ Seq(EntryUpTo(pairs)) \subseteq Seq(EntryUpTo(pairs'))
         /\ HandUpTo(pairs) \subseteq HandUpTo(pairs')
         /\ WorkUpTo(pairs) \subseteq WorkUpTo(pairs')
<1>1. 0..pairs \subseteq 0..pairs'
  BY DEF PhoneInv, Scalars
<1>2. EntryUpTo(pairs) \subseteq EntryUpTo(pairs')
  BY <1>1 DEF EntryUpTo
<1>3. Seq(EntryUpTo(pairs)) \subseteq Seq(EntryUpTo(pairs'))
  BY <1>2, SeqMonotonic
<1>4. CredsUpTo(pairs) \subseteq CredsUpTo(pairs')
  BY <1>1 DEF CredsUpTo
<1>5. HandUpTo(pairs) \subseteq HandUpTo(pairs')
  BY <1>1 DEF HandUpTo
<1>6. WorkUpTo(pairs) \subseteq WorkUpTo(pairs')
  BY <1>1, <1>3 DEF WorkUpTo
<1> QED BY <1>3, <1>4, <1>5, <1>6

LEMMA PairKeeps ==
  ASSUME PhoneInv, Pair
  PROVE  PhoneInv'
<1>0. /\ UNCHANGED <<queue, credsFile, queueFile, hand, numbered, removed, gone, forbidden, faults>>
      /\ pairs' = pairs + 1 /\ pairs < MaxPairings /\ pairs \in Nat
      /\ creds.pairing = Nil
  BY DEF Pair, PhoneInv, Scalars
<1>1. PICK n : n = pairs' /\ n \in 0..MaxPairings /\ n \in 0..n /\ n # Nil /\ n = pairs + 1
  BY <1>0, AndroidAssumption DEF Nil
<1>2. /\ CredsUpTo(pairs) \subseteq CredsUpTo(n)
      /\ Seq(EntryUpTo(pairs)) \subseteq Seq(EntryUpTo(n))
      /\ HandUpTo(pairs) \subseteq HandUpTo(n)
      /\ WorkUpTo(pairs) \subseteq WorkUpTo(n)
  BY <1>0, <1>1, UpToGrows
<1>3. creds' \in CredsUpTo(n) /\ OwnUnlessLate(creds')
  <2>1. PICK c : c = [creds EXCEPT !.pairing = n]
    OBVIOUS
  <2>2. creds \in CredsUpTo(n) /\ OwnUnlessLate(creds)
    BY <1>2 DEF PhoneInv, CredsInv
  <2>3. c \in CredsUpTo(n) /\ c.number = creds.number /\ c.late = creds.late
    BY <1>1, <2>1, <2>2 DEF CredsUpTo
  <2>4. creds' = c
    BY <1>1, <2>1 DEF Pair
  <2> QED BY <1>0, <2>2, <2>3, <2>4 DEF OwnUnlessLate
<1>4. PICK x : x = [Off EXCEPT !.st = "register", !.as = n]
  OBVIOUS
<1>5. x \in WorkUpTo(n) /\ WorkOK(x)
  <2>1. x = [st |-> "register", as |-> n, todo |-> <<>>]
    BY <1>4 DEF Off
  <2>2. <<>> \in Seq(EntryUpTo(n))
    BY EmptySeq
  <2>3. x \in WorkUpTo(n)
    BY <1>1, <2>1, <2>2 DEF WorkUpTo
  <2> QED BY <1>1, <2>1, <2>3 DEF WorkOK
<1>6. WorkInv'
  <2>1. work' = [work EXCEPT !["screen"] = x]
    BY <1>1, <1>4 DEF Pair
  <2>2. work' \in [Workers -> WorkUpTo(n)]
    BY <1>2, <1>5, <2>1 DEF PhoneInv, WorkInv
  <2>3. \A w \in Workers : WorkOK(work'[w])
    BY <1>5, <2>1 DEF PhoneInv, WorkInv
  <2> QED BY <1>1, <2>2, <2>3 DEF WorkInv, WorkOK
<1>7. CredsInv' /\ QueueInv' /\ HandInv'
  BY <1>0, <1>1, <1>2, <1>3
     DEF PhoneInv, CredsInv, QueueInv, QueueOK, HandInv, HandOK, OwnUnlessLate
<1>8. Scalars' /\ EventsKept' /\ (forbidden' => pairs' > 1)
  BY <1>0, <1>1 DEF PhoneInv, Scalars, EventsKept, Buffered
<1> QED BY <1>6, <1>7, <1>8 DEF PhoneInv

LEMMA UnpairKeeps ==
  ASSUME PhoneInv, Unpair
  PROVE  PhoneInv'
<1>0. UNCHANGED <<queue, credsFile, queueFile, hand, numbered, removed, gone, forbidden, faults,
                  pairs>>
  BY DEF Unpair
<1>1. creds' \in CredsUpTo(pairs) /\ OwnUnlessLate(creds')
  BY DEF Unpair, Cleared, Unpaired, CredsUpTo, OwnUnlessLate, Nil, PhoneInv, Scalars
<1>2. WorkInv'
  <2>1. \A w \in Workers : work'[w] \in {Off, work["service"], work[w]}
    BY DEF Unpair, PhoneInv, WorkInv
  <2>2. work' = [w \in Workers |-> work'[w]]
    BY DEF Unpair, PhoneInv, WorkInv
  <2>3. \A w \in Workers : work'[w] \in WorkUpTo(pairs) /\ WorkOK(work'[w])
    BY <2>1, RestOK DEF PhoneInv, WorkInv, Workers
  <2> QED BY <1>0, <2>2, <2>3 DEF WorkInv, WorkOK
<1> QED BY <1>0, <1>1, <1>2, WorkerKeeps DEF PhoneInv, Scalars

LEMMA OthersKeep ==
  ASSUME PhoneInv,
         \/ FlushQueue \/ FlushCreds \/ (\E p \in Pairings : Number(p) \/ RemoveDevice(p))
         \/ UNCHANGED phoneVars
  PROVE  PhoneInv'
<1>1. /\ UNCHANGED <<creds, queue, hand, work, gone, forbidden, pairs>>
      /\ credsFile' \in {creds, credsFile} /\ queueFile' \in {queue, queueFile}
      /\ faults' = faults \/ (faults < MaxFaults /\ faults' = faults + 1)
  BY DEF FlushQueue, FlushCreds, Number, RemoveDevice, phoneVars
<1>0. numbered' \subseteq Pairings /\ removed' \subseteq Pairings \ numbered'
  BY DEF FlushQueue, FlushCreds, Number, RemoveDevice, phoneVars, PhoneInv, Scalars
<1>4. faults' \in 0..MaxFaults
  BY <1>1, AndroidAssumption DEF PhoneInv, Scalars
<1>2. Scalars' /\ HandInv' /\ WorkInv' /\ EventsKept'
  BY <1>0, <1>1, <1>4 DEF PhoneInv, Scalars, HandInv, WorkInv, EventsKept, Buffered
<1>3. CredsInv' /\ QueueInv'
  BY <1>1 DEF PhoneInv, CredsInv, OwnUnlessLate, QueueInv, QueueOK
<1> QED BY <1>1, <1>2, <1>3 DEF PhoneInv

LEMMA CrashKeeps ==
  ASSUME PhoneInv, PhoneCrash
  PROVE  PhoneInv'
<1> DEFINE inHand == {e \in Events : hand[e].st \in {"resolve", "post"}}
<1>0. /\ UNCHANGED <<credsFile, queueFile, numbered, removed, forbidden, pairs>>
      /\ creds' = credsFile /\ queue' = queueFile
      /\ work' = [w \in Workers |-> Off]
      /\ gone' = gone \cup inHand \cup (Buffered \ OnFile)
      /\ hand' = [e \in Events |-> IF e \in inHand THEN Done ELSE hand[e]]
      /\ faults < MaxFaults /\ faults' = faults + 1
  BY DEF PhoneCrash
<1>1. Buffered' = OnFile
  BY <1>0 DEF Buffered, OnFile
<1>2. Buffered \subseteq Events
  <2>1. \A i \in DOMAIN queue : queue[i] \in EntryUpTo(pairs)
    BY DEF PhoneInv, QueueInv, QueueOK
  <2> QED BY <2>1 DEF EntryUpTo, Buffered
<1>3. Scalars'
  <2>1. gone' \subseteq Events
    BY <1>0, <1>2 DEF PhoneInv, Scalars
  <2>2. MaxFaults \in Nat /\ faults \in 0..MaxFaults
    BY AndroidAssumption DEF PhoneInv, Scalars
  <2>3. faults' \in 0..MaxFaults
    BY <1>0, <2>2
  <2> QED BY <1>0, <2>1, <2>3 DEF PhoneInv, Scalars
<1>4. CredsInv' /\ QueueInv'
  BY <1>0 DEF PhoneInv, CredsInv, OwnUnlessLate, QueueInv, QueueOK
<1>5. Done \in HandUpTo(pairs) /\ HandOK(Done) /\ Done.st = "done"
  BY DEF PhoneInv, Scalars, Done, New, Nil, HandUpTo, HandOK
<1>6. HandInv'
  BY <1>0, <1>5 DEF PhoneInv, HandInv, HandOK
<1>7. WorkInv'
  BY <1>0, RestOK DEF WorkInv, WorkOK
<1>8. EventsKept'
  BY <1>0, <1>1, KeptStays DEF PhoneInv
<1> QED BY <1>0, <1>3, <1>4, <1>6, <1>7, <1>8 DEF PhoneInv

LEMMA PhoneInvStep == PhoneInv /\ [PhoneNext]_phoneVars => PhoneInv'
<1> SUFFICES ASSUME PhoneInv, [PhoneNext]_phoneVars PROVE PhoneInv'
  OBVIOUS
<1>1. ASSUME NEW e \in Events, DispatcherStep(e) PROVE PhoneInv'
  BY <1>1, ArriveKeeps, ResolveKeeps, DeliverKeeps DEF DispatcherStep
<1>2. ASSUME NEW w \in Workers, WorkerStep(w) PROVE PhoneInv'
  BY <1>2, CallAnswered, RetryKeeps, SettleStep DEF WorkerStep
<1>3. CASE StartService \/ Heartbeat
  BY <1>3, CallBegins
<1>4. CASE \/ FlushQueue \/ FlushCreds \/ (\E p \in Pairings : Number(p) \/ RemoveDevice(p))
           \/ UNCHANGED phoneVars
  BY <1>4, OthersKeep
<1> QED BY <1>1, <1>2, <1>3, <1>4, PairKeeps, UnpairKeeps, CrashKeeps DEF PhoneNext

-----------------------------------------------------------------------------
LEMMA PhoneInvariant == PhoneSpec => []PhoneInv
BY PhoneInvInit, PhoneInvStep, PTL DEF PhoneSpec

\* Credentials, buffer, threads and files keep their types, and the buffer its cap.
THEOREM PhoneTypes == PhoneSpec => []PhoneTypeOK
BY PhoneInvariant, TypeFollows, PTL

\* No event the dispatcher is done with is lost but as the code accepts: answered for, pushed out
\* at the cap, or in memory only when the process died (InboundQueue.kt).
THEOREM PhoneKeepsEvents == PhoneSpec => []EventsKept
<1>1. PhoneInv => EventsKept
  BY DEF PhoneInv
<1> QED BY <1>1, PhoneInvariant, PTL

\* A number is told to no pairing but its own except by a late answer, and a report is forbidden
\* as another device's on a phone paired again only, whatever else Auth denies and whichever
\* devices are removed (CredentialStore.kt).
THEOREM PhoneOwnNumber == PhoneSpec => []OwnNumberOnly
<1>1. PhoneInv => OwnNumberOnly
  BY DEF PhoneInv, CredsInv, OwnUnlessLate, OwnNumberOnly
<1> QED BY <1>1, PhoneInvariant, PTL
=============================================================================
