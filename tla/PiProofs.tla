------------------------------ MODULE PiProofs ------------------------------
(***************************************************************************)
(* Proofs about the retry file of the Raspberry Pi receiver (PiReceiver),  *)
(* for any number of signals, hook processes, outages and power failures:  *)
(* it is well typed, and as long as no process reads the file while        *)
(* another is about to replace it, no signal is lost and the coordinator   *)
(* first answers them in the order they were added.                        *)
(*                                                                         *)
(* The argument follows the one process between its read and its rename:   *)
(* the temporary file is its own, and what it will put in place covers     *)
(* what the file holds and keeps its order.                                *)
(***************************************************************************)
EXTENDS PiReceiver, SequenceTheorems, TLAPS

\* An open file is the one at the temporary path only while there is one.
FilesInv == TypeOK /\ \A p \in Processes : fd[p] = "tmp" => tmp # NoFile

Rewriters == {p \in Processes : pc[p] \in Rewriting}

\* What process p, alone in the file, writes and renames.
WritesOwn(p) ==
  /\ pc[p] = "write" => fd[p] = "tmp" /\ tmp = <<>>
  /\ pc[p] = "replace" => tmp = items[p]

\* What p will put in place of the file leaves nothing behind, and a hook's signal is in it.
Covers(p) ==
  p \in Rewriters =>
    ToSet(queue) \cup ({p} \ {Daemon}) \subseteq ToSet(items[p]) \cup accepted \cup dropped

KeptInv ==
  ~overlapped =>
    /\ \A p, q \in Rewriters : p = q
    /\ \A p \in Processes : WritesOwn(p) /\ Covers(p)
    /\ NoReportForgotten

\* s was added before t.
Before(s, t) == \A k, l \in DOMAIN added : added[k] = s /\ added[l] = t => k < l

\* A list of buffered signals keeps the order they were added in, and what is to be drained from
\* it comes after what was.
Ordered(list) ==
  /\ ToSet(list) \subseteq ToSet(added)
  /\ \A i, j \in DOMAIN list : i < j => Before(list[i], list[j])
  /\ \A s \in ToSet(list) \ ToSet(drained), d \in ToSet(drained) :
       {s, d} \cap dropped = {} => Before(d, s)

OrderInv ==
  ~overlapped =>
    /\ \A h \in ToSet(added) : pc[h] \notin {"idle", "read"}
    /\ ToSet(drained) \subseteq ToSet(added)
    /\ Ordered(queue)
    /\ \A p \in Rewriters : Ordered(items[p])
    /\ Daemon \in Rewriters =>
         ToSet(queue) \subseteq ToSet(items[Daemon]) \cup ToSet(drained) \cup dropped
    /\ DrainedInOrder

-----------------------------------------------------------------------------
(* Lists *)

\* Appending adds one element to a list.
LEMMA AppendToSet ==
  ASSUME NEW S, NEW list \in Seq(S), NEW e \in S
  PROVE  /\ Append(list, e) \in Seq(S)
         /\ ToSet(Append(list, e)) = ToSet(list) \cup {e}
<1>1. PICK n \in Nat : n = Len(list) /\ DOMAIN list = 1..n
  OBVIOUS
<1>2. PICK new : new = Append(list, e)
  OBVIOUS
<1>3. /\ new \in Seq(S) /\ DOMAIN new = 1..(n + 1)
      /\ \A i \in 1..n : new[i] = list[i]
      /\ new[n + 1] = e
  BY <1>1, <1>2, AppendProperties
<1>4. \A i \in DOMAIN new : new[i] \in ToSet(list) \cup {e}
  BY <1>1, <1>3 DEF ToSet
<1>5. \A i \in DOMAIN list : list[i] \in ToSet(new)
  BY <1>1, <1>3 DEF ToSet
<1>6. e \in ToSet(new)
  BY <1>1, <1>3 DEF ToSet
<1> QED BY <1>2, <1>3, <1>4, <1>5, <1>6 DEF ToSet

\* Trimming drops from the front.
LEMMA TrimmedKeepsOrder ==
  ASSUME NEW S, NEW list \in Seq(S)
  PROVE  /\ Trimmed(list) \in Seq(S)
         /\ ToSet(Trimmed(list)) \subseteq ToSet(list)
         /\ \A i, j \in DOMAIN Trimmed(list) :
              i < j => \E k, l \in DOMAIN list :
                         k < l /\ list[k] = Trimmed(list)[i] /\ list[l] = Trimmed(list)[j]
<1>1. PICK n \in Nat : n = Len(list) /\ DOMAIN list = 1..n
  OBVIOUS
<1>2. CASE ~(n > MaxItems)
  BY <1>1, <1>2 DEF Trimmed
<1>3. CASE n > MaxItems
  <2>1. PICK d \in Nat : d = n - MaxItems /\ d < n
    <3>1. MaxItems \in Nat \ {0}
      BY PiAssumption
    <3>2. n - MaxItems \in Nat /\ n - MaxItems < n
      BY <1>3, <3>1
    <3> QED BY <3>2
  <2>2. PICK new : new = SubSeq(list, d + 1, n)
    OBVIOUS
  <2>3. /\ new \in Seq(S) /\ DOMAIN new = 1..(n - d)
        /\ \A i \in 1..(n - d) : new[i] = list[d + i]
    BY <1>1, <2>1, <2>2
  <2>4. Trimmed(list) = new
    BY <1>1, <1>3, <2>1, <2>2 DEF Trimmed
  <2>5. \A i \in DOMAIN new : d + i \in DOMAIN list /\ list[d + i] = new[i]
    BY <1>1, <2>1, <2>3
  <2>6. ToSet(new) \subseteq ToSet(list)
    BY <2>5 DEF ToSet
  <2>7. ASSUME NEW i \in DOMAIN new, NEW j \in DOMAIN new, i < j
        PROVE  \E k, l \in DOMAIN list : k < l /\ list[k] = new[i] /\ list[l] = new[j]
    <3>1. d + i < d + j
      BY <2>1, <2>3, <2>7
    <3> QED BY <2>5, <3>1
  <2> QED BY <2>3, <2>4, <2>6, <2>7
<1> QED BY <1>1, <1>2, <1>3

\* A list that is not empty is its first element followed by the rest.
LEMMA HeadAndTail ==
  ASSUME NEW S, NEW list \in Seq(S), list # <<>>
  PROVE  /\ Head(list) \in S /\ Tail(list) \in Seq(S)
         /\ ToSet(list) = {Head(list)} \cup ToSet(Tail(list))
         /\ \A j \in DOMAIN Tail(list) : j + 1 \in DOMAIN list /\ Tail(list)[j] = list[j + 1]
         /\ 1 \in DOMAIN list /\ list[1] = Head(list)
<1>1. PICK n \in Nat \ {0} : n = Len(list) /\ DOMAIN list = 1..n
  OBVIOUS
<1>2. PICK t : t = Tail(list)
  OBVIOUS
<1>9. t \in Seq(S) /\ DOMAIN t = 1..(n - 1) /\ \A i \in 1..(n - 1) : t[i] = list[i + 1]
  BY <1>1, <1>2, HeadTailProperties
<1>3. Head(list) = list[1] /\ 1 \in DOMAIN list /\ Head(list) \in S
  BY <1>1
<1>4. \A j \in DOMAIN t : j + 1 \in DOMAIN list /\ t[j] = list[j + 1]
  BY <1>1, <1>9
<1>5. \A i \in DOMAIN list : i = 1 \/ (i - 1 \in DOMAIN t /\ t[i - 1] = list[i])
  BY <1>1, <1>9
<1>6. ToSet(list) = {Head(list)} \cup ToSet(t)
  BY <1>3, <1>4, <1>5 DEF ToSet
<1> QED BY <1>2, <1>9, <1>3, <1>4, <1>6

\* A file that is overwritten holds signals; an empty one then holds what was written.
LEMMA OverwrittenIs ==
  ASSUME NEW S, NEW old \in Seq(S), NEW new \in Seq(S)
  PROVE  /\ Overwritten(old, new) \subseteq Seq(S)
         /\ old = <<>> => Overwritten(old, new) = {new}
<1>1. ASSUME NEW k \in 2..(Len(old) + 1)
      PROVE  new \o SubSeq(old, k, Len(old)) \in Seq(S)
  <2>1. SubSeq(old, k, Len(old)) \in Seq(S)
    OBVIOUS
  <2> QED BY <2>1
<1>2. Overwritten(old, new) \subseteq Seq(S)
  BY <1>1 DEF Overwritten
<1>3. ASSUME old = <<>> PROVE 2..(Len(old) + 1) = {}
  BY <1>3
<1>4. old = <<>> => Overwritten(old, new) = {new}
  BY <1>3 DEF Overwritten
<1> QED BY <1>2, <1>4

-----------------------------------------------------------------------------
(* Types *)

\* The daemon is a process but no hook of a signal.
LEMMA DaemonIsNoSignal == Daemon \notin Signals /\ Daemon \in Processes /\ Signals \subseteq Processes
BY PiAssumption DEF Daemon, Processes

\* The placeholder of a path without a file is no list of signals.
LEMMA NoFileIsNoList == NoFile \notin Seq(Signals)
<1> SUFFICES ASSUME NoFile \in Seq(Signals) PROVE FALSE
  OBVIOUS
<1>1. Len(NoFile) = 1 /\ NoFile[1] = Daemon
  BY DEF NoFile
<1>2. Daemon \in Signals
  BY <1>1
<1> QED BY <1>2, DaemonIsNoSignal

\* Before the first signal there is no file, and no process has one open.
LEMMA FilesInit == Init => FilesInv
<1> SUFFICES ASSUME Init PROVE FilesInv
  OBVIOUS
<1>1. <<>> \in Seq(Signals)
  OBVIOUS
<1>2. 0 \in 0..MaxOutages /\ 0 \in 0..MaxCrashes
  BY PiAssumption
<1>3. /\ pc \in [Processes -> {"idle"}] /\ fd \in [Processes -> {"none"}]
      /\ items \in [Processes -> Seq(Signals)]
  BY <1>1 DEF Init
<1>4. \A p \in Processes : pc[p] = "idle" /\ fd[p] = "none"
  BY DEF Init
<1> QED BY <1>1, <1>2, <1>3, <1>4 DEF Init, FilesInv, TypeOK

\* _report: a hook posts its signal and touches no file.
LEMMA ReportFiles ==
  ASSUME FilesInv, NEW h \in Signals, Report(h)
  PROVE  FilesInv'
<1>1. /\ UNCHANGED <<items, fd, queue, tmp, dropped, crashes, added, drained, overlapped>>
      /\ pc[h] = "idle"
      /\ pc' = [pc EXCEPT ![h] = "done"] \/ pc' = [pc EXCEPT ![h] = "read"]
  BY DEF Report
<1>2. accepted' \subseteq Signals /\ outages' \in 0..MaxOutages
  <2>1. CASE Answered(h) \/ Rejected(h)
    BY <2>1 DEF Answered, Rejected, FilesInv, TypeOK
  <2>2. CASE Unanswered(h)
    BY <2>2, PiAssumption DEF Unanswered, FilesInv, TypeOK
  <2> QED BY <2>1, <2>2 DEF Report
<1>3. h \in Processes
  BY DaemonIsNoSignal
<1> QED BY <1>1, <1>2, <1>3 DEF FilesInv, TypeOK

\* The read of add: the list it will write is at most MaxItems long, of signals.
LEMMA AddReadFiles ==
  ASSUME FilesInv, NEW h \in Signals, AddRead(h)
  PROVE  FilesInv'
<1>0. h \in Processes /\ queue \in Seq(Signals) /\ added \in Seq(Signals) /\ drained \in Seq(Signals)
  BY DaemonIsNoSignal DEF FilesInv, TypeOK
<1>1. PICK all : all = Append(queue, h)
  OBVIOUS
<1>2. all \in Seq(Signals) /\ Trimmed(all) \in Seq(Signals)
  BY <1>0, <1>1, AppendToSet, TrimmedKeepsOrder
<1>3. items' = [items EXCEPT ![h] = Trimmed(all)]
  BY <1>1 DEF AddRead
<1>4. ToSet(all) \subseteq Signals
  BY <1>2 DEF ToSet
<1>5. dropped' \subseteq Signals
  BY <1>1, <1>4 DEF AddRead, FilesInv, TypeOK
<1>6. Append(added, h) \in Seq(Signals)
  BY <1>0, AppendToSet
<1>7. overlapped' \in BOOLEAN
  BY DEF AddRead, FilesInv, TypeOK
<1>8. added' \in Seq(Signals) /\ drained' \in Seq(Signals)
  BY <1>0, <1>6 DEF AddRead
<1>9. /\ pc[h] = "read" /\ pc' = [pc EXCEPT ![h] = "open"]
      /\ UNCHANGED <<fd, queue, tmp, accepted, outages, crashes>>
  BY DEF AddRead
<1> QED BY <1>0, <1>2, <1>3, <1>5, <1>7, <1>8, <1>9 DEF FilesInv, TypeOK

\* open(tmp, "w"): from here on the temporary path names a file.
LEMMA OpenFiles ==
  ASSUME FilesInv, NEW p \in Processes, Open(p)
  PROVE  FilesInv'
<1>1. <<>> \in Seq(Signals)
  OBVIOUS
<1>2. <<>> # NoFile
  BY <1>1, NoFileIsNoList
<1> QED BY <1>1, <1>2 DEF Open, FilesInv, TypeOK

\* The buffered lines reach a file; what it then holds are signals still.
LEMMA WriteFiles ==
  ASSUME FilesInv, NEW p \in Processes, Write(p)
  PROVE  FilesInv'
<1>1. items[p] \in Seq(Signals) /\ queue \in Seq(Signals)
  BY DEF FilesInv, TypeOK
<1>2. /\ pc[p] = "write" /\ pc' = [pc EXCEPT ![p] = "replace"] /\ fd' = [fd EXCEPT ![p] = "none"]
      /\ UNCHANGED <<items, accepted, dropped, outages, crashes, added, drained, overlapped>>
  BY DEF Write
<1>3. CASE fd[p] = "tmp" /\ tmp' \in Overwritten(tmp, items[p]) /\ UNCHANGED queue
  <2>1. tmp \in Seq(Signals)
    BY <1>3 DEF FilesInv, TypeOK
  <2>2. tmp' \in Seq(Signals) /\ tmp' # NoFile
    BY <1>1, <1>3, <2>1, OverwrittenIs, NoFileIsNoList
  <2> QED BY <1>2, <1>3, <2>2 DEF FilesInv, TypeOK
<1>4. CASE queue' \in Seq(Signals) /\ UNCHANGED tmp
  BY <1>2, <1>4 DEF FilesInv, TypeOK
<1>5. Overwritten(queue, items[p]) \subseteq Seq(Signals)
  BY <1>1, OverwrittenIs
<1> QED BY <1>1, <1>3, <1>4, <1>5 DEF Write

\* os.replace: who had the temporary file open has the queue open now, so no descriptor is
\* left at a path without a file.
LEMMA ReplaceFiles ==
  ASSUME FilesInv, NEW p \in Processes, Replace(p)
  PROVE  FilesInv'
<1>1. /\ pc[p] = "replace" /\ items' = [items EXCEPT ![p] = <<>>]
      /\ UNCHANGED <<accepted, dropped, outages, crashes, added, drained, overlapped>>
  BY DEF Replace
<1>2. <<>> \in Seq(Signals)
  OBVIOUS
<1>3. Returned(p) \in {"idle", "done"} /\ Raised(p) \in {"idle", "failed"}
  BY DEF Returned, Raised
<1>4. CASE /\ tmp # NoFile
           /\ queue' = tmp /\ tmp' = NoFile
           /\ fd' = [q \in Processes |-> CASE fd[q] = "tmp"   -> "queue"
                                           [] fd[q] = "queue" -> "gone"
                                           [] OTHER           -> fd[q]]
           /\ pc' = [pc EXCEPT ![p] = Returned(p)]
  <2>1. queue' \in Seq(Signals)
    BY <1>4 DEF FilesInv, TypeOK
  <2>2. \A q \in Processes : /\ fd'[q] \in {"none", "queue", "gone"}
                             /\ fd'[q] = "none" <=> fd[q] = "none"
    BY <1>4 DEF FilesInv, TypeOK
  <2>3. fd' \in [Processes -> {"none", "tmp", "queue", "gone"}]
    BY <1>4, <2>2
  <2> QED BY <1>1, <1>2, <1>3, <1>4, <2>1, <2>2, <2>3 DEF FilesInv, TypeOK
<1>5. CASE pc' = [pc EXCEPT ![p] = Raised(p)] /\ UNCHANGED <<queue, tmp, fd>>
  BY <1>1, <1>2, <1>3, <1>5 DEF FilesInv, TypeOK
<1> QED BY <1>4, <1>5 DEF Replace

\* One item of flush is settled, or the flush stops.
LEMMA SendIs ==
  ASSUME FilesInv, FlushSend
  PROVE  LET s == Head(items[Daemon]) IN
         /\ s \in Signals /\ Tail(items[Daemon]) \in Seq(Signals)
         /\ pc[Daemon] = "send"
         /\ UNCHANGED <<fd, queue, tmp, crashes, added, overlapped>>
         /\ accepted' \subseteq Signals /\ accepted \subseteq accepted' /\ outages' \in 0..MaxOutages
         /\ \/ /\ s \in accepted' /\ Drain(s)
               /\ items' = [items EXCEPT ![Daemon] = Tail(items[Daemon])]
               /\ UNCHANGED <<pc, dropped>>
            \/ /\ dropped' = dropped \cup {s}
               /\ items' = [items EXCEPT ![Daemon] = Tail(items[Daemon])]
               /\ UNCHANGED <<pc, drained>>
            \/ /\ pc' = [pc EXCEPT ![Daemon] = "open"]
               /\ UNCHANGED <<items, dropped, drained>>
<1>1. PICK list \in Seq(Signals) : list = items[Daemon] /\ list # <<>>
  BY DaemonIsNoSignal DEF FlushSend, FilesInv, TypeOK
<1>2. PICK s \in Signals : s = Head(list)
  BY <1>1, HeadAndTail
<1>3. Tail(list) \in Seq(Signals)
  BY <1>1, HeadAndTail
<1>4. CASE Answered(s) /\ Drain(s) /\ items' = [items EXCEPT ![Daemon] = Tail(@)]
            /\ UNCHANGED <<pc, dropped>>
  BY <1>1, <1>2, <1>3, <1>4 DEF FlushSend, Answered, FilesInv, TypeOK
<1>5. CASE Rejected(s) /\ dropped' = dropped \cup {s} /\ items' = [items EXCEPT ![Daemon] = Tail(@)]
            /\ UNCHANGED <<pc, drained>>
  BY <1>1, <1>2, <1>3, <1>5 DEF FlushSend, Rejected, FilesInv, TypeOK
<1>6. CASE Unanswered(s) /\ pc' = [pc EXCEPT ![Daemon] = "open"] /\ UNCHANGED <<items, dropped, drained>>
  <2>1. outages' \in 0..MaxOutages
    BY <1>6, PiAssumption DEF Unanswered, FilesInv, TypeOK
  <2> QED BY <1>1, <1>2, <1>3, <1>6, <2>1 DEF FlushSend, Unanswered, FilesInv, TypeOK
<1> QED BY <1>1, <1>2, <1>4, <1>5, <1>6 DEF FlushSend

\* One item of flush.
LEMMA FlushSendFiles ==
  ASSUME FilesInv, FlushSend
  PROVE  FilesInv'
<1>1. PICK s \in Signals : s = Head(items[Daemon])
  BY SendIs
<1>2. drained' \in Seq(Signals)
  <2>1. drained \in Seq(Signals)
    BY DEF FilesInv, TypeOK
  <2>2. Append(drained, s) \in Seq(Signals)
    BY <1>1, <2>1, AppendToSet
  <2>3. UNCHANGED drained \/ Drain(s)
    BY <1>1, SendIs
  <2> QED BY <2>1, <2>2, <2>3 DEF Drain
<1>3. PICK rest \in Seq(Signals) : rest = Tail(items[Daemon])
  BY SendIs
<1>4. items' \in [Processes -> Seq(Signals)]
  BY <1>3, SendIs DEF FilesInv, TypeOK
<1>5. /\ dropped' \subseteq Signals
      /\ pc[Daemon] = "send"
      /\ UNCHANGED pc \/ pc' = [pc EXCEPT ![Daemon] = "open"]
      /\ accepted' \subseteq Signals /\ outages' \in 0..MaxOutages
      /\ UNCHANGED <<fd, queue, tmp, crashes, added, overlapped>>
  BY <1>1, SendIs DEF FilesInv, TypeOK
<1> QED BY <1>2, <1>4, <1>5, DaemonIsNoSignal DEF FilesInv, TypeOK

\* The read of flush.
LEMMA FlushReadFiles ==
  ASSUME FilesInv, FlushRead
  PROVE  FilesInv'
<1>1. overlapped' \in BOOLEAN
  BY DEF FlushRead, FilesInv, TypeOK
<1>2. added' \in Seq(Signals) /\ drained' \in Seq(Signals)
  BY DEF FlushRead, FilesInv, TypeOK
<1>3. /\ items' = [items EXCEPT ![Daemon] = queue] /\ pc[Daemon] = "idle"
      /\ pc' = [pc EXCEPT ![Daemon] = "send"]
      /\ UNCHANGED <<fd, queue, tmp, accepted, dropped, outages, crashes>>
  BY DEF FlushRead
<1> QED BY <1>1, <1>2, <1>3, DaemonIsNoSignal DEF FilesInv, TypeOK

\* A power failure closes every descriptor and leaves the files.
LEMMA CrashFiles ==
  ASSUME FilesInv, Crash
  PROVE  FilesInv'
<1>1. crashes' \in 0..MaxCrashes
  BY PiAssumption DEF Crash, FilesInv, TypeOK
<1>2. /\ DOMAIN pc' = Processes /\ pc' = [p \in Processes |-> pc'[p]]
      /\ \A p \in Processes : pc'[p] \in {"idle", "done", "failed", "dead"}
  BY DEF Crash
<1>3. items' \in [Processes -> Seq(Signals)]
  <2>1. <<>> \in Seq(Signals)
    OBVIOUS
  <2> QED BY <2>1 DEF Crash
<1>4. /\ fd' = [p \in Processes |-> "none"]
      /\ UNCHANGED <<queue, tmp, accepted, dropped, outages, added, drained, overlapped>>
  BY DEF Crash
<1>5. pc' \in [Processes -> {"idle", "done", "failed", "dead"}]
  BY <1>2
<1> QED BY <1>1, <1>3, <1>4, <1>5 DEF FilesInv, TypeOK

\* Every step keeps the types of files, lists and descriptors.
LEMMA FilesStep == FilesInv /\ [Next]_vars => FilesInv'
<1> SUFFICES ASSUME FilesInv, [Next]_vars PROVE FilesInv'
  OBVIOUS
<1>1. ASSUME NEW h \in Signals, HookStep(h) PROVE FilesInv'
  BY <1>1, AddReadFiles, OpenFiles, WriteFiles, ReplaceFiles, DaemonIsNoSignal DEF HookStep
<1>2. CASE DaemonStep
  <2>1. CASE FlushEnd
    BY <2>1, DaemonIsNoSignal DEF FlushEnd, FilesInv, TypeOK
  <2> QED BY <1>2, <2>1, FlushReadFiles, FlushSendFiles, OpenFiles, WriteFiles, ReplaceFiles,
          DaemonIsNoSignal DEF DaemonStep
<1>3. CASE UNCHANGED vars
  BY <1>3 DEF vars, FilesInv, TypeOK
<1> QED BY <1>1, <1>2, <1>3, ReportFiles, CrashFiles DEF Next

\* Lists, files and counters keep their types, whatever overlaps (retry.py).
THEOREM PiTypes == Spec => []TypeOK
<1>1. FilesInv => TypeOK
  BY DEF FilesInv
<1> QED BY <1>1, FilesInit, FilesStep, PTL DEF Spec

-----------------------------------------------------------------------------
(* One rewriter at a time keeps every signal *)

\* A step that leaves the files and the lists alone, and rewriters no more than there were.
LEMMA KeptStays ==
  ASSUME KeptInv, UNCHANGED <<items, fd, queue, tmp, overlapped>>,
         accepted \subseteq accepted', dropped \subseteq dropped',
         \A q \in Processes : /\ pc'[q] \in Rewriting => pc[q] \in Rewriting
                              /\ pc'[q] \in {"write", "replace"} => pc'[q] = pc[q]
                              /\ q \in Signals /\ pc'[q] \in {"done", "failed"}
                                   => pc'[q] = pc[q] \/ q \in accepted'
  PROVE  KeptInv'
<1> SUFFICES ASSUME ~overlapped
             PROVE  (/\ \A p, q \in Rewriters : p = q
                     /\ \A p \in Processes : WritesOwn(p) /\ Covers(p)
                     /\ NoReportForgotten)'
  BY DEF KeptInv
<1>1. (\A p, q \in Rewriters : p = q)'
  BY DEF KeptInv, Rewriters
<1>2. ASSUME NEW p \in Processes PROVE WritesOwn(p)' /\ Covers(p)'
  BY DEF KeptInv, WritesOwn, Covers, Rewriters
<1>3. NoReportForgotten'
  BY DaemonIsNoSignal DEF KeptInv, NoReportForgotten, Forgotten
<1> QED BY <1>1, <1>2, <1>3

\* _report: its hook ends only when the coordinator has processed the signal.
LEMMA ReportKept ==
  ASSUME FilesInv, KeptInv, NEW h \in Signals, Report(h)
  PROVE  KeptInv'
<1>1. /\ UNCHANGED <<items, fd, queue, tmp, overlapped>> /\ dropped' = dropped
      /\ \/ pc' = [pc EXCEPT ![h] = "done"] /\ h \in accepted'
         \/ pc' = [pc EXCEPT ![h] = "read"]
      /\ accepted \subseteq accepted'
  BY DEF Report, Answered, Unanswered, Rejected
<1>2. \A q \in Processes : pc'[q] = pc[q] \/ pc'[q] = "read" \/ (q = h /\ pc'[q] = "done")
  BY <1>1 DEF FilesInv, TypeOK
<1>3. \A q \in Processes : /\ pc'[q] \in Rewriting => pc[q] \in Rewriting
                           /\ pc'[q] \in {"write", "replace"} => pc'[q] = pc[q]
                           /\ q \in Signals /\ pc'[q] \in {"done", "failed"}
                                => pc'[q] = pc[q] \/ q \in accepted'
  BY <1>1, <1>2 DEF Rewriting, FilesInv, TypeOK
<1> QED BY <1>1, <1>3, KeptStays

\* A process that reads the file with no other in it is the only one to rewrite it.
LEMMA ReadKept ==
  ASSUME FilesInv, KeptInv, NEW p \in Processes, NEW list \in Seq(Signals),
         ~OthersRewriting(p), pc[p] \in {"idle", "read"}, p \in Signals => pc[p] = "read",
         NEW st \in {"send", "open"},
         pc' = [pc EXCEPT ![p] = st],
         items' = [items EXCEPT ![p] = list],
         UNCHANGED <<fd, queue, tmp, accepted>>, dropped \subseteq dropped',
         ToSet(queue) \cup ({p} \ {Daemon}) \subseteq ToSet(list) \cup dropped',
         ~overlapped
  PROVE  KeptInv'
<1>1. \A q \in Processes \ {p} : pc[q] \notin Rewriting /\ pc'[q] = pc[q]
  BY DEF OthersRewriting, FilesInv, TypeOK
<1>2. pc'[p] = st /\ items'[p] = list
  BY DEF FilesInv, TypeOK
<1>3. (\A q, r \in Rewriters : q = r)'
  BY <1>1 DEF Rewriters
<1>4. ASSUME NEW q \in Processes PROVE WritesOwn(q)' /\ Covers(q)'
  <2>1. CASE q = p
    BY <1>2, <2>1 DEF WritesOwn, Covers
  <2>2. CASE q # p
    BY <1>1, <2>2 DEF WritesOwn, Covers, Rewriters, Rewriting
  <2> QED BY <2>1, <2>2
<1>5. NoReportForgotten'
  <2> SUFFICES ASSUME NEW h \in Signals, Forgotten(h)' PROVE FALSE
    BY DEF NoReportForgotten
  <2>1. h # p /\ h \in Processes /\ pc'[h] = pc[h]
    BY <1>1, <1>2, DaemonIsNoSignal DEF Forgotten
  <2>2. ~Forgotten(h)
    BY DEF KeptInv, NoReportForgotten
  <2> QED BY <2>1, <2>2 DEF Forgotten
<1> QED BY <1>3, <1>4, <1>5 DEF KeptInv

\* The read of add: the appended list covers the file and the signal of its hook.
LEMMA AddReadKept ==
  ASSUME FilesInv, KeptInv, NEW h \in Signals, AddRead(h)
  PROVE  KeptInv'
<1> SUFFICES ASSUME ~overlapped' PROVE KeptInv'
  BY DEF KeptInv
<1>1. ~overlapped /\ ~OthersRewriting(h)
  BY DEF AddRead
<1>2. PICK all : all = Append(queue, h)
  OBVIOUS
<1>3. all \in Seq(Signals) /\ Trimmed(all) \in Seq(Signals) /\ ToSet(all) = ToSet(queue) \cup {h}
  <2>1. queue \in Seq(Signals)
    BY DEF FilesInv, TypeOK
  <2>2. all \in Seq(Signals) /\ ToSet(all) = ToSet(queue) \cup {h}
    BY <1>2, <2>1, AppendToSet
  <2> QED BY <2>2, TrimmedKeepsOrder
<1>4. PICK list \in Seq(Signals) : list = Trimmed(all)
  BY <1>3
<1>5. /\ items' = [items EXCEPT ![h] = list] /\ dropped' = dropped \cup (ToSet(all) \ ToSet(list))
      /\ pc[h] = "read" /\ pc' = [pc EXCEPT ![h] = "open"]
      /\ UNCHANGED <<fd, queue, tmp, accepted>>
  BY <1>2, <1>4 DEF AddRead
<1>6. ToSet(queue) \cup ({h} \ {Daemon}) \subseteq ToSet(list) \cup dropped'
  BY <1>3, <1>5
<1> QED BY <1>1, <1>4, <1>5, <1>6, ReadKept, DaemonIsNoSignal

\* The read of flush: its list is the file.
LEMMA FlushReadKept ==
  ASSUME FilesInv, KeptInv, FlushRead
  PROVE  KeptInv'
<1> SUFFICES ASSUME ~overlapped' PROVE KeptInv'
  BY DEF KeptInv
<1>1. ~overlapped /\ ~OthersRewriting(Daemon)
  BY DEF FlushRead
<1>2. /\ items' = [items EXCEPT ![Daemon] = queue] /\ pc[Daemon] = "idle"
      /\ pc' = [pc EXCEPT ![Daemon] = "send"]
      /\ UNCHANGED <<fd, queue, tmp, accepted, dropped>>
  BY DEF FlushRead
<1>3. ToSet(queue) \cup ({Daemon} \ {Daemon}) \subseteq ToSet(queue) \cup dropped'
  OBVIOUS
<1>4. queue \in Seq(Signals)
  BY DEF FilesInv, TypeOK
<1> QED BY <1>1, <1>2, <1>3, <1>4, ReadKept, DaemonIsNoSignal

\* open(tmp, "w"): the one rewriter truncates the file it is about to write.
LEMMA OpenKept ==
  ASSUME FilesInv, KeptInv, NEW p \in Processes, Open(p)
  PROVE  KeptInv'
<1> SUFFICES ASSUME ~overlapped PROVE KeptInv'
  BY DEF KeptInv, Open
<1>1. /\ pc[p] = "open" /\ pc'[p] = "write" /\ fd'[p] = "tmp" /\ tmp' = <<>>
      /\ \A q \in Processes \ {p} : pc'[q] = pc[q] /\ fd'[q] = fd[q]
      /\ UNCHANGED <<items, queue, accepted, dropped, overlapped>>
  BY DEF Open, FilesInv, TypeOK
<1>2. p \in Rewriters /\ \A q \in Processes \ {p} : q \notin Rewriters /\ pc[q] \notin Rewriting
  BY <1>1 DEF KeptInv, Rewriters, Rewriting
<1>3. Rewriters' = Rewriters
  BY <1>1, <1>2 DEF Rewriters, Rewriting
<1>4. ASSUME NEW q \in Processes PROVE WritesOwn(q)' /\ Covers(q)'
  BY <1>1, <1>2, <1>3 DEF KeptInv, WritesOwn, Covers, Rewriting
<1>5. NoReportForgotten'
  BY <1>1, DaemonIsNoSignal DEF KeptInv, NoReportForgotten, Forgotten
<1> QED BY <1>3, <1>4, <1>5 DEF KeptInv

\* The one rewriter wrote into the empty file it opened: the file holds its list.
LEMMA WriteKept ==
  ASSUME FilesInv, KeptInv, NEW p \in Processes, Write(p)
  PROVE  KeptInv'
<1> SUFFICES ASSUME ~overlapped PROVE KeptInv'
  BY DEF KeptInv, Write
<1>1. pc[p] = "write" /\ fd[p] = "tmp" /\ tmp = <<>>
  BY DEF Write, KeptInv, WritesOwn
<1>2. tmp' \in Overwritten(tmp, items[p]) /\ UNCHANGED queue
  BY <1>1 DEF Write
<1>3. tmp' = items[p]
  <2>1. tmp \in Seq(Signals) /\ items[p] \in Seq(Signals)
    BY <1>1 DEF FilesInv, TypeOK
  <2>2. Overwritten(tmp, items[p]) = {items[p]}
    BY <1>1, <2>1, OverwrittenIs
  <2> QED BY <1>2, <2>2
<1>4. /\ pc'[p] = "replace"
      /\ \A q \in Processes \ {p} : pc'[q] = pc[q]
      /\ UNCHANGED <<items, queue, accepted, dropped, overlapped>>
  BY <1>2 DEF Write, FilesInv, TypeOK
<1>5. p \in Rewriters /\ \A q \in Processes \ {p} : q \notin Rewriters /\ pc[q] \notin Rewriting
  BY <1>1 DEF KeptInv, Rewriters, Rewriting
<1>6. Rewriters' = Rewriters
  BY <1>4, <1>5 DEF Rewriters, Rewriting
<1>7. ASSUME NEW q \in Processes PROVE WritesOwn(q)' /\ Covers(q)'
  BY <1>3, <1>4, <1>5, <1>6 DEF KeptInv, WritesOwn, Covers, Rewriting
<1>8. NoReportForgotten'
  BY <1>4, DaemonIsNoSignal DEF KeptInv, NoReportForgotten, Forgotten
<1> QED BY <1>6, <1>7, <1>8 DEF KeptInv

\* What a lone process renames into place is its own list.
LEMMA ReplaceIs ==
  ASSUME FilesInv, KeptInv, ~overlapped, NEW p \in Processes, Replace(p)
  PROVE  /\ p \in Rewriters /\ \A q \in Processes \ {p} : pc[q] \notin Rewriting /\ pc'[q] = pc[q]
         /\ queue' = items[p] /\ pc'[p] = Returned(p)
         /\ UNCHANGED <<accepted, dropped, added, drained, overlapped>>
<1>1. pc[p] = "replace" /\ UNCHANGED <<accepted, dropped, added, drained, overlapped>>
  BY DEF Replace
<1>2. tmp = items[p] /\ p \in Rewriters
  BY <1>1 DEF KeptInv, WritesOwn, Rewriters, Rewriting
<1>3. tmp # NoFile
  BY <1>2, NoFileIsNoList DEF FilesInv, TypeOK
<1>4. queue' = tmp /\ pc' = [pc EXCEPT ![p] = Returned(p)]
  BY <1>3 DEF Replace
<1>5. \A q \in Processes \ {p} : pc[q] \notin Rewriting
  BY <1>2 DEF KeptInv, Rewriters
<1> QED BY <1>1, <1>2, <1>4, <1>5 DEF FilesInv, TypeOK

\* os.replace: the list that takes the place of the file covers it.
LEMMA ReplaceKept ==
  ASSUME FilesInv, KeptInv, NEW p \in Processes, Replace(p)
  PROVE  KeptInv'
<1> SUFFICES ASSUME ~overlapped PROVE KeptInv'
  BY DEF KeptInv, Replace
<1>1. /\ p \in Rewriters /\ \A q \in Processes \ {p} : pc[q] \notin Rewriting /\ pc'[q] = pc[q]
      /\ queue' = items[p] /\ pc'[p] = Returned(p)
      /\ UNCHANGED <<accepted, dropped, overlapped>>
  BY ReplaceIs
<1>2. \A q \in Processes : pc'[q] \notin Rewriting
  BY <1>1 DEF Returned, Rewriting
<1>3. Rewriters' = {}
  BY <1>2 DEF Rewriters
<1>4. ASSUME NEW q \in Processes PROVE WritesOwn(q)' /\ Covers(q)'
  BY <1>2, <1>3 DEF WritesOwn, Covers, Rewriting
<1>5. NoReportForgotten'
  <2> SUFFICES ASSUME NEW h \in Signals, Forgotten(h)' PROVE FALSE
    BY DEF NoReportForgotten
  <2>1. ToSet(queue) \cup ({p} \ {Daemon}) \subseteq ToSet(queue') \cup accepted \cup dropped
    BY <1>1 DEF KeptInv, Covers
  <2>2. CASE h = p
    BY <1>1, <2>1, <2>2, DaemonIsNoSignal DEF Forgotten
  <2>3. CASE h # p
    <3>1. ~Forgotten(h) /\ pc'[h] = pc[h]
      BY <1>1, <2>3, DaemonIsNoSignal DEF KeptInv, NoReportForgotten
    <3> QED BY <1>1, <2>1, <3>1 DEF Forgotten
  <2> QED BY <2>2, <2>3
<1> QED BY <1>3, <1>4, <1>5 DEF KeptInv

\* One item of flush leaves the list when it was accepted or dropped for good.
LEMMA FlushSendKept ==
  ASSUME FilesInv, KeptInv, FlushSend
  PROVE  KeptInv'
<1> SUFFICES ASSUME ~overlapped PROVE KeptInv'
  BY SendIs DEF KeptInv
<1>0. Daemon \in Processes
  BY DaemonIsNoSignal
<1>1. PICK s \in Signals : s = Head(items[Daemon])
  BY SendIs
<1>2. /\ pc[Daemon] = "send" /\ UNCHANGED <<fd, queue, tmp, overlapped>>
      /\ accepted \subseteq accepted' /\ dropped \subseteq dropped'
  BY SendIs
<1>3. ToSet(items[Daemon]) \subseteq ToSet(items'[Daemon]) \cup accepted' \cup dropped'
  <2>1. PICK list \in Seq(Signals) : list = items[Daemon] /\ list # <<>>
    BY <1>0 DEF FlushSend, FilesInv, TypeOK
  <2>2. ToSet(list) = {s} \cup ToSet(Tail(list))
    BY <1>1, <2>1, HeadAndTail
  <2>3. items'[Daemon] = list \/ (items'[Daemon] = Tail(list) /\ s \in accepted' \cup dropped')
    BY <1>0, <1>1, <2>1, SendIs DEF FilesInv, TypeOK
  <2> QED BY <2>1, <2>2, <2>3
<1>4. /\ \A q \in Processes \ {Daemon} : pc'[q] = pc[q] /\ items'[q] = items[q]
      /\ pc'[Daemon] \in {"send", "open"}
  BY <1>0, SendIs DEF FilesInv, TypeOK
<1>5. Rewriters' = Rewriters
  BY <1>0, <1>2, <1>4 DEF Rewriters, Rewriting
<1>6. ASSUME NEW q \in Processes PROVE WritesOwn(q)' /\ Covers(q)'
  <2>1. WritesOwn(q) /\ Covers(q)
    BY DEF KeptInv
  <2>2. CASE q = Daemon
    <3>1. WritesOwn(q)'
      BY <1>4, <2>2 DEF WritesOwn
    <3> QED BY <1>2, <1>3, <1>5, <2>1, <2>2, <3>1 DEF Covers
  <2>3. CASE q # Daemon
    BY <1>2, <1>4, <1>5, <2>1, <2>3 DEF WritesOwn, Covers
  <2> QED BY <2>2, <2>3
<1>7. NoReportForgotten'
  BY <1>2, <1>4, DaemonIsNoSignal DEF KeptInv, NoReportForgotten, Forgotten
<1> QED BY <1>5, <1>6, <1>7 DEF KeptInv

\* A power failure leaves the file as it was, and hooks that did not end.
LEMMA CrashKept ==
  ASSUME FilesInv, KeptInv, Crash
  PROVE  KeptInv'
<1> SUFFICES ASSUME ~overlapped PROVE KeptInv'
  BY DEF KeptInv, Crash
<1>1. /\ UNCHANGED <<queue, accepted, dropped, overlapped>>
      /\ \A q \in Processes : /\ pc'[q] \in {"idle", "done", "failed", "dead"}
                              /\ pc'[q] \in {"done", "failed"} => pc'[q] = pc[q]
  BY DEF Crash
<1>2. Rewriters' = {}
  BY <1>1 DEF Rewriters, Rewriting
<1>3. ASSUME NEW q \in Processes PROVE WritesOwn(q)' /\ Covers(q)'
  BY <1>1, <1>2 DEF WritesOwn, Covers
<1>4. NoReportForgotten'
  BY <1>1, DaemonIsNoSignal DEF KeptInv, NoReportForgotten, Forgotten
<1> QED BY <1>2, <1>3, <1>4 DEF KeptInv

\* Every step keeps what is accepted, dropped or to be written.
LEMMA KeptStep == FilesInv /\ KeptInv /\ [Next]_vars => KeptInv'
<1> SUFFICES ASSUME FilesInv, KeptInv, [Next]_vars PROVE KeptInv'
  OBVIOUS
<1>1. ASSUME NEW h \in Signals, HookStep(h) PROVE KeptInv'
  BY <1>1, AddReadKept, OpenKept, WriteKept, ReplaceKept, DaemonIsNoSignal DEF HookStep
<1>2. CASE FlushEnd
  <2>1. \A q \in Processes : pc'[q] = pc[q] \/ (q = Daemon /\ pc[q] = "send" /\ pc'[q] = "open")
    BY <1>2 DEF FlushEnd, FilesInv, TypeOK
  <2>2. \A q \in Processes : /\ pc'[q] \in Rewriting => pc[q] \in Rewriting
                             /\ pc'[q] \in {"write", "replace"} => pc'[q] = pc[q]
                             /\ q \in Signals /\ pc'[q] \in {"done", "failed"} => pc'[q] = pc[q]
    BY <2>1 DEF Rewriting
  <2> QED BY <1>2, <2>2, KeptStays DEF FlushEnd
<1>3. CASE DaemonStep
  BY <1>2, <1>3, FlushReadKept, FlushSendKept, OpenKept, WriteKept, ReplaceKept, DaemonIsNoSignal
     DEF DaemonStep
<1>4. CASE UNCHANGED vars
  BY <1>4, KeptStays DEF vars
<1> QED BY <1>1, <1>3, <1>4, ReportKept, CrashKept DEF Next

\* No signal was reported, so none is lost.
LEMMA KeptInit == Init => KeptInv
BY DEF Init, KeptInv, Rewriters, Rewriting, WritesOwn, Covers, NoReportForgotten, Forgotten,
       Processes

\* Unless two processes are in the file at once no signal is lost, whatever fails (retry.py).
THEOREM PiKeepsReports == Spec => []SentOrKept
<1>1. KeptInv => SentOrKept
  BY DEF KeptInv, SentOrKept
<1> QED BY <1>1, FilesInit, FilesStep, KeptInit, KeptStep, PTL DEF Spec

-----------------------------------------------------------------------------
(* And it keeps their order *)

\* Signals added earlier stay so when another is added.
LEMMA BeforeGrows ==
  ASSUME added \in Seq(Signals), NEW h \in Signals, h \notin ToSet(added),
         added' = Append(added, h)
  PROVE  /\ ToSet(added)' = ToSet(added) \cup {h}
         /\ \A s, t \in ToSet(added) : Before(s, t) => Before(s, t)'
         /\ \A s \in ToSet(added) : Before(s, h)'
<1>1. PICK n \in Nat : n = Len(added) /\ DOMAIN added = 1..n
  OBVIOUS
<1>2. /\ DOMAIN added' = 1..(n + 1) /\ added'[n + 1] = h
      /\ \A i \in 1..n : added'[i] = added[i]
  BY <1>1, AppendProperties
<1>3. ToSet(added)' = ToSet(added) \cup {h}
  BY AppendToSet
<1>4. \A i \in 1..n : added'[i] \in ToSet(added) /\ added'[i] # h
  BY <1>1, <1>2 DEF ToSet
<1>5. \A s \in ToSet(added), k \in 1..(n + 1) : added'[k] = s => k \in 1..n /\ added[k] = s
  BY <1>2
<1>6. ASSUME NEW s \in ToSet(added), NEW t \in ToSet(added), Before(s, t) PROVE Before(s, t)'
  BY <1>1, <1>2, <1>5, <1>6 DEF Before
<1>7. ASSUME NEW s \in ToSet(added) PROVE Before(s, h)'
  <2> SUFFICES ASSUME NEW k \in 1..(n + 1), NEW l \in 1..(n + 1), added'[k] = s, added'[l] = h
               PROVE  k < l
    BY <1>2 DEF Before
  <2>1. k \in 1..n
    BY <1>5
  <2>2. l = n + 1
    BY <1>4
  <2> QED BY <2>1, <2>2
<1> QED BY <1>3, <1>6, <1>7

\* A list stays ordered while nothing more is drained and what was added before is still.
LEMMA OrderedStays ==
  ASSUME UNCHANGED drained, dropped \subseteq dropped',
         ToSet(drained) \subseteq ToSet(added), ToSet(added) \subseteq ToSet(added)',
         \A s, t \in ToSet(added) : Before(s, t) => Before(s, t)',
         NEW list, Ordered(list)
  PROVE  Ordered(list)'
<1>1. \A i \in DOMAIN list : list[i] \in ToSet(added)
  BY DEF Ordered, ToSet
<1>2. \A i, j \in DOMAIN list : i < j => Before(list[i], list[j])'
  BY <1>1 DEF Ordered
<1>3. ASSUME NEW s \in ToSet(list) \ ToSet(drained), NEW d \in ToSet(drained),
             {s, d} \cap dropped' = {}
      PROVE  Before(d, s)'
  BY <1>3 DEF Ordered
<1> QED BY <1>2, <1>3 DEF Ordered

\* The order of what was drained is that of what was added, however much is added or dropped.
LEMMA DrainedStays ==
  ASSUME ~overlapped => DrainedInOrder, UNCHANGED drained, dropped \subseteq dropped', ~overlapped,
         ToSet(drained) \subseteq ToSet(added),
         \A s, t \in ToSet(added) : Before(s, t) => Before(s, t)'
  PROVE  DrainedInOrder'
<1>1. \A i \in DOMAIN drained : drained[i] \in ToSet(added)
  BY DEF ToSet
<1>2. \A i, j \in DOMAIN drained :
        i < j /\ {drained[i], drained[j]} \cap dropped = {} => Before(drained[i], drained[j])
  BY DEF DrainedInOrder, Before
<1>3. \A i, j \in DOMAIN drained :
        i < j /\ {drained[i], drained[j]} \cap dropped' = {} => Before(drained[i], drained[j])'
  BY <1>1, <1>2
<1> QED BY <1>3 DEF DrainedInOrder, Before

\* Part of an ordered list is ordered.
LEMMA OrderedPart ==
  ASSUME NEW list, Ordered(list), NEW part, ToSet(part) \subseteq ToSet(list),
         \A i, j \in DOMAIN part :
           i < j => \E k, l \in DOMAIN list : k < l /\ list[k] = part[i] /\ list[l] = part[j]
  PROVE  Ordered(part)
BY DEF Ordered

\* The rest of an ordered list is ordered, and was added after its first element.
LEMMA TailOrdered ==
  ASSUME NEW list \in Seq(Signals), list # <<>>, Ordered(list)
  PROVE  Ordered(Tail(list)) /\ \A t \in ToSet(Tail(list)) : Before(Head(list), t)
<1>1. PICK n \in Nat \ {0} : n = Len(list) /\ DOMAIN list = 1..n
  OBVIOUS
<1>2. PICK rest : rest = Tail(list)
  OBVIOUS
<1>3. /\ rest \in Seq(Signals) /\ ToSet(rest) \subseteq ToSet(list)
      /\ \A j \in DOMAIN rest : j + 1 \in DOMAIN list /\ rest[j] = list[j + 1]
      /\ 1 \in DOMAIN list /\ list[1] = Head(list)
  BY <1>2, HeadAndTail
<1>4. DOMAIN rest \subseteq Nat \ {0}
  BY <1>3
<1>5. \A i, j \in DOMAIN rest :
        i < j => \E k, l \in DOMAIN list : k < l /\ list[k] = rest[i] /\ list[l] = rest[j]
  BY <1>3, <1>4
<1>6. Ordered(rest)
  BY <1>3, <1>5, OrderedPart
<1>7. \A j \in DOMAIN rest : Before(Head(list), rest[j])
  BY <1>3, <1>4 DEF Ordered
<1> QED BY <1>2, <1>6, <1>7 DEF ToSet

\* A step in which no list is read or changed.
LEMMA OrderStays ==
  ASSUME FilesInv, OrderInv,
         ~overlapped, UNCHANGED <<queue, added, drained, overlapped>>, dropped \subseteq dropped',
         \A q \in Processes : /\ pc'[q] \in Rewriting => pc[q] \in Rewriting /\ items'[q] = items[q]
                              /\ pc'[q] \in {"idle", "read"} /\ q \in Signals
                                   => pc[q] \in {"idle", "read"}
  PROVE  OrderInv'
<1>1. ToSet(drained) \subseteq ToSet(added) /\ \A h \in ToSet(added) : pc[h] \notin {"idle", "read"}
  BY DEF OrderInv
<1>2. \A s, t : Before(s, t)' = Before(s, t)
  BY DEF Before
<1>3. \A list : Ordered(list) => Ordered(list)'
  BY <1>1, <1>2, OrderedStays
<1>4. \A h \in ToSet(added) : h \in Processes /\ h \in Signals
  BY DaemonIsNoSignal DEF ToSet, FilesInv, TypeOK
<1>5. (\A h \in ToSet(added) : pc[h] \notin {"idle", "read"})'
  BY <1>1, <1>4
<1>6. Ordered(queue)'
  <2>1. PICK list : list = queue
    OBVIOUS
  <2> QED BY <1>3, <2>1 DEF OrderInv
<1>7. ASSUME NEW p \in Processes, p \in Rewriters' PROVE Ordered(items[p])'
  <2>1. PICK list : list = items[p]
    OBVIOUS
  <2>2. p \in Rewriters /\ items'[p] = list
    BY <1>7, <2>1 DEF Rewriters
  <2> QED BY <1>3, <2>1, <2>2 DEF OrderInv
<1>8. (Daemon \in Rewriters =>
         ToSet(queue) \subseteq ToSet(items[Daemon]) \cup ToSet(drained) \cup dropped)'
  BY DaemonIsNoSignal DEF OrderInv, Rewriters
<1>9. DrainedInOrder'
  BY <1>1, <1>2, DrainedStays DEF OrderInv
<1> QED BY <1>1, <1>5, <1>6, <1>7, <1>8, <1>9 DEF OrderInv, Rewriters

\* The read of add: the new signal is the last of the list and the last added.
LEMMA AddReadOrder ==
  ASSUME FilesInv, KeptInv, OrderInv, NEW h \in Signals, AddRead(h)
  PROVE  OrderInv'
<1> SUFFICES ASSUME ~overlapped' PROVE OrderInv'
  BY DEF OrderInv
<1>0. h \in Processes /\ h # Daemon
      /\ pc \in [Processes -> {"idle", "read", "send", "open", "write", "replace",
                               "done", "failed", "dead"}]
      /\ items \in [Processes -> Seq(Signals)]
      /\ queue \in Seq(Signals) /\ added \in Seq(Signals)
  BY DaemonIsNoSignal DEF FilesInv, TypeOK
<1>1. /\ ~overlapped /\ ~OthersRewriting(h) /\ pc[h] = "read" /\ pc' = [pc EXCEPT ![h] = "open"]
      /\ added' = Append(added, h) /\ UNCHANGED <<drained, queue>> /\ dropped \subseteq dropped'
  BY DEF AddRead
<1>2. /\ ToSet(drained) \subseteq ToSet(added) /\ Ordered(queue)
      /\ \A g \in ToSet(added) : pc[g] \notin {"idle", "read"}
  BY <1>1 DEF OrderInv
<1>3. h \notin ToSet(added)
  BY <1>1, <1>2
<1>4. /\ ToSet(added)' = ToSet(added) \cup {h}
      /\ \A s, t \in ToSet(added) : Before(s, t) => Before(s, t)'
      /\ \A s \in ToSet(added) : Before(s, h)'
  BY <1>0, <1>1, <1>3, BeforeGrows
<1>5. Ordered(queue)'
  <2>1. PICK list : list = queue
    OBVIOUS
  <2> QED BY <1>1, <1>2, <1>4, <2>1, OrderedStays
<1>6. DrainedInOrder'
  BY <1>1, <1>2, <1>4, DrainedStays DEF OrderInv
<1>7. PICK all : all = Append(queue, h)
  OBVIOUS
<1>8. /\ all \in Seq(Signals) /\ ToSet(all) = ToSet(queue) \cup {h}
      /\ \A i, j \in DOMAIN all : i < j => Before(all[i], all[j])'
  <2>1. PICK n \in Nat : n = Len(queue) /\ DOMAIN queue = 1..n
    BY <1>0
  <2>2. all \in Seq(Signals) /\ ToSet(all) = ToSet(queue) \cup {h}
    BY <1>0, <1>7, AppendToSet
  <2>3. /\ DOMAIN all = 1..(n + 1) /\ all[n + 1] = h
        /\ \A i \in 1..n : all[i] = queue[i]
    BY <1>0, <1>7, <2>1, AppendProperties
  <2>4. ASSUME NEW i \in 1..(n + 1), NEW j \in 1..(n + 1), i < j PROVE Before(all[i], all[j])'
    <3>1. i \in 1..n /\ all[i] = queue[i] /\ all[i] \in ToSet(added)
      <4>1. i \in 1..n
        BY <2>4
      <4>2. queue[i] \in ToSet(queue)
        BY <2>1, <4>1 DEF ToSet
      <4> QED BY <1>2, <2>3, <4>1, <4>2 DEF Ordered
    <3>2. CASE j = n + 1
      BY <1>4, <2>3, <3>1, <3>2
    <3>3. CASE j \in 1..n
      BY <1>1, <1>5, <2>1, <2>3, <2>4, <3>1, <3>3 DEF Ordered
    <3> QED BY <3>2, <3>3
  <2> QED BY <2>2, <2>3, <2>4
<1>9. Ordered(all)'
  <2>1. ASSUME NEW s \in ToSet(all) \ ToSet(drained), NEW d \in ToSet(drained),
               {s, d} \cap dropped' = {}
        PROVE  Before(d, s)'
    <3>1. CASE s = h
      BY <1>2, <1>4, <3>1
    <3>2. CASE s \in ToSet(queue)
      BY <1>1, <1>5, <2>1, <3>2 DEF Ordered
    <3> QED BY <1>8, <2>1, <3>1, <3>2
  <2>2. ToSet(all) \subseteq ToSet(added')
    BY <1>2, <1>4, <1>8 DEF Ordered
  <2> QED BY <1>1, <1>8, <2>1, <2>2 DEF Ordered
<1>10. PICK list : list = Trimmed(all)
  OBVIOUS
<1>11. Ordered(list)'
  <2>1. /\ ToSet(list) \subseteq ToSet(all)
        /\ \A i, j \in DOMAIN list :
             i < j => \E k, l \in DOMAIN all : k < l /\ all[k] = list[i] /\ all[l] = list[j]
    BY <1>8, <1>10, TrimmedKeepsOrder
  <2> QED BY <1>9, <2>1 DEF Ordered
<1>12. ASSUME NEW p \in Processes, p \in Rewriters' PROVE p = h
  BY <1>0, <1>1, <1>12 DEF OthersRewriting, Rewriters
<1>13. items'[h] = list
  BY <1>0, <1>7, <1>10 DEF AddRead
<1>14. (\A g \in ToSet(added) : pc[g] \notin {"idle", "read"})'
  BY <1>0, <1>1, <1>2, <1>4
<1>15. ToSet(drained)' \subseteq ToSet(added)'
  BY <1>1, <1>2, <1>4
<1> QED BY <1>0, <1>5, <1>6, <1>11, <1>12, <1>13, <1>14, <1>15, DaemonIsNoSignal DEF OrderInv, Rewriters

\* The read of flush: the list is the file, in the order of the file.
LEMMA FlushReadOrder ==
  ASSUME FilesInv, KeptInv, OrderInv, FlushRead
  PROVE  OrderInv'
<1> SUFFICES ASSUME ~overlapped' PROVE OrderInv'
  BY DEF OrderInv
<1>0. Daemon \in Processes /\ Daemon \notin Signals
  BY DaemonIsNoSignal
<1>1. /\ ~overlapped /\ ~OthersRewriting(Daemon) /\ pc' = [pc EXCEPT ![Daemon] = "send"]
      /\ items' = [items EXCEPT ![Daemon] = queue]
      /\ UNCHANGED <<added, drained, queue, dropped>>
  BY DEF FlushRead
<1>2. \A s, t : Before(s, t)' = Before(s, t)
  BY <1>1 DEF Before
<1>3. PICK list : list = queue
  OBVIOUS
<1>4. Ordered(list)'
  BY <1>1, <1>2, <1>3, OrderedStays DEF OrderInv
<1>5. items'[Daemon] = list
  BY <1>0, <1>1, <1>3 DEF FilesInv, TypeOK
<1>6. ASSUME NEW p \in Processes, p \in Rewriters' PROVE p = Daemon
  BY <1>0, <1>1, <1>6 DEF OthersRewriting, Rewriters, FilesInv, TypeOK
<1>7. \A h \in ToSet(added) : h \in Processes /\ h # Daemon
  BY DaemonIsNoSignal DEF ToSet, FilesInv, TypeOK
<1>8. (\A h \in ToSet(added) : pc[h] \notin {"idle", "read"})'
  BY <1>1, <1>7 DEF OrderInv, FilesInv, TypeOK
<1>9. DrainedInOrder'
  BY <1>1, <1>2, DrainedStays DEF OrderInv
<1> QED BY <1>1, <1>3, <1>4, <1>5, <1>6, <1>8, <1>9 DEF OrderInv, Rewriters

\* os.replace: the file is now the list of the one rewriter.
LEMMA ReplaceOrder ==
  ASSUME FilesInv, KeptInv, OrderInv, NEW p \in Processes, Replace(p)
  PROVE  OrderInv'
<1> SUFFICES ASSUME ~overlapped' PROVE OrderInv'
  BY DEF OrderInv
<1>0. ~overlapped
  BY DEF Replace
<1>1. /\ p \in Rewriters /\ \A q \in Processes \ {p} : pc[q] \notin Rewriting /\ pc'[q] = pc[q]
      /\ queue' = items[p] /\ pc'[p] = Returned(p)
      /\ UNCHANGED <<dropped, added, drained>>
  BY <1>0, ReplaceIs
<1>2. Rewriters' = {}
  BY <1>1 DEF Returned, Rewriting, Rewriters
<1>3. \A s, t : Before(s, t)' = Before(s, t)
  BY <1>1 DEF Before
<1>4. PICK list : list = items[p]
  OBVIOUS
<1>5. Ordered(list)'
  BY <1>0, <1>1, <1>3, <1>4, OrderedStays DEF OrderInv
<1>6. \A h \in ToSet(added) : h \in Processes /\ h # Daemon
  BY DaemonIsNoSignal DEF ToSet, FilesInv, TypeOK
<1>7. (\A h \in ToSet(added) : pc[h] \notin {"idle", "read"})'
  BY <1>0, <1>1, <1>6 DEF OrderInv, Returned
<1>8. DrainedInOrder'
  BY <1>0, <1>1, <1>3, DrainedStays DEF OrderInv
<1> QED BY <1>0, <1>1, <1>2, <1>4, <1>5, <1>7, <1>8 DEF OrderInv

\* The daemon's next signal was answered for the first time: all that is still to come was added
\* after it.
LEMMA DrainOne ==
  ASSUME drained \in Seq(Signals), NEW s \in Signals, drained' = Append(drained, s),
         UNCHANGED <<added, dropped>>,
         NEW list, Ordered(list),
         \A t \in ToSet(list) : t \in ToSet(drained) \cup {s} \cup dropped \/ Before(s, t)
  PROVE  Ordered(list)'
<1>1. ToSet(drained)' = ToSet(drained) \cup {s}
  BY AppendToSet
<1>2. \A a, b : Before(a, b)' = Before(a, b)
  BY DEF Before
<1> QED BY <1>1, <1>2 DEF Ordered

\* The daemon's next signal is drained after those added before it.
LEMMA DrainKeepsOrder ==
  ASSUME drained \in Seq(Signals), NEW s \in Signals, drained' = Append(drained, s),
         UNCHANGED <<added, dropped>>, ~overlapped, DrainedInOrder,
         \A d \in ToSet(drained) : {s, d} \cap dropped = {} => Before(d, s)
  PROVE  DrainedInOrder'
<1>1. PICK n \in Nat : n = Len(drained) /\ DOMAIN drained = 1..n
  OBVIOUS
<1>2. /\ DOMAIN drained' = 1..(n + 1) /\ drained'[n + 1] = s
      /\ \A i \in 1..n : drained'[i] = drained[i]
  BY <1>1, AppendProperties
<1>3. ASSUME NEW i \in 1..(n + 1), NEW j \in 1..(n + 1), i < j,
             {drained'[i], drained'[j]} \cap dropped = {}
      PROVE  Before(drained'[i], drained'[j])
  <2>1. i \in 1..n /\ drained'[i] = drained[i] /\ drained[i] \in ToSet(drained)
    BY <1>1, <1>2, <1>3 DEF ToSet
  <2>2. CASE j = n + 1
    BY <1>2, <1>3, <2>1, <2>2
  <2>3. CASE j \in 1..n
    <3>1. drained'[j] = drained[j] /\ {drained[i], drained[j]} \cap dropped = {}
      BY <1>2, <1>3, <2>1, <2>3
    <3>2. Before(drained[i], drained[j])
      BY <1>1, <1>3, <2>1, <2>3, <3>1 DEF DrainedInOrder, Before
    <3> QED BY <2>1, <3>1, <3>2
  <2>4. j = n + 1 \/ j \in 1..n
    BY <1>1
  <2> QED BY <2>2, <2>3, <2>4
<1> QED BY <1>2, <1>3 DEF DrainedInOrder, Before

\* One item of flush: the first of the list is answered, dropped or kept where it is.
LEMMA FlushSendOrder ==
  ASSUME FilesInv, KeptInv, OrderInv, FlushSend
  PROVE  OrderInv'
<1> SUFFICES ASSUME ~overlapped' PROVE OrderInv'
  BY DEF OrderInv
<1>0. Daemon \in Processes /\ Daemon \notin Signals /\ ~overlapped
  BY SendIs, DaemonIsNoSignal
<1>1. PICK list \in Seq(Signals) : list = items[Daemon] /\ list # <<>>
  BY <1>0 DEF FlushSend, FilesInv, TypeOK
<1>2. PICK s \in Signals : s = Head(list)
  BY <1>1, SendIs
<1>3. PICK rest \in Seq(Signals) : rest = Tail(list)
  BY <1>1, SendIs
<1>4. ToSet(list) = {s} \cup ToSet(rest)
  BY <1>1, <1>2, <1>3, HeadAndTail
<1>5. /\ pc[Daemon] = "send" /\ pc'[Daemon] \in {"send", "open"}
      /\ \A q \in Processes \ {Daemon} : pc'[q] = pc[q]
      /\ UNCHANGED <<queue, added, overlapped>> /\ dropped \subseteq dropped'
  BY <1>0, SendIs DEF FilesInv, TypeOK
<1>6. \A q \in Processes \ {Daemon} : q \notin Rewriters /\ q \notin Rewriters'
  BY <1>0, <1>5 DEF KeptInv, Rewriters, Rewriting
<1>7. Ordered(list) /\ Ordered(queue)
  BY <1>0, <1>1, <1>5 DEF OrderInv, Rewriters, Rewriting
<1>8. Ordered(rest) /\ \A t \in ToSet(rest) : Before(s, t)
  BY <1>1, <1>2, <1>3, <1>7, TailOrdered
<1>9. ToSet(queue) \subseteq ToSet(list) \cup ToSet(drained) \cup dropped
  BY <1>0, <1>1, <1>5 DEF OrderInv, Rewriters, Rewriting
<1>10. PICK file : file = queue
  OBVIOUS
<1>11. ToSet(drained) \subseteq ToSet(added) /\ DrainedInOrder
  BY <1>0 DEF OrderInv
<1>12. (\A h \in ToSet(added) : pc[h] \notin {"idle", "read"})'
  <2>1. \A h \in ToSet(added) : h \in Processes /\ h # Daemon
    BY DaemonIsNoSignal DEF ToSet, FilesInv, TypeOK
  <2> QED BY <1>0, <1>5, <2>1 DEF OrderInv
<1>13. SUFFICES /\ ToSet(drained)' \subseteq ToSet(added)
                /\ Ordered(file)'
                /\ \E left : left = items'[Daemon] /\ Ordered(left)'
                /\ ToSet(file) \subseteq ToSet(items'[Daemon]) \cup ToSet(drained') \cup dropped'
                /\ DrainedInOrder'
  BY <1>0, <1>5, <1>6, <1>10, <1>12 DEF OrderInv, Rewriters
<1>14. CASE UNCHANGED drained
  <2>1. \A a, b : Before(a, b)' = Before(a, b)
    BY <1>5 DEF Before
  <2>2. Ordered(file)' /\ Ordered(list)' /\ Ordered(rest)'
    BY <1>5, <1>7, <1>8, <1>10, <1>11, <1>14, <2>1, OrderedStays
  <2>3. DrainedInOrder'
    BY <1>0, <1>5, <1>11, <1>14, <2>1, DrainedStays
  <2>4. \/ items'[Daemon] = list
        \/ items'[Daemon] = rest /\ s \in dropped' \cup ToSet(drained)
    <3>1. Drain(s) => s \in ToSet(drained)
      <4>1. Append(drained, s) # drained
        <5>1. drained \in Seq(Signals)
          BY DEF FilesInv, TypeOK
        <5>2. Len(Append(drained, s)) = Len(drained) + 1 /\ Len(drained) \in Nat
          BY <5>1
        <5> QED BY <5>2
      <4> QED BY <1>0, <1>14, <4>1 DEF Drain
    <3> QED BY <1>0, <1>1, <1>2, <1>3, <3>1, SendIs DEF FilesInv, TypeOK
  <2> QED BY <1>4, <1>5, <1>9, <1>10, <1>11, <1>14, <2>2, <2>3, <2>4
<1>15. CASE ~UNCHANGED drained
  <2>1. /\ drained' = Append(drained, s) /\ s \notin ToSet(drained)
        /\ items'[Daemon] = rest /\ UNCHANGED dropped
    BY <1>0, <1>1, <1>2, <1>3, <1>15, SendIs DEF Drain, FilesInv, TypeOK
  <2>2. drained \in Seq(Signals)
    BY DEF FilesInv, TypeOK
  <2>3. ToSet(drained)' = ToSet(drained) \cup {s}
    BY <2>1, <2>2, AppendToSet
  <2>4. Ordered(rest)'
    BY <1>5, <1>8, <2>1, <2>2, DrainOne
  <2>5. \A t \in ToSet(file) : t \in ToSet(drained) \cup {s} \cup dropped \/ Before(s, t)
    BY <1>4, <1>8, <1>9, <1>10
  <2>6. Ordered(file)'
    BY <1>5, <1>7, <1>10, <2>1, <2>2, <2>5, DrainOne
  <2>7. \A d \in ToSet(drained) : {s, d} \cap dropped = {} => Before(d, s)
    BY <1>4, <1>7, <2>1 DEF Ordered
  <2>8. DrainedInOrder'
    BY <1>0, <1>5, <1>11, <2>1, <2>2, <2>7, DrainKeepsOrder
  <2>9. s \in ToSet(added)
    BY <1>4, <1>7 DEF Ordered
  <2> QED BY <1>4, <1>9, <1>10, <1>11, <2>1, <2>3, <2>4, <2>6, <2>8, <2>9
<1> QED BY <1>14, <1>15

\* Every step keeps the order of additions.
LEMMA OrderStep == FilesInv /\ KeptInv /\ OrderInv /\ [Next]_vars => OrderInv'
<1> SUFFICES ASSUME FilesInv, KeptInv, OrderInv, [Next]_vars PROVE OrderInv'
  OBVIOUS
<1>1. ASSUME NEW p \in Processes, Open(p) \/ Write(p) PROVE OrderInv'
  <2> SUFFICES ASSUME ~overlapped' PROVE OrderInv'
    BY DEF OrderInv
  <2>1. ~overlapped /\ UNCHANGED <<items, added, drained, overlapped, dropped>>
    BY <1>1 DEF Open, Write
  <2>2. UNCHANGED queue
    BY <1>1, <2>1 DEF Open, Write, KeptInv, WritesOwn
  <2>3. pc[p] \in {"open", "write"} /\ pc' = [pc EXCEPT ![p] = IF pc[p] = "open" THEN "write" ELSE "replace"]
    BY <1>1 DEF Open, Write
  <2>4. \A q \in Processes : /\ pc'[q] \in Rewriting => pc[q] \in Rewriting /\ items'[q] = items[q]
                             /\ pc'[q] \in {"idle", "read"} => pc[q] \in {"idle", "read"}
    BY <2>1, <2>3 DEF Rewriting, FilesInv, TypeOK
  <2> QED BY <2>1, <2>2, <2>4, OrderStays
<1>2. ASSUME NEW h \in Signals, Report(h) PROVE OrderInv'
  <2> SUFFICES ASSUME ~overlapped' PROVE OrderInv'
    BY DEF OrderInv
  <2>1. UNCHANGED <<items, queue, added, drained, overlapped, dropped>>
    BY <1>2 DEF Report
  <2>2. \A q \in Processes : \/ pc'[q] = pc[q]
                             \/ pc[q] = "idle" /\ pc'[q] \in {"done", "read"}
    BY <1>2 DEF Report, FilesInv, TypeOK
  <2>3. \A q \in Processes : /\ pc'[q] \in Rewriting => pc[q] \in Rewriting /\ items'[q] = items[q]
                             /\ pc'[q] \in {"idle", "read"} => pc[q] \in {"idle", "read"}
    BY <2>1, <2>2 DEF Rewriting
  <2> QED BY <2>1, <2>3, OrderStays
<1>3. CASE FlushEnd
  <2> SUFFICES ASSUME ~overlapped' PROVE OrderInv'
    BY DEF OrderInv
  <2>1. UNCHANGED <<items, queue, added, drained, overlapped, dropped>>
    BY <1>3 DEF FlushEnd
  <2>2. \A q \in Processes : pc'[q] = pc[q] \/ (pc[q] = "send" /\ pc'[q] = "open")
    BY <1>3 DEF FlushEnd, FilesInv, TypeOK
  <2>3. \A q \in Processes : /\ pc'[q] \in Rewriting => pc[q] \in Rewriting /\ items'[q] = items[q]
                             /\ pc'[q] \in {"idle", "read"} => pc[q] \in {"idle", "read"}
    BY <2>1, <2>2 DEF Rewriting
  <2> QED BY <2>1, <2>3, OrderStays
<1>4. CASE Crash
  <2> SUFFICES ASSUME ~overlapped' PROVE OrderInv'
    BY DEF OrderInv
  <2>1. UNCHANGED <<queue, added, drained, overlapped, dropped>>
    BY <1>4 DEF Crash
  <2>2. \A q \in Processes : /\ pc'[q] \in {"idle", "done", "failed", "dead"}
                             /\ q # Daemon /\ pc'[q] = "idle" => pc[q] = "idle"
    BY <1>4 DEF Crash
  <2>3. \A q \in Processes : /\ pc'[q] \in Rewriting => pc[q] \in Rewriting /\ items'[q] = items[q]
                             /\ pc'[q] \in {"idle", "read"} /\ q \in Signals
                                  => pc[q] \in {"idle", "read"}
    BY <2>2, DaemonIsNoSignal DEF Rewriting
  <2> QED BY <2>1, <2>3, OrderStays
<1>5. CASE UNCHANGED vars
  <2> SUFFICES ASSUME ~overlapped' PROVE OrderInv'
    BY DEF OrderInv
  <2> QED BY <1>5, OrderStays DEF vars
<1>6. ASSUME NEW h \in Signals, HookStep(h) PROVE OrderInv'
  BY <1>1, <1>6, AddReadOrder, ReplaceOrder, DaemonIsNoSignal DEF HookStep
<1>7. CASE DaemonStep
  BY <1>1, <1>3, <1>7, FlushReadOrder, FlushSendOrder, ReplaceOrder, DaemonIsNoSignal DEF DaemonStep
<1> QED BY <1>2, <1>4, <1>5, <1>6, <1>7 DEF Next

\* The coordinator first answers buffered signals in the order they were added (retry.py flush).
THEOREM PiDrainsInOrder == Spec => []DrainedInOrder
<1>1. Init => OrderInv
  <2> SUFFICES ASSUME Init PROVE OrderInv
    OBVIOUS
  <2>1. Rewriters = {} /\ Daemon \notin Rewriters
    BY DEF Init, Rewriters, Rewriting
  <2>2. ToSet(<<>>) = {} /\ DOMAIN <<>> = {}
    BY DEF ToSet
  <2>3. queue = <<>> /\ added = <<>> /\ drained = <<>>
    BY DEF Init
  <2> QED BY <2>1, <2>2, <2>3 DEF OrderInv, Ordered, DrainedInOrder
<1>2. OrderInv => DrainedInOrder
  BY DEF OrderInv, DrainedInOrder
<1> QED BY <1>1, <1>2, FilesInit, FilesStep, KeptInit, KeptStep, OrderStep, PTL DEF Spec
=============================================================================
