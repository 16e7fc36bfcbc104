----------------------------- MODULE PiReceiver -----------------------------
(***************************************************************************)
(* The Raspberry Pi receiver (receiver-pi/calltoverify_pi): gammu-smsd and *)
(* Asterisk start one process per signal (cli.py _report), which posts it  *)
(* to the coordinator and, when that fails, adds it to a retry file; the   *)
(* daemon (cli.py cmd_run) flushes that file at every interval.  All of    *)
(* them share the retry file and one temporary file beside it (retry.py),  *)
(* and no lock.                                                            *)
(*                                                                         *)
(* One action is one system call or one post: reading the file, opening    *)
(* the temporary one (which truncates it), writing it, and renaming it.    *)
(* A file is the sequence of the signals on its lines.                     *)
(***************************************************************************)
EXTENDS Integers, FiniteSets, Sequences, SequencesExt

CONSTANTS
  Signals,      \* the signals the modem and Asterisk report, each by a process of its own,
                \* numbered in the order they arrive
  MaxHooks,     \* bound on the hook processes that run at once, beside the daemon
  MaxItems,     \* max_items of RetryQueue
  MaxOutages,   \* bound on posts that fail transiently
  MaxCrashes    \* bound on power failures

Daemon == 0               \* the process of cmd_run
NoFile == <<Daemon>>      \* the path of the temporary file names nothing

ASSUME PiAssumption ==
  /\ Signals \subseteq Nat \ {0}
  /\ MaxItems \in Nat \ {0} /\ MaxHooks \in Nat \ {0} /\ MaxOutages \in Nat /\ MaxCrashes \in Nat

Processes == Signals \cup {Daemon}

VARIABLES
  pc, items, fd,   \* per process: where it is, the list it holds, what its open file is now
  queue, tmp,      \* the files at path and at path + ".tmp"
  accepted,        \* signals the coordinator processed
  dropped,         \* signals given up on purpose: rejected ones, the oldest at the bound
  outages, crashes,
  added,           \* history: the signals of the queue in the order they were added
  drained,         \* history: those accepted by a flush, in the order of their first time
  overlapped       \* history: a process read the file while another was about to rewrite it

vars == <<pc, items, fd, queue, tmp, accepted, dropped, outages, crashes,
          added, drained, overlapped>>

TypeOK ==
  /\ pc \in [Processes -> {"idle", "read", "send", "open", "write", "replace",
                           "done", "failed", "dead"}]
  /\ items \in [Processes -> Seq(Signals)]
  /\ fd \in [Processes -> {"none", "tmp", "queue", "gone"}]
  /\ queue \in Seq(Signals)
  /\ tmp \in Seq(Signals) \cup {NoFile}
  /\ accepted \subseteq Signals /\ dropped \subseteq Signals
  /\ outages \in 0..MaxOutages /\ crashes \in 0..MaxCrashes
  /\ added \in Seq(Signals) /\ drained \in Seq(Signals)
  /\ overlapped \in BOOLEAN
  /\ \A p \in Processes : fd[p] = "none" <=> pc[p] # "write"

Init ==
  /\ pc = [p \in Processes |-> "idle"]
  /\ items = [p \in Processes |-> <<>>]
  /\ fd = [p \in Processes |-> "none"]
  /\ queue = <<>> /\ tmp = NoFile
  /\ accepted = {} /\ dropped = {}
  /\ outages = 0 /\ crashes = 0
  /\ added = <<>> /\ drained = <<>>
  /\ overlapped = FALSE

-----------------------------------------------------------------------------
(* RetryQueue *)

\* Where a process is that has read the file and not yet replaced it.
Rewriting == {"send", "open", "write", "replace"}

OthersRewriting(p) == \E q \in Processes \ {p} : pc[q] \in Rewriting

\* The list that add writes: the newest MaxItems.
Trimmed(s) == IF Len(s) > MaxItems THEN SubSeq(s, Len(s) - MaxItems + 1, Len(s)) ELSE s

\* add: read, append, trim.
AddRead(h) ==
  /\ pc[h] = "read"
  /\ LET all == Append(queue, h) IN
       /\ items' = [items EXCEPT ![h] = Trimmed(all)]
       /\ dropped' = dropped \cup (ToSet(all) \ ToSet(Trimmed(all)))
  /\ overlapped' = (overlapped \/ OthersRewriting(h))
  /\ added' = IF overlapped' THEN <<>> ELSE Append(added, h)
  /\ drained' = IF overlapped' THEN <<>> ELSE drained
  /\ pc' = [pc EXCEPT ![h] = "open"]
  /\ UNCHANGED <<fd, queue, tmp, accepted, outages, crashes>>

\* open(tmp, "w") creates or truncates the one temporary file.
Open(p) ==
  /\ pc[p] = "open"
  /\ tmp' = <<>>
  /\ fd' = [fd EXCEPT ![p] = "tmp"]
  /\ pc' = [pc EXCEPT ![p] = "write"]
  /\ UNCHANGED <<items, queue, accepted, dropped, outages, crashes, added, drained, overlapped>>

\* What a file holds after `new' was written from its start: `old' may be longer, and the
\* line the write ends in is corrupt and skipped by _read.
Overwritten(old, new) ==
  IF new = <<>> THEN {old}
  ELSE {new \o SubSeq(old, k, Len(old)) : k \in 2..(Len(old) + 1)} \cup {new}

\* Write without closing the file.
WriteKeptOpen(p) ==
  /\ pc[p] = "write"
  /\ \/ fd[p] = "tmp" /\ tmp' \in Overwritten(tmp, items[p]) /\ UNCHANGED queue
     \/ fd[p] # "tmp" /\ UNCHANGED <<queue, tmp>>
  /\ pc' = [pc EXCEPT ![p] = "replace"]
  /\ UNCHANGED <<items, fd, accepted, dropped, outages, crashes, added, drained, overlapped>>

\* The buffered lines reach the file that was opened, whatever its name is by now.
Write(p) ==
  /\ pc[p] = "write"
  /\ \/ fd[p] = "tmp" /\ tmp' \in Overwritten(tmp, items[p]) /\ UNCHANGED queue
     \/ fd[p] = "queue" /\ queue' \in Overwritten(queue, items[p]) /\ UNCHANGED tmp
     \/ fd[p] = "gone" /\ UNCHANGED <<queue, tmp>>
  /\ fd' = [fd EXCEPT ![p] = "none"]
  /\ pc' = [pc EXCEPT ![p] = "replace"]
  /\ UNCHANGED <<items, accepted, dropped, outages, crashes, added, drained, overlapped>>

\* Where a process goes when its _write returned, and when os.replace raised.
Returned(p) == IF p = Daemon THEN "idle" ELSE "done"
Raised(p)   == IF p = Daemon THEN "idle" ELSE "failed"

\* os.replace renames whatever the temporary path names now; a file opened earlier keeps
\* its contents under its new name, or under none.
Replace(p) ==
  /\ pc[p] = "replace"
  /\ \/ /\ tmp # NoFile
        /\ queue' = tmp /\ tmp' = NoFile
        /\ fd' = [q \in Processes |-> CASE fd[q] = "tmp"   -> "queue"
                                        [] fd[q] = "queue" -> "gone"
                                        [] OTHER           -> fd[q]]
        /\ pc' = [pc EXCEPT ![p] = Returned(p)]
     \/ /\ tmp = NoFile
        /\ pc' = [pc EXCEPT ![p] = Raised(p)]
        /\ UNCHANGED <<queue, tmp, fd>>
  /\ items' = [items EXCEPT ![p] = <<>>]
  /\ UNCHANGED <<accepted, dropped, outages, crashes, added, drained, overlapped>>

-----------------------------------------------------------------------------
(* Posting a signal to the coordinator *)

\* The coordinator answers 2xx; it does not answer in time, or 5xx or 429, having
\* processed the signal or not; it answers any other 4xx.
Answered(s)  == accepted' = accepted \cup {s} /\ UNCHANGED outages
Unanswered(s) ==
  /\ outages < MaxOutages
  /\ outages' = outages + 1
  /\ accepted' \in {accepted, accepted \cup {s}}
Rejected(s)  == UNCHANGED <<accepted, outages>>

\* _report: a signal arrives and is posted; whatever is raised, it goes to the queue.
Report(h) ==
  /\ pc[h] = "idle"
  /\ \A g \in Signals : g < h => pc[g] # "idle"
  /\ Cardinality({g \in Signals : pc[g] \in Rewriting \cup {"read"}}) < MaxHooks
  /\ \/ Answered(h) /\ pc' = [pc EXCEPT ![h] = "done"]
     \/ (Unanswered(h) \/ Rejected(h)) /\ pc' = [pc EXCEPT ![h] = "read"]
  /\ UNCHANGED <<items, fd, queue, tmp, dropped, crashes, added, drained, overlapped>>

\* flush: the whole file is read first.
FlushRead ==
  /\ pc[Daemon] = "idle"
  /\ items' = [items EXCEPT ![Daemon] = queue]
  /\ overlapped' = (overlapped \/ OthersRewriting(Daemon))
  /\ added' = IF overlapped' THEN <<>> ELSE added
  /\ drained' = IF overlapped' THEN <<>> ELSE drained
  /\ pc' = [pc EXCEPT ![Daemon] = "send"]
  /\ UNCHANGED <<fd, queue, tmp, accepted, dropped, outages, crashes>>

Drain(s) == drained' = IF overlapped \/ s \in ToSet(drained) THEN drained ELSE Append(drained, s)

\* flush that stops at every failure, as if each were transient.
FlushSendStopping ==
  /\ pc[Daemon] = "send" /\ items[Daemon] # <<>>
  /\ LET s == Head(items[Daemon]) IN
       \/ /\ Answered(s) /\ Drain(s)
          /\ items' = [items EXCEPT ![Daemon] = Tail(@)]
          /\ UNCHANGED <<pc, dropped>>
       \/ /\ Unanswered(s) \/ Rejected(s)
          /\ pc' = [pc EXCEPT ![Daemon] = "open"]
          /\ UNCHANGED <<items, dropped, drained>>
  /\ UNCHANGED <<fd, queue, tmp, crashes, added, overlapped>>

\* flush that keeps a transiently failed signal for the end of the list.
FlushSendRotating ==
  /\ pc[Daemon] = "send" /\ items[Daemon] # <<>>
  /\ LET s == Head(items[Daemon]) IN
       \/ /\ Answered(s) /\ Drain(s)
          /\ items' = [items EXCEPT ![Daemon] = Tail(@)]
          /\ UNCHANGED dropped
       \/ /\ Unanswered(s)
          /\ items' = [items EXCEPT ![Daemon] = Append(Tail(@), s)]
          /\ UNCHANGED <<dropped, drained>>
       \/ /\ Rejected(s) /\ dropped' = dropped \cup {s}
          /\ items' = [items EXCEPT ![Daemon] = Tail(@)]
          /\ UNCHANGED drained
  /\ UNCHANGED <<pc, fd, queue, tmp, crashes, added, overlapped>>

\* flush that drops the transiently failed signal and keeps the ones after it.
FlushSendDropping ==
  /\ pc[Daemon] = "send" /\ items[Daemon] # <<>>
  /\ LET s == Head(items[Daemon]) IN
       \/ /\ Answered(s) /\ Drain(s)
          /\ items' = [items EXCEPT ![Daemon] = Tail(@)]
          /\ UNCHANGED <<pc, dropped>>
       \/ /\ Rejected(s) /\ dropped' = dropped \cup {s}
          /\ items' = [items EXCEPT ![Daemon] = Tail(@)]
          /\ UNCHANGED <<pc, drained>>
       \/ /\ Unanswered(s)
          /\ items' = [items EXCEPT ![Daemon] = Tail(@)]
          /\ pc' = [pc EXCEPT ![Daemon] = "open"]
          /\ UNCHANGED <<dropped, drained>>
  /\ UNCHANGED <<fd, queue, tmp, crashes, added, overlapped>>

\* One item of flush: sent, dropped when rejected for good, or kept with all that follow.
FlushSend ==
  /\ pc[Daemon] = "send" /\ items[Daemon] # <<>>
  /\ LET s == Head(items[Daemon]) IN
       \/ /\ Answered(s) /\ Drain(s)
          /\ items' = [items EXCEPT ![Daemon] = Tail(@)]
          /\ UNCHANGED <<pc, dropped>>
       \/ /\ Rejected(s) /\ dropped' = dropped \cup {s}
          /\ items' = [items EXCEPT ![Daemon] = Tail(@)]
          /\ UNCHANGED <<pc, drained>>
       \/ /\ Unanswered(s)
          /\ pc' = [pc EXCEPT ![Daemon] = "open"]
          /\ UNCHANGED <<items, dropped, drained>>
  /\ UNCHANGED <<fd, queue, tmp, crashes, added, overlapped>>

\* The list is used up: flush writes an empty file.
FlushEnd ==
  /\ pc[Daemon] = "send" /\ items[Daemon] = <<>>
  /\ pc' = [pc EXCEPT ![Daemon] = "open"]
  /\ UNCHANGED <<items, fd, queue, tmp, accepted, dropped, outages, crashes,
                 added, drained, overlapped>>

\* The power fails: every process dies, the files stay, and systemd starts the daemon again.
Crash ==
  /\ crashes < MaxCrashes
  /\ crashes' = crashes + 1
  /\ pc' = [p \in Processes |-> CASE p = Daemon -> "idle"
                                  [] pc[p] \in {"idle", "done", "failed"} -> pc[p]
                                  [] OTHER -> "dead"]
  /\ items' = [p \in Processes |-> <<>>]
  /\ fd' = [p \in Processes |-> "none"]
  /\ UNCHANGED <<queue, tmp, accepted, dropped, outages, added, drained, overlapped>>

HookStep(h) == AddRead(h) \/ Open(h) \/ Write(h) \/ Replace(h)

DaemonStep ==
  FlushRead \/ FlushSend \/ FlushEnd \/ Open(Daemon) \/ Write(Daemon) \/ Replace(Daemon)

Next == (\E h \in Signals : Report(h) \/ HookStep(h)) \/ DaemonStep \/ Crash

Spec == Init /\ [][Next]_vars

\* A hook that was started runs to its end and the daemon keeps looping.
FairSpec == Spec /\ WF_vars(DaemonStep) /\ \A h \in Signals : WF_vars(HookStep(h))

-----------------------------------------------------------------------------
Forgotten(h) ==
  /\ pc[h] \in {"done", "failed"}
  /\ h \notin accepted \cup dropped \cup ToSet(queue)

\* retry.py: "so a brief network or backend outage does not lose verifications": a signal
\* whose hook has ended was processed, dropped on purpose, or stands in the file.
NoReportForgotten == \A h \in Signals : ~Forgotten(h)

\* The only way to lose a signal is two processes in the file at once: whatever answers are
\* lost, items rejected, and power failures cut a flush or an add short, it is kept.
SentOrKept == ~overlapped => NoReportForgotten

\* flush: "Attempt to send each buffered item in order": unless processes overlapped, the
\* coordinator first answers the buffered signals in the order they were added (a rejected
\* one may turn up again after a power failure).
DrainedInOrder ==
  ~overlapped =>
    \A i, j \in DOMAIN drained : \A k, l \in DOMAIN added :
      i < j /\ {drained[i], drained[j]} \cap dropped = {}
        /\ drained[i] = added[k] /\ drained[j] = added[l] => k < l

\* One item cannot block the queue for ever: when the outage is over the file is emptied
\* and stays so.
QueueDrains == <>[](queue = <<>>)
=============================================================================
