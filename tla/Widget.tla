------------------------------- MODULE Widget -------------------------------
(***************************************************************************)
(* The web widget: the controller (widget-web/src/controller.ts) that      *)
(* starts a verification and polls it, and the page around it              *)
(* (widget-web/src/index.ts) with its buttons and its polling timer.       *)
(*                                                                         *)
(* A request to the backend is an await: buttons are pressed and other     *)
(* answers arrive before its own does.  What the backend answers is left   *)
(* to the module that composes the two.                                    *)
(***************************************************************************)
EXTENDS Integers, Sequences, SequencesExt

CONSTANTS Sessions, Numbers, None

VARIABLES
  state, sid,     \* the controller's state and sessionId
  screen,         \* what the page shows
  asked,          \* starts the backend has not processed
  opened,         \* sessions whose start was processed and its answer is on the way
  polls,          \* polls in flight: the session each is for, and its answer once there is one
  timers, handle, \* polling intervals that run, and whether pollTimer names one
  stopped,
  reported            \* per session: the calls of onVerified and onExpired, in order

widgetVars == <<state, sid, screen, asked, opened, polls, timers, handle, stopped, reported>>

PollOf(s) == [of |-> s, status |-> "none", number |-> None]
Outcomes == {[what |-> "verified", number |-> n] : n \in Numbers}
              \cup {[what |-> "expired", number |-> None]}

WidgetTypeOK ==
  /\ state \in {"idle", "pending", "verified", "expired", "error"}
  /\ sid \in Sessions \cup {None}
  /\ screen \in {"chooser", "starting", "instructions", "verified", "expired", "error"}
  /\ asked \in Nat /\ opened \subseteq Sessions
  /\ polls \in Seq([of : Sessions, status : {"none", "pending", "verified", "expired"},
                    number : Numbers \cup {None}])
  /\ timers \in Nat /\ handle \in BOOLEAN /\ (handle => timers > 0)
  /\ stopped \in BOOLEAN
  /\ reported \in [Sessions -> Seq(Outcomes)]
  /\ state = "pending" => sid # None

WidgetInit ==
  /\ state = "idle" /\ sid = None
  /\ screen = "chooser"
  /\ asked = 0 /\ opened = {} /\ polls = <<>>
  /\ timers = 0 /\ handle = FALSE /\ stopped = FALSE
  /\ reported = [s \in Sessions |-> <<>>]

-----------------------------------------------------------------------------
(* The page *)

\* Mutated: pollTimer keeps its value.
StopTimersOnce == timers' = (IF handle THEN timers - 1 ELSE timers) /\ UNCHANGED handle

\* stopTimers clears the interval that pollTimer names; one that was overwritten runs on.
StopTimers == timers' = (IF handle THEN timers - 1 ELSE timers) /\ handle' = FALSE

\* A channel is chosen: begin, which starts nothing unless the controller is idle.
Choose ==
  /\ screen = "chooser"
  /\ screen' = "starting"
  /\ asked' = IF state = "idle" THEN asked + 1 ELSE asked
  /\ UNCHANGED <<state, sid, opened, polls, timers, handle, stopped, reported>>

\* Mutated: the state is kept.
ResetKeepingState == sid' = None /\ UNCHANGED state

Reset == state' = "idle" /\ sid' = None

\* switchChannel and restart: "try another way" while waiting, "try again" at the end.
StartOver ==
  /\ screen \in {"instructions", "expired", "error"}
  /\ StopTimers /\ Reset
  /\ screen' = "chooser"
  /\ UNCHANGED <<asked, opened, polls, stopped, reported>>

Stop ==
  /\ ~stopped
  /\ stopped' = TRUE /\ StopTimers
  /\ UNCHANGED <<state, sid, screen, asked, opened, polls, reported>>

Show(what) == screen' = IF stopped THEN screen ELSE what

-----------------------------------------------------------------------------
(* begin, after its await *)

\* The backend opened session s; the answer is on its way.
StartProcessed(s) ==
  /\ asked > 0
  /\ asked' = asked - 1 /\ opened' = opened \cup {s}
  /\ UNCHANGED <<state, sid, screen, polls, timers, handle, stopped, reported>>

StartAnswered(s) ==
  /\ s \in opened
  /\ opened' = opened \ {s}
  /\ state' = "pending" /\ sid' = s
  /\ Show("instructions")
  /\ timers' = (IF stopped THEN timers ELSE timers + 1) /\ handle' = (handle \/ ~stopped)
  /\ UNCHANGED <<asked, polls, stopped, reported>>

\* The request or its answer was lost.
StartFailed ==
  /\ \/ asked > 0 /\ asked' = asked - 1 /\ UNCHANGED opened
     \/ \E s \in opened : opened' = opened \ {s} /\ UNCHANGED asked
  /\ state' = "error"
  /\ Show("error")
  /\ IF stopped THEN UNCHANGED <<timers, handle>> ELSE StopTimers
  /\ UNCHANGED <<sid, polls, stopped, reported>>

-----------------------------------------------------------------------------
(* poll *)

\* Mutated: polls stack.
PollStacking ==
  /\ timers > 0 /\ ~stopped /\ Len(polls) < 2
  /\ state = "pending"
  /\ polls' = Append(polls, PollOf(sid))
  /\ UNCHANGED <<state, sid, screen, asked, opened, timers, handle, stopped, reported>>

\* The timer fires; polls do not stack, and only a pending verification is polled.
Poll ==
  /\ timers > 0 /\ ~stopped /\ polls = <<>>
  /\ state = "pending"
  /\ polls' = <<PollOf(sid)>>
  /\ UNCHANGED <<state, sid, screen, asked, opened, timers, handle, stopped, reported>>

\* The backend read the session's status; the answer is on its way.
PollProcessed(i, status, number) ==
  /\ polls[i].status = "none"
  /\ polls' = [polls EXCEPT ![i].status = status, ![i].number = number]
  /\ UNCHANGED <<state, sid, screen, asked, opened, timers, handle, stopped, reported>>

\* The outcome is shown and reported.
Conclude(s, outcome) ==
  /\ state' = outcome.what
  /\ Show(outcome.what)
  /\ IF stopped THEN UNCHANGED <<timers, handle, reported>>
     ELSE StopTimers /\ reported' = [reported EXCEPT ![s] = Append(@, outcome)]

PollAnswered(i) ==
  /\ polls[i].status # "none"
  /\ IF polls[i].status = "pending" THEN UNCHANGED <<state, screen, timers, handle, reported>>
     ELSE Conclude(polls[i].of, [what |-> polls[i].status, number |-> polls[i].number])
  /\ polls' = RemoveAt(polls, i)
  /\ UNCHANGED <<sid, asked, opened, stopped>>

\* A failed poll is transient; the page draws a failed start once more.
PollFailed(i) ==
  /\ polls' = RemoveAt(polls, i)
  /\ IF state = "error" /\ ~stopped THEN StopTimers /\ screen' = "error"
     ELSE UNCHANGED <<timers, handle, screen>>
  /\ UNCHANGED <<state, sid, asked, opened, stopped, reported>>
=============================================================================
