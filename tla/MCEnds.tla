------------------------------- MODULE MCEnds -------------------------------
(* The two ends of the system for TLC: the receiver phone and the application share no     *)
(* variable and meet in the coordinator only, so one instance runs either of them, in      *)
(* scenarios that bound what happens together.                                             *)
EXTENDS AndroidReceiver, Application

CONSTANTS n1, n2

VARIABLE scenario

Scenarios ==
  {"paired twice", "device removed", "crowded buffer", "webhooks", "starts left behind"}

EndsInit == PhoneInit /\ AppInit /\ scenario \in Scenarios

AtMostSignals(n) == Cardinality({e \in Events : hand'[e].st # "new"}) <= n
AtMostStarts(n) == asked' + Cardinality({s \in Sessions : phase'[s] # "none"}) <= n

\* Two signals and two pairings, the second for good; one signal, and a device may be removed;
\* or three signals and one pairing.
Phone ==
  \/ /\ scenario = "paired twice"
     /\ PhoneNext /\ AtMostSignals(2)
     /\ UNCHANGED removed /\ ~(pairs = MaxPairings /\ Unpair)
  \/ scenario = "device removed" /\ PhoneNext /\ AtMostSignals(1)
  \/ scenario = "crowded buffer" /\ PhoneNext /\ pairs' <= 1

\* Two starts; or three, and the application hears nothing of them.
BrowserAndHook ==
  \/ scenario = "webhooks" /\ AppNext /\ AtMostStarts(2)
  \/ scenario = "starts left behind" /\ AppNext /\ UNCHANGED told

EndsNext ==
  \/ Phone /\ UNCHANGED <<appVars, scenario>>
  \/ BrowserAndHook /\ UNCHANGED <<phoneVars, scenario>>

EndsSpec ==
  EndsInit /\ [][EndsNext]_<<phoneVars, appVars, scenario>> /\ PhoneFairness /\ AppFairness
=============================================================================
