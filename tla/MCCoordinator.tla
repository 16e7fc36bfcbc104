--------------------------- MODULE MCCoordinator ---------------------------
(***************************************************************************)
(* Instances of Coordinator for TLC.  Each configuration chooses one of    *)
(* the fleets, request sets and signal sets below.                         *)
(***************************************************************************)
EXTENDS Coordinator, TLC

CONSTANTS d1, d2, n1, n2, l1, l2, m1, m2, k1, k2

\* One SIM that serves everything; n2 is the same SIM enrolled again, on another device.
OneLine ==
  n1 :> [device |-> d1, line |-> l1, channels |-> Channels]
MovedLine ==
  OneLine @@ n2 :> [device |-> d2, line |-> l1, channels |-> Channels]
\* Two SIMs on one device.
TwoLines ==
  OneLine @@ n2 :> [device |-> d1, line |-> l2, channels |-> {"sms", "call"}]

\* The shortest code that extractCode sees and one digit less, the longest and one digit more.
FourAndThree == [k \in Codes |-> IF k = k1 THEN 4 ELSE 3]
TwelveAndMore == [k \in Codes |-> IF k = k1 THEN 12 ELSE 13]

Ask(channel, binding, claimed) ==
  [channel |-> channel, binding |-> binding, claimed |-> claimed]

SmsRequests == {Ask("sms", "derive", None), Ask("sms", "claim", m1)}
VoiceRequests ==
  {Ask("call", "claim", m1), Ask("dtmf", "derive", None), Ask("sms", "derive", None)}
MixedRequests == {Ask("sms", "derive", None), Ask("call", "claim", m1), Ask("dtmf", "claim", m1)}
ClaimRequests == {Ask("sms", "claim", m1)}

Signal(device, line, type, sender, body) ==
  [device |-> device, line |-> line, type |-> type, sender |-> sender, body |-> body]

SmsSignals ==
  {Signal(d1, l1, "sms", m1, k1), Signal(d1, l1, "sms", m2, k1)}
VoiceSignals ==
  {Signal(d1, l1, "call", m1, Blank), Signal(d1, l1, "call", m2, Blank),
   Signal(d1, l1, "call", m2, k1), Signal(d1, l1, "call", m2, k2),
   Signal(d1, l1, "mms", m1, NoCode)}
FairRequests == {Ask("sms", "claim", m1), Ask("call", "claim", m1)}
FairSignals == {Signal(d1, l1, "sms", m1, k1), Signal(d1, l1, "call", m1, Blank)}
FaultSignals ==
  {Signal(d1, l1, "sms", m1, k1), Signal(d1, l1, "sms", m2, k1), Signal(d2, l1, "sms", m1, k1)}

Symmetry == Permutations(Calls) \cup Permutations(Reports)
=============================================================================
