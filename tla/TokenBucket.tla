---------------------------- MODULE TokenBucket ----------------------------
(***************************************************************************)
(* What a limiter promises, with no map, no timestamps and no sweep: every *)
(* key has a level that starts full and gains Refill units per tick up to  *)
(* full; an asker is let through exactly when a token is there, and takes  *)
(* it.  A restart fills levels again.                                      *)
(***************************************************************************)
EXTENDS Integers

CONSTANTS Keys, Askers, Unit, Refill, Full

VARIABLES
  level,     \* units left, per key
  verdict    \* what each asker was told: nothing yet, or which key it was charged to and
             \* whether it was let through

bucketVars == <<level, verdict>>

Untold == <<>>

Init ==
  /\ level = [k \in Keys |-> Full]
  /\ verdict = [a \in Askers |-> Untold]

Allow(a, k) ==
  /\ verdict[a] = Untold
  /\ level[k] >= Unit
  /\ level' = [level EXCEPT ![k] = @ - Unit]
  /\ verdict' = [verdict EXCEPT ![a] = <<k, TRUE>>]

Deny(a, k) ==
  /\ verdict[a] = Untold
  /\ level[k] < Unit
  /\ verdict' = [verdict EXCEPT ![a] = <<k, FALSE>>]
  /\ UNCHANGED level

TimePasses ==
  /\ level' = [k \in Keys |-> IF level[k] + Refill > Full THEN Full ELSE level[k] + Refill]
  /\ UNCHANGED verdict

\* The process that holds the buckets of `keys' starts anew.
Restart(keys) ==
  /\ level' = [k \in Keys |-> IF k \in keys THEN Full ELSE level[k]]
  /\ UNCHANGED verdict

Next ==
  \/ \E a \in Askers, k \in Keys : Allow(a, k) \/ Deny(a, k)
  \/ TimePasses
  \/ \E keys \in SUBSET Keys : Restart(keys)

Spec == Init /\ [][Next]_bucketVars
=============================================================================
