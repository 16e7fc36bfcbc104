---------------------------- MODULE MCDeviceGate ----------------------------
(* Instances of DeviceGate for TLC. *)
EXTENDS DeviceGate, TLC

CONSTANTS n1, c1, c2, c3, a1, p1, p2, k1

\* One request from one address, in three copies.
ThreeCopies == c1 :> n1 @@ c2 :> n1 @@ c3 :> n1
OneSource == n1 :> a1

Symmetry == Permutations(Processes) \cup Permutations(Copies)
=============================================================================
