---------------------------- MODULE MCSandboxes ----------------------------
(* Instances of Sandboxes for TLC. *)
EXTENDS SandboxRequirements, TLC

CONSTANTS r1, r2, r3, e1, e2, k1, k2, i1, i2, p1, p2, s1, s2

OneKey == {k1}
TwoKeys == {k1, k2}
OneImage == {i1}
TwoImages == {i1, i2}
OnePull == {p1}
TwoPulls == {p1, p2}
OneRequest == {r1}
TwoRequests == {r1, r2}
ThreeRequests == {r1, r2, r3}
OneExisting == {e1}
TwoExisting == {e1, e2}
OneSnapshot == {[id |-> s1, key |-> k1, image |-> i1]}
TwoSnapshots == OneSnapshot \cup {[id |-> s2, key |-> k1, image |-> i1]}

(* Requests are alike, and so are the pull objects. *)
Symmetry == Permutations(Requests) \cup Permutations(Pulls)
=============================================================================
