---------------------------- MODULE MCSnapshots ----------------------------
(* Instances of Snapshots for TLC. *)
EXTENDS Snapshots, TLC

CONSTANTS r1, r2, b1, b2, f1, f2, i1, i2, i3

OneRequest == {r1}
TwoRequests == {r1, r2}
TwoBoxes == {b1, b2}
OneFile == {f1}
TwoFiles == {f1, f2}
TwoIds == {i1, i2}
ThreeIds == {i1, i2, i3}

(* Requests, containers, files and identifiers are alike. *)
Symmetry == Permutations(Requests) \cup Permutations(Boxes) \cup Permutations(Files)
               \cup Permutations(Ids)
=============================================================================
