--------------------------- MODULE MCTerminalHub ---------------------------
(* Instances of TerminalHub for TLC. *)
EXTENDS TerminalHub, TLC

CONSTANTS w1, w2, w3

OneWindow == {w1}
TwoWindows == {w1, w2}
ThreeWindows == {w1, w2, w3}

Symmetry == Permutations(Windows)
=============================================================================
