---------------------------- MODULE MCImagePull ----------------------------
(* Instances of ImagePull for TLC. *)
EXTENDS ImagePull

CONSTANTS c1, c2, i1, i2, p1, p2

MCCallers == {c1, c2}
MCImages == {i1, i2}
MCPulls == {p1, p2}
=============================================================================
