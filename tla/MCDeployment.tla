---------------------------- MODULE MCDeployment ----------------------------
(* Instances of Deployment for TLC. *)
EXTENDS Deployment

CONSTANTS c1, c2, b1

OneCommand == {c1}
TwoCommands == {c1, c2}
OneSandbox == {b1}
=============================================================================
