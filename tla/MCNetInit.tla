----------------------------- MODULE MCNetInit -----------------------------
(* NetInit for TLC: every configuration of three nodes, with and without a *)
(* port.                                                                   *)
EXTENDS NetInit

MCNode == 1..3
MCPort == {0, 1}
=============================================================================
