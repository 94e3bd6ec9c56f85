---------------------------- MODULE MCTCPClient ----------------------------
(* TCPClient for TLC: two tasks share the connection to one node.          *)
EXTENDS TCPClient

CONSTANTS t1, t2, a1

MCClient == Task \X Address
=============================================================================
