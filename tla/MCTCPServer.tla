---------------------------- MODULE MCTCPServer ----------------------------
(* TCPServer for TLC.                                                      *)
EXTENDS TCPServer

CONSTANTS t1, t2, t3, c1

OneTask == {t1}
OneClient == {c1}
ExpectAll == [t \in Task |-> Client]

\* two tasks share a client; the third one, which has none, is there so that
\* two may wait for their turn
ThreeTasks == {t1, t2, t3}
ExpectSome == [t \in Task |-> IF t = t3 THEN {} ELSE Client]
=============================================================================
