---------------------------- MODULE MCConnection ----------------------------
(* Two tasks share the endpoint.  The definitions below are values for the *)
(* constants of Connection; each .cfg picks the ones its question needs.   *)
EXTENDS Connection

CONSTANTS t1, t2

One == [t \in Task |-> 1]
Zero == [t \in Task |-> 0]
First == [t \in Task |-> IF t = t1 THEN 1 ELSE 0]
Twice == [t \in Task |-> IF t = t1 THEN 2 ELSE 1]

F(b, k) == [box |-> b, n |-> k]

LockScripts == { << F(Lock(t1), 1), F(Lock(t2), 1) >>, << F(Lock(t2), 1), F(Lock(t1), 1) >> }
TwoRounds   == { << F(Lock(t1), 1), F(Lock(t2), 1), F(Lock(t1), 2) >> }
OneScript   == { << F(Lock(t2), 1), F(Msg(t1), 1), F(Lock(t1), 1) >> }
=============================================================================
