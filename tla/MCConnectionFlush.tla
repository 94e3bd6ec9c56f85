------------------------- MODULE MCConnectionFlush -------------------------
(* One task that starts, sends one message and flushes.                    *)
EXTENDS ConnectionFlush

One == [t \in Task |-> 1]
Zero == [t \in Task |-> 0]
NoScript == { << >> }
=============================================================================
