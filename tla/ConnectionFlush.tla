-------------------------- MODULE ConnectionFlush --------------------------
(* TCPChannel::Flush() on top of Connection.  Its body is empty unless the *)
(* library is built with USE_EMP_IO: the call changes nothing, and flushed *)
(* only remembers how much had been sent when it returned.                 *)
EXTENDS Connection

VARIABLE flushed

Flush(t) ==
  /\ caller[t] = "open"
  /\ flushed' = Len(puts)
  /\ UNCHANGED vars

FlushInit == Init /\ flushed = 0
FlushNext == \/ Next /\ UNCHANGED flushed
             \/ \E t \in Task : Flush(t)
FlushSpec == FlushInit /\ [][FlushNext]_<<vars, flushed>>

(* "flush all data to be sent" (include/io/channel.h:105): what a task put *)
(* before a Flush() that has returned is on the wire.                      *)
FlushSends == Len(out) >= flushed
=============================================================================
