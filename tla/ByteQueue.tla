----------------------------- MODULE ByteQueue -----------------------------
(***************************************************************************)
(* What a cycle_buffer promises its users: an unbounded FIFO queue of      *)
(* bytes.  A write appends, a read removes from the front exactly the      *)
(* number of bytes asked for, a peek returns them without removing them.   *)
(* Connection relies on this and on nothing else: buffer_, send_buffer_    *)
(* and every mailbox of mapbuffer_ are cycle_buffers.                      *)
(***************************************************************************)
EXTENDS Naturals, Sequences

CONSTANTS Byte,     \* the values of one byte
          MaxLen    \* bound on the length of one operation

VARIABLES q,        \* the bytes written and not yet read
          got       \* what the last read or peek handed to its caller

Data == UNION { [1..k -> Byte] : k \in 0..MaxLen }

Init == q = << >> /\ got = << >>

Put(d) == q' = q \o d /\ UNCHANGED got

Take(k) ==
  /\ k <= Len(q)
  /\ got' = SubSeq(q, 1, k)
  /\ q' = SubSeq(q, k + 1, Len(q))

Peek(k) ==
  /\ k <= Len(q)
  /\ got' = SubSeq(q, 1, k)
  /\ UNCHANGED q

Clear == q' = << >> /\ UNCHANGED got

Next ==
  \/ \E d \in Data : Put(d)
  \/ \E k \in 0..MaxLen : Take(k) \/ Peek(k)
  \/ Clear

Spec == Init /\ [][Next]_<<q, got>>
=============================================================================
