---------------------------- MODULE CycleBuffer ----------------------------
(***************************************************************************)
(* struct cycle_buffer (cycle_buffer.h, cycle_buffer.cpp): a ring of n_    *)
(* bytes that grows.  One thread writes and one thread reads at a time     *)
(* (Connection guards each side with a mutex of its own), but a write and  *)
(* a read run concurrently: each operation is split into the critical      *)
(* sections of mtx_ it consists of, and steps of the other side may come   *)
(* between two sections.  A byte never written since `new char[n_]` is     *)
(* Junk.                                                                   *)
(***************************************************************************)
EXTENDS Integers, Sequences

CONSTANTS Byte,     \* the values of one byte
          Junk,     \* the content of memory no one has written
          N0,       \* the capacity given to the constructor
          MaxN,     \* bound: no write that would need a larger ring
          MaxLen    \* bound on the length of one read or write

ASSUME JunkAssumption == Junk \notin Byte
ASSUME SizeAssumption ==
  /\ N0 \in Nat \ {0}
  /\ MaxN \in Nat
  /\ MaxLen \in Nat

VARIABLES n_, r_pos_, w_pos_, remain_space_, buffer_,
          wpc, wdata,       \* write(): its next section, its argument
          rpc, rop, rlen,   \* read()/peek(): next section, which one, length
          got               \* what the last read or peek copied out

ring   == <<n_, r_pos_, w_pos_, remain_space_, buffer_>>
writer == <<wpc, wdata>>
reader == <<rpc, rop, rlen, got>>
vars   == <<ring, writer, reader>>

Data == UNION { [1..k -> Byte] : k \in 0..MaxLen }

size == n_ - remain_space_

\* memcpy(buf + pos, d, |d|)
Store(buf, pos, d) ==
  [i \in DOMAIN buf |-> IF i >= pos /\ i < pos + Len(d) THEN d[i - pos + 1]
                                                         ELSE buf[i]]
\* memcpy(data, buf + pos, k)
Fetch(buf, pos, k) == [i \in 1..k |-> buf[pos + i - 1]]

Init ==
  /\ n_ = N0
  /\ r_pos_ = 0
  /\ w_pos_ = 0
  /\ remain_space_ = N0
  /\ buffer_ = [i \in 0..(N0 - 1) |-> Junk]
  /\ wpc = "idle" /\ wdata = << >>
  /\ rpc = "idle" /\ rop = "read" /\ rlen = 0 /\ got = << >>
-----------------------------------------------------------------------------
(* realloc(): at least doubles the ring and lays the bytes out from 0.     *)

\* Bug: "at least 2x" computed without the extra factor
NewSizeShort(len) == n_ * ((len \div n_) + 1)

NewSize(len) == n_ * ((len \div n_) + 2)

\* Bug: the bytes behind the wrap are forgotten
UnwrappedHead(m) ==
  [i \in 0..(m - 1) |->
     IF i < size /\ i < n_ - r_pos_ THEN buffer_[r_pos_ + i] ELSE Junk]

\* the `havesize` bytes from r_pos_ on, unwrapped into the new block
Unwrapped(m) ==
  LET first_n == n_ - r_pos_
  IN  [i \in 0..(m - 1) |->
         IF i >= size THEN Junk
         ELSE IF w_pos_ > r_pos_ \/ i < first_n THEN buffer_[r_pos_ + i]
         ELSE buffer_[i - first_n]]

\* Bug: w_pos_ is left where it was
GrowKeepW(len) ==
  LET m == NewSize(len)
  IN  /\ m <= MaxN
      /\ n_' = m
      /\ remain_space_' = m - size
      /\ r_pos_' = 0
      /\ buffer_' = Unwrapped(m)
      /\ UNCHANGED w_pos_

Grow(len) ==
  LET m == NewSize(len)
  IN  /\ m <= MaxN
      /\ n_' = m
      /\ remain_space_' = m - size
      /\ r_pos_' = 0
      /\ w_pos_' = size
      /\ buffer_' = Unwrapped(m)

realloc(len) ==
  \/ remain_space_ >= len /\ UNCHANGED ring
  \/ remain_space_ < len /\ Grow(len)
-----------------------------------------------------------------------------
(* write(data, length): three sections of mtx_.                            *)

WriteRealloc(d) ==
  /\ wpc = "idle"
  /\ realloc(Len(d))
  /\ wpc' = "wait" /\ wdata' = d
  /\ UNCHANGED reader

WriteWait ==
  /\ wpc = "wait"
  /\ remain_space_ >= Len(wdata)
  /\ wpc' = "copy"
  /\ UNCHANGED <<ring, wdata, reader>>

PutBytes(d) ==
  LET len     == Len(d)
      first_n == n_ - w_pos_
  IN  \/ /\ w_pos_ >= r_pos_ /\ remain_space_ > 0 /\ w_pos_ <= n_ - len
         /\ buffer_' = Store(buffer_, w_pos_, d)
         /\ w_pos_' = (w_pos_ + len) % n_
      \/ /\ w_pos_ >= r_pos_ /\ remain_space_ > 0 /\ w_pos_ > n_ - len
         /\ buffer_' = Store(Store(buffer_, w_pos_, SubSeq(d, 1, first_n)),
                             0, SubSeq(d, first_n + 1, len))
         /\ w_pos_' = len - first_n
      \/ /\ w_pos_ < r_pos_
         /\ buffer_' = Store(buffer_, w_pos_, d)
         /\ w_pos_' = w_pos_ + len
      \/ /\ w_pos_ >= r_pos_ /\ remain_space_ = 0     \* "buffer is full"
         /\ UNCHANGED <<buffer_, w_pos_>>

WriteCopy ==
  /\ wpc = "copy"
  /\ PutBytes(wdata)
  /\ remain_space_' = remain_space_ - Len(wdata)
  /\ wpc' = "idle" /\ wdata' = << >>
  /\ UNCHANGED <<n_, r_pos_, reader>>
-----------------------------------------------------------------------------
(* read(data, length) and peek(data, length): wait, then copy.             *)

ReadCall(op, len) ==
  /\ rpc = "idle"
  /\ rpc' = "wait" /\ rop' = op /\ rlen' = len
  /\ UNCHANGED <<ring, writer, got>>

\* Bug: the reader does not wait for the whole length
ReadWaitSome ==
  /\ rpc = "wait"
  /\ size > 0 \/ rlen = 0
  /\ rpc' = "copy"
  /\ UNCHANGED <<ring, writer, rop, rlen, got>>

ReadWait ==
  /\ rpc = "wait"
  /\ size >= rlen
  /\ rpc' = "copy"
  /\ UNCHANGED <<ring, writer, rop, rlen, got>>

\* the bytes the copy section hands out
GetBytes(len) ==
  LET first_n == n_ - r_pos_
  IN  IF r_pos_ >= w_pos_ /\ size > 0 /\ r_pos_ > n_ - len
      THEN Fetch(buffer_, r_pos_, first_n) \o Fetch(buffer_, 0, len - first_n)
      ELSE Fetch(buffer_, r_pos_, len)

\* where the copy section of read() leaves r_pos_
NextReadPos(len) ==
  IF r_pos_ >= w_pos_ /\ size > 0
  THEN IF r_pos_ <= n_ - len THEN (r_pos_ + len) % n_ ELSE len - (n_ - r_pos_)
  ELSE r_pos_ + len

ReadCopy ==
  /\ rpc = "copy" /\ rop = "read"
  /\ \/ /\ size > 0 \/ r_pos_ < w_pos_
        /\ got' = GetBytes(rlen)
        /\ r_pos_' = NextReadPos(rlen)
        /\ remain_space_' = remain_space_ + rlen
     \/ /\ size = 0 /\ r_pos_ >= w_pos_             \* buffer is empty
        /\ got' = << >>
        /\ UNCHANGED <<r_pos_, remain_space_>>
  /\ rpc' = "idle" /\ rlen' = 0
  /\ UNCHANGED <<n_, w_pos_, buffer_, writer, rop>>

PeekCopy ==
  /\ rpc = "copy" /\ rop = "peek"
  /\ \/ (size > 0 \/ r_pos_ < w_pos_) /\ got' = GetBytes(rlen)
     \/ (size = 0 /\ r_pos_ >= w_pos_) /\ got' = << >>
  /\ rpc' = "idle" /\ rlen' = 0
  /\ UNCHANGED <<ring, writer, rop>>

(* reset() takes no lock; it is modelled between operations.               *)
Reset ==
  /\ wpc = "idle" /\ rpc = "idle"
  /\ r_pos_' = 0 /\ w_pos_' = 0 /\ remain_space_' = n_
  /\ UNCHANGED <<n_, buffer_, writer, reader>>
-----------------------------------------------------------------------------
Next ==
  \/ \E d \in Data : WriteRealloc(d)
  \/ WriteWait
  \/ WriteCopy
  \/ \E op \in {"read", "peek"}, len \in 0..MaxLen : ReadCall(op, len)
  \/ ReadWait
  \/ ReadCopy
  \/ PeekCopy
  \/ Reset

Spec == Init /\ [][Next]_vars
-----------------------------------------------------------------------------
TypeOK ==
  /\ n_ \in Nat \ {0}
  /\ r_pos_ \in 0..(n_ - 1)
  /\ w_pos_ \in 0..(n_ - 1)
  /\ remain_space_ \in 0..n_
  /\ buffer_ \in [0..(n_ - 1) -> Byte \cup {Junk}]
  /\ wpc \in {"idle", "wait", "copy"} /\ wdata \in Data
  /\ rpc \in {"idle", "wait", "copy"} /\ rop \in {"read", "peek"}
  /\ rlen \in 0..MaxLen
  /\ got \in Data

\* index of the i-th unread byte
Slot(i) == IF r_pos_ + i - 1 < n_ THEN r_pos_ + i - 1 ELSE r_pos_ + i - 1 - n_

(* The three position fields describe one and the same queue: walking      *)
(* size() bytes from r_pos_ ends at w_pos_, wherever the ring wraps or was *)
(* reallocated between two sections of a read or a write.                  *)
PositionsAgree == w_pos_ = IF r_pos_ + size < n_ THEN r_pos_ + size
                                                  ELSE r_pos_ + size - n_

(* What an operation established in its first section still holds in the   *)
(* copy section, which does not check again (cycle_buffer.cpp:253, 182):   *)
(* the room a write made for itself, the bytes a read waited for.  The     *)
(* wait at cycle_buffer.cpp:244 therefore never blocks, as its message     *)
(* "never enter here. can not write" says.                                 *)
ChecksStillHold ==
  /\ wpc \in {"wait", "copy"} => remain_space_ >= Len(wdata)
  /\ rpc = "copy" => size >= rlen

(* Everything between r_pos_ and w_pos_ was written: no read hands out     *)
(* uninitialised memory, even after the ring was moved.                    *)
UnreadIsWritten == \A i \in 1..size : buffer_[Slot(i)] \in Byte

Contents == [i \in 1..size |-> buffer_[Slot(i)]]

BQ == INSTANCE ByteQueue WITH q <- Contents

(* The ring implements the unbounded FIFO queue of bytes: wrap-around,     *)
(* growth and interleaving of a reader with a writer lose, duplicate and   *)
(* reorder nothing.                                                        *)
RefinesByteQueue == BQ!Spec
=============================================================================
