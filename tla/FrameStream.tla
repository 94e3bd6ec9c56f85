---------------------------- MODULE FrameStream ----------------------------
(***************************************************************************)
(* A message from Send(id, data) to the mailbox of the other node, byte by *)
(* byte.  TCPChannel::Send packs the id (MessageId), simple_buffer puts a  *)
(* header before it (simple_buffer.h), the frame goes into the send        *)
(* buffer, loop_send takes all there is and writen() hands it to the       *)
(* kernel in pieces (connection.cpp).  At the other end epoll reads pieces *)
(* of other sizes into the ring (CycleBuffer), and loop_recv cuts the ring *)
(* into frames again: can_read(), read(id, data) (cycle_buffer.cpp).       *)
(*                                                                         *)
(* Sizes are scaled down and the arithmetic is kept: a byte has Radix      *)
(* values, Nibble squared, where the code has 256 and 16; the length takes *)
(* LenW bytes where the code has 8.  The send buffer, whose ring is        *)
(* CycleBuffer's subject, is a queue here.                                 *)
(***************************************************************************)
EXTENDS CycleBuffer, MessageId, SequencesExt

CONSTANTS LenW,       \* sizeof(uint64_t)
          Scripts,    \* the sequences of messages one may send
          MayFail     \* whether a write may fail

ASSUME FrameAssumption ==
  /\ LenW \in Nat \ {0}
  /\ Byte = 0..(Radix - 1)
  /\ MayFail \in BOOLEAN
  /\ Scripts \subseteq Seq([id : Seq(Char), data : Seq(Byte)])

VARIABLES
  script,       \* the messages [id, data] to send
  sent,         \* how many of them Send() was called with
  send_buffer_, \* bytes put_into_send_buffer left for loop_send
  chunk,        \* bytes loop_send has taken and writen() not yet written
  wire,         \* bytes in the kernel
  mapbuffer_,   \* per packed id: what its mailbox has been given
  failed,       \* a writen() failed
  crashed       \* read(id, data) threw

stream == <<script, sent, send_buffer_, chunk, wire, failed>>
framevars == <<vars, stream, mapbuffer_, crashed>>

FrameInit ==
  /\ Init
  /\ script \in Scripts /\ sent = 0
  /\ send_buffer_ = << >> /\ chunk = << >> /\ wire = << >>
  /\ mapbuffer_ = << >>
  /\ failed = FALSE /\ crashed = FALSE
-----------------------------------------------------------------------------
(* simple_buffer: length, length of the id counting itself, id, data.      *)

\* what is left of n without its i lowest bytes
Shifted(n) ==
  LET q[i \in 0..LenW] == IF i = 0 THEN n ELSE q[i - 1] \div Radix
  IN  q

LittleEndian(n) == [i \in 1..LenW |-> Shifted(n)[i - 1] % Radix]

\* the number with these bytes, the lowest first
NumberOf(h) ==
  LET v[i \in 0..LenW] == IF i = 0 THEN 0 ELSE h[LenW + 1 - i] + Radix * v[i - 1]
  IN  v[LenW]

Header == LenW + 1

\* Bug: the length of the id does not count itself
simple_bufferIdLen(id, data) ==
  LittleEndian(Header + Len(id) + Len(data)) \o <<Len(id) % Radix>> \o id \o data

simple_buffer(id, data) ==
  LittleEndian(Header + Len(id) + Len(data)) \o <<(1 + Len(id)) % Radix>> \o id \o data
-----------------------------------------------------------------------------
(* The sending end.                                                        *)

Send ==
  /\ sent < Len(script)
  /\ sent' = sent + 1
  /\ LET m == script[sent'] IN
       send_buffer_' = send_buffer_ \o simple_buffer(get_binary_string(m.id), m.data)
  /\ UNCHANGED <<vars, script, chunk, wire, failed, mapbuffer_, crashed>>

LoopSend ==
  /\ chunk = << >> /\ send_buffer_ # << >>
  /\ chunk' = send_buffer_ /\ send_buffer_' = << >>
  /\ UNCHANGED <<vars, script, sent, wire, failed, mapbuffer_, crashed>>

\* one write() of writen(); EAGAIN repeats it
Write(k) ==
  /\ k <= Len(chunk)
  /\ wire' = wire \o SubSeq(chunk, 1, k)
  /\ chunk' = SubSeq(chunk, k + 1, Len(chunk))
  /\ UNCHANGED <<vars, script, sent, send_buffer_, failed, mapbuffer_, crashed>>

\* any other error, EINTR among them, ends writen(); loop_send logs it and
\* takes the next chunk
WriteFails ==
  /\ MayFail
  /\ chunk # << >>
  /\ chunk' = << >>
  /\ failed' = TRUE
  /\ UNCHANGED <<vars, script, sent, send_buffer_, wire, mapbuffer_, crashed>>
-----------------------------------------------------------------------------
(* The receiving end: epoll writes into the ring ...                       *)

HandleRead(k) ==
  /\ k <= Len(wire)
  /\ WriteRealloc(SubSeq(wire, 1, k))
  /\ wire' = SubSeq(wire, k + 1, Len(wire))
  /\ UNCHANGED <<script, sent, send_buffer_, chunk, failed, mapbuffer_, crashed>>

HandleReadWrites ==
  /\ WriteWait \/ WriteCopy
  /\ UNCHANGED <<stream, mapbuffer_, crashed>>

\* ... and loop_recv takes frames out of it

\* k bytes from r_pos_ on, in one or two copies
FromRing(k) ==
  IF r_pos_ < w_pos_ \/ n_ - r_pos_ >= k
  THEN Fetch(buffer_, r_pos_, k)
  ELSE Fetch(buffer_, r_pos_, n_ - r_pos_) \o Fetch(buffer_, 0, k - (n_ - r_pos_))

\* the number in the first LenW bytes
FrameLen == NumberOf(FromRing(LenW))

\* Bug: a byte more than the frame is waited for
can_readMore == size > Header /\ size > FrameLen

can_read == size > Header /\ size >= FrameLen

LoopRecvWakes ==
  /\ ~crashed
  /\ rpc = "idle" /\ can_read
  /\ rpc' = "copy"
  /\ UNCHANGED <<ring, writer, rop, rlen, got, stream, mapbuffer_, crashed>>

\* Bug: r_pos_ runs over the end of the ring
ConsumeStraight(len) ==
  /\ r_pos_' = r_pos_ + len
  /\ remain_space_' = remain_space_ + len

Consume(len) ==
  /\ r_pos_' = (r_pos_ + len) % n_
  /\ remain_space_' = remain_space_ + len

\* read() looks again whether the frame is whole, and does not consume one
\* without id and data.  An id length of 0 makes id.resize(-1) throw
ReadFrame ==
  LET len  == FrameLen
      some == can_read /\ len > Header
      tmp  == FromRing(len)
      len2 == tmp[Header]
      id   == SubSeq(tmp, Header + 1, LenW + len2)
      data == SubSeq(tmp, LenW + len2 + 1, len)
      old  == IF id \in DOMAIN mapbuffer_ THEN mapbuffer_[id] ELSE << >>
  IN
  /\ rpc = "copy" /\ rpc' = "idle"
  /\ \/ /\ some /\ len2 > 0 /\ LenW + len2 <= len
        /\ mapbuffer_' = [i \in DOMAIN mapbuffer_ \cup {id} |->
                            IF i = id THEN old \o data ELSE mapbuffer_[i]]
        /\ Consume(len)
        /\ UNCHANGED crashed
     \/ /\ some /\ (len2 = 0 \/ LenW + len2 > len)
        /\ crashed' = TRUE
        /\ UNCHANGED <<mapbuffer_, r_pos_, remain_space_>>
     \/ /\ ~some
        /\ UNCHANGED <<mapbuffer_, r_pos_, remain_space_, crashed>>
  /\ UNCHANGED <<n_, w_pos_, buffer_, writer, rop, rlen, got, stream>>
-----------------------------------------------------------------------------
Sender == Send \/ LoopSend \/ \E k \in 1..Len(chunk) : Write(k)

Epoll == HandleReadWrites \/ \E k \in 1..MaxLen : HandleRead(k)

LoopRecv == LoopRecvWakes \/ ReadFrame

FrameNext == Sender \/ WriteFails \/ Epoll \/ LoopRecv

FrameSpec == FrameInit /\ [][FrameNext]_framevars

(* Every thread goes on; nothing is assumed of how much one write or read  *)
(* moves.                                                                  *)
FrameFairSpec ==
  /\ FrameSpec
  /\ WF_framevars(Sender) /\ WF_framevars(Epoll) /\ WF_framevars(LoopRecv)
-----------------------------------------------------------------------------
FrameTypeOK ==
  /\ TypeOK
  /\ sent \in 0..Len(script)
  /\ \A s \in {send_buffer_, chunk, wire} : s \in Seq(Byte)
  /\ \A id \in DOMAIN mapbuffer_ : id \in Seq(Byte) /\ mapbuffer_[id] \in Seq(Byte)
  /\ failed \in BOOLEAN /\ crashed \in BOOLEAN

\* a message that the header can describe
Framable(m) ==
  /\ Shifted(Header + Len(m.id) \div 2 + Len(m.data))[LenW] = 0
  /\ 1 + (Len(m.id) \div 2) < Radix
  /\ Len(m.id) \div 2 + Len(m.data) > 0

\* how many messages come before the first one that is not so
GoodCount == Max({ n \in 0..Len(script) : \A i \in 1..n : Framable(script[i]) })

\* what is sent under the one may be read under the other: only ids that are
\* not canonical are packed into the bytes of another id
Alike(id, id2) == id = id2 \/
  /\ ~(Canonical(id) /\ Canonical(id2))
  /\ get_binary_string(id) = get_binary_string(id2)

\* the data of the first n messages that have this id, or one alike, one
\* after the other
DataOf(id, n) ==
  LET d[i \in 0..n] == IF i = 0 THEN << >>
                       ELSE IF Alike(script[i].id, id) THEN d[i - 1] \o script[i].data
                       ELSE d[i - 1]
  IN  d[n]

Mailbox(id) ==
  LET p == get_binary_string(id)
  IN  IF p \in DOMAIN mapbuffer_ THEN mapbuffer_[p] ELSE << >>

(* What a mailbox holds is what was sent under its id, whole messages in   *)
(* the order of sending, however the bytes were cut into pieces and        *)
(* wherever the ring wrapped or grew; other messages leave no byte in it,  *)
(* but those whose id, or its own, is not canonical and is packed alike.   *)
(* A message that does not fit the header may do harm only to the ones     *)
(* sent after it.                                                          *)
MailboxesExact == ~failed => \A i \in 1..GoodCount :
  LET id == script[i].id IN
  \/ \E n \in 0..sent : n <= GoodCount /\ Mailbox(id) = DataOf(id, n)
  \/ sent > GoodCount /\ IsPrefix(DataOf(id, GoodCount), Mailbox(id))

(* Every message before the first bad one arrives in full: nothing stays   *)
(* in the ring for good, unless a write failed.                            *)
GoodArrive == <>[](~failed => \A i \in 1..GoodCount :
  IsPrefix(DataOf(script[i].id, GoodCount), Mailbox(script[i].id)))

(* Without a failed write and a bad message the receiver never meets a     *)
(* header it cannot read.                                                  *)
NoCrash == crashed => failed \/ sent > GoodCount
=============================================================================
