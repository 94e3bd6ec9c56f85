------------------------- MODULE CycleBufferProofs -------------------------
(***************************************************************************)
(* Proofs about CycleBuffer for every capacity, every bound and every set  *)
(* of byte values.  IInv is the inductive invariant: none of its parts is  *)
(* inductive alone, because a copy section relies on what an earlier       *)
(* section checked (ChecksStillHold) and on w_pos_ being where r_pos_ and  *)
(* remain_space_ say (PositionsAgree).                                     *)
(***************************************************************************)
EXTENDS CycleBuffer, SequenceTheorems, TLAPS

IInv ==
  /\ TypeOK
  /\ PositionsAgree
  /\ ChecksStillHold
  /\ UnreadIsWritten

-----------------------------------------------------------------------------
(* Arithmetic and sequences.                                               *)

(* The remainder by n_ of a position inside the ring is the position.      *)
LEMMA ModBelow == \A x \in Nat, m \in Nat \ {0} : x < m => x % m = x
  OBVIOUS

(* The position one past the end wraps to 0.                               *)
LEMMA ModSelf == \A m \in Nat \ {0} : m % m = 0
  OBVIOUS

(* realloc's n_ * (length / n_ + 2) is at least n_ + length,               *)
(* and more than n_.                                                       *)
LEMMA GrowthSuffices ==
  ASSUME NEW n \in Nat \ {0}, NEW len \in Nat
  PROVE  /\ n * ((len \div n) + 2) \in Nat
         /\ n * ((len \div n) + 2) >= n + len
         /\ n * ((len \div n) + 2) > n
<1>1. len \div n \in Nat /\ n * (len \div n) <= len /\ len < n * (len \div n) + n
  OBVIOUS
<1>2. n * ((len \div n) + 2) = n * (len \div n) + n + n /\ n * (len \div n) \in Nat
  BY <1>1
<1> QED
  BY <1>1, <1>2

(* An argument of write is a sequence of at most MaxLen bytes.             *)
LEMMA DataIsSeq ==
  ASSUME NEW d \in Data
  PROVE  /\ d \in Seq(Byte)
         /\ Len(d) \in 0..MaxLen
         /\ DOMAIN d = 1..Len(d)
         /\ \A i \in 1..Len(d) : d[i] \in Byte
  BY SizeAssumption DEF Data

(* The converse, for functions over an initial segment.                    *)
LEMMA SegmentIsData ==
  ASSUME NEW k \in 0..MaxLen, NEW f \in [1..k -> Byte]
  PROVE  f \in Data
  BY SizeAssumption DEF Data

(* The empty sequence: what the caller's buffer holds before any read.     *)
LEMMA EmptyIsData == << >> \in Data
<1>1. << >> \in [1..0 -> Byte]
  OBVIOUS
<1>2. 0 \in 0..MaxLen
  BY SizeAssumption
<1> QED BY <1>1, <1>2, SegmentIsData, Zenon

(* Store is memcpy: it changes the bytes pos .. pos+|d|-1 and no others.   *)
LEMMA StoreType ==
  ASSUME n_ \in Nat,
         NEW buf \in [0..(n_ - 1) -> Byte \cup {Junk}],
         NEW pos \in Nat, NEW d \in Seq(Byte), pos + Len(d) <= n_
  PROVE  /\ Store(buf, pos, d) \in [0..(n_ - 1) -> Byte \cup {Junk}]
         /\ \A i \in 0..(n_ - 1) :
              Store(buf, pos, d)[i] =
                IF i >= pos /\ i < pos + Len(d) THEN d[i - pos + 1] ELSE buf[i]
  BY DEF Store

(* The bytes a copy section hands out are the first len unread ones.       *)
LEMMA GetBytesIs ==
  ASSUME IInv, NEW len \in 0..size
  PROVE  /\ (size > 0 \/ r_pos_ < w_pos_) =>
               GetBytes(len) = [i \in 1..len |-> buffer_[Slot(i)]]
         /\ [i \in 1..len |-> buffer_[Slot(i)]] \in [1..len -> Byte]
<1> USE DEF size
<1>0. /\ n_ \in Nat \ {0} /\ r_pos_ \in 0..(n_ - 1) /\ w_pos_ \in 0..(n_ - 1)
      /\ remain_space_ \in 0..n_
      /\ buffer_ \in [0..(n_ - 1) -> Byte \cup {Junk}]
      /\ PositionsAgree /\ UnreadIsWritten
      /\ len \in Nat /\ len <= n_ - remain_space_
  BY DEF IInv, TypeOK
<1>1. \A i \in 1..len : Slot(i) \in 0..(n_ - 1) /\ buffer_[Slot(i)] \in Byte
  <2> TAKE i \in 1..len
  <2>1. i \in 1..(n_ - remain_space_)
    BY <1>0
  <2>2. Slot(i) \in 0..(n_ - 1)
    BY <1>0, <2>1 DEF Slot
  <2> QED
    BY <1>0, <2>1, <2>2 DEF UnreadIsWritten
<1>2. [i \in 1..len |-> buffer_[Slot(i)]] \in [1..len -> Byte]
  BY <1>1
<1>3. ASSUME size > 0 \/ r_pos_ < w_pos_
      PROVE  GetBytes(len) = [i \in 1..len |-> buffer_[Slot(i)]]
  <2> DEFINE first_n == n_ - r_pos_
  <2>1. CASE r_pos_ >= w_pos_ /\ size > 0 /\ r_pos_ > n_ - len
    <3> DEFINE a == Fetch(buffer_, r_pos_, first_n)
               b == Fetch(buffer_, 0, len - first_n)
    <3>1. first_n \in Nat /\ len - first_n \in Nat
      BY <1>0, <2>1
    <3>2. a \in [1..first_n -> Byte \cup {Junk}] /\ b \in [1..(len - first_n) -> Byte \cup {Junk}]
      BY <1>0, <3>1 DEF Fetch
    <3>3. a \in Seq(Byte \cup {Junk}) /\ b \in Seq(Byte \cup {Junk}) /\ Len(a) = first_n /\ Len(b) = len - first_n
      BY <1>0, <3>1, <3>2, SMTT(20)
    <3>4. a \o b \in [1..len -> Byte \cup {Junk}]
      <4> HIDE DEF a, b, first_n
      <4>1. a \o b \in Seq(Byte \cup {Junk}) /\ Len(a \o b) = len
        BY <1>0, <3>1, <3>3
      <4> QED
        BY <4>1, LenProperties
    <3>5. \A i \in 1..len : (a \o b)[i] = buffer_[Slot(i)]
      BY <1>0, <3>1, <3>3 DEF Fetch, Slot
    <3>6. a \o b = [i \in 1..len |-> buffer_[Slot(i)]]
      BY <3>4, <3>5
    <3> QED
      BY <3>6, <2>1 DEF GetBytes
  <2>2. CASE ~(r_pos_ >= w_pos_ /\ size > 0 /\ r_pos_ > n_ - len)
    <3>1. \A i \in 1..len : Slot(i) = r_pos_ + i - 1
      BY <1>0, <2>2, <1>3 DEF Slot, PositionsAgree
    <3> QED
      BY <3>1, <2>2 DEF GetBytes, Fetch
  <2> QED
    BY <2>1, <2>2
<1> QED
  BY <1>2, <1>3

(* What IInv says of the ring, in the form the arithmetic needs.           *)
LEMMA RingFacts ==
  ASSUME IInv
  PROVE  /\ n_ \in Nat \ {0} /\ r_pos_ \in 0..(n_ - 1) /\ w_pos_ \in 0..(n_ - 1)
         /\ remain_space_ \in 0..n_ /\ size \in 0..n_
         /\ buffer_ \in [0..(n_ - 1) -> Byte \cup {Junk}]
         /\ w_pos_ = IF r_pos_ + size < n_ THEN r_pos_ + size
                                           ELSE r_pos_ + size - n_
         /\ \A i \in 1..size : Slot(i) \in 0..(n_ - 1) /\ buffer_[Slot(i)] \in Byte
<1>1. /\ n_ \in Nat \ {0} /\ r_pos_ \in 0..(n_ - 1) /\ w_pos_ \in 0..(n_ - 1)
      /\ remain_space_ \in 0..n_
      /\ buffer_ \in [0..(n_ - 1) -> Byte \cup {Junk}]
  BY DEF IInv, TypeOK
<1>2. size \in 0..n_
  BY <1>1 DEF size
<1>3. \A i \in 1..size : Slot(i) \in 0..(n_ - 1)
  <2> HIDE DEF size
  <2> QED BY <1>1, <1>2 DEF Slot
<1> QED
  BY <1>1, <1>2, <1>3 DEF IInv, PositionsAgree, UnreadIsWritten

(* The same without sets, for the steps that are arithmetic only.          *)
LEMMA RingArith ==
  ASSUME IInv
  PROVE  /\ n_ \in Nat /\ n_ > 0 /\ r_pos_ \in Nat /\ r_pos_ < n_
         /\ w_pos_ \in Nat /\ w_pos_ < n_
         /\ remain_space_ \in Nat /\ size \in Nat /\ size + remain_space_ = n_
         /\ (r_pos_ + size < n_ => w_pos_ = r_pos_ + size)
         /\ (r_pos_ + size >= n_ => w_pos_ = r_pos_ + size - n_)
<1>1. size + remain_space_ = n_
  BY RingFacts DEF size
<1> QED BY <1>1, RingFacts

(* Growing lays the unread bytes out from index 0, in order.               *)
LEMMA GrowKeeps ==
  ASSUME IInv, NEW len \in Nat, Grow(len)
  PROVE  /\ n_' \in Nat \ {0} /\ n_' >= n_ + len
         /\ r_pos_' = 0 /\ w_pos_' = size /\ size < n_'
         /\ remain_space_' \in 0..n_' /\ remain_space_' >= len
         /\ size' = size
         /\ buffer_' \in [0..(n_' - 1) -> Byte \cup {Junk}]
         /\ \A i \in 1..size : buffer_'[i - 1] = buffer_[Slot(i)]
<1> DEFINE m == NewSize(len)
<1>1. m \in Nat \ {0} /\ m >= n_ + len /\ m > n_
  <2>1. m = n_ * ((len \div n_) + 2)
    BY DEF NewSize
  <2>2. n_ \in Nat \ {0}
    BY RingFacts
  <2>3. /\ n_ * ((len \div n_) + 2) \in Nat
        /\ n_ * ((len \div n_) + 2) >= n_ + len
        /\ n_ * ((len \div n_) + 2) > n_
    BY <2>2, GrowthSuffices, Zenon
  <2> HIDE DEF m
  <2> QED
    BY <2>1, <2>2, <2>3
<1>2. n_' = m /\ remain_space_' = m - size /\ r_pos_' = 0 /\ w_pos_' = size
      /\ buffer_' = Unwrapped(m)
  BY DEF Grow
<1> HIDE DEF m
<1>3. remain_space_ < n_ + 1 /\ size' = size
  BY RingFacts, <1>1, <1>2, SMTT(20) DEF size
<1>4. remain_space_' \in 0..n_' /\ remain_space_' >= len
  BY RingFacts, <1>1, <1>2
<1>5. CASE size = 0
  <2>1. Unwrapped(m) = [i \in 0..(m - 1) |-> Junk]
    BY <1>5, <1>1 DEF Unwrapped
  <2>2. size < m
    BY <1>5, <1>1
  <2> QED
    BY <2>1, <2>2, <1>1, <1>2, <1>3, <1>4, <1>5
<1>6. CASE size > 0
  <2> DEFINE first_n == n_ - r_pos_
  <2>1. \A i \in 0..(m - 1) :
           Unwrapped(m)[i] = IF i >= size THEN Junk ELSE buffer_[Slot(i + 1)]
    <3> TAKE i \in 0..(m - 1)
    <3>1. CASE i >= size
      BY <3>1 DEF Unwrapped
    <3>2. CASE i < size
      <4>1. CASE w_pos_ > r_pos_
        <5>1. Slot(i + 1) = r_pos_ + i
          <6> HIDE DEF size
          <6> QED BY <4>1, <3>2, RingFacts DEF Slot
        <5> QED
          <6> HIDE DEF size
          <6> QED BY <5>1, <4>1, <3>2, RingFacts DEF Unwrapped
      <4>2. CASE ~(w_pos_ > r_pos_)
        <5>1. CASE i < first_n
          <6>1. Slot(i + 1) = r_pos_ + i
            BY <5>1, RingFacts DEF Slot
          <6> QED
            BY <6>1, <5>1, <3>2, RingFacts DEF Unwrapped
        <5>2. CASE ~(i < first_n)
          <6>1. Slot(i + 1) = i - first_n
            BY <5>2, RingFacts DEF Slot
          <6> QED
            BY <6>1, <5>2, <4>2, <3>2, RingFacts DEF Unwrapped
        <5> QED BY <5>1, <5>2
      <4> QED BY <4>1, <4>2
    <3> QED BY <3>1, <3>2, RingFacts
  <2>2. \A i \in 0..(m - 1) : Unwrapped(m)[i] \in Byte \cup {Junk}
    <3> TAKE i \in 0..(m - 1)
    <3>1. i >= size \/ i + 1 \in 1..size
      BY RingFacts
    <3> QED BY <3>1, <2>1, RingFacts
  <2>3. Unwrapped(m) \in [0..(m - 1) -> Byte \cup {Junk}]
    <3> DEFINE g == Unwrapped(m)
    <3>1. g = [i \in 0..(m - 1) |-> g[i]]
      BY DEF Unwrapped
    <3> HIDE DEF g
    <3> QED BY <3>1, <2>2 DEF g
  <2>4. size < m
    BY <1>1, RingFacts
  <2>5. \A i \in 1..size : buffer_'[i - 1] = buffer_[Slot(i)]
    <3> TAKE i \in 1..size
    <3>1. i - 1 \in 0..(m - 1) /\ i - 1 < size /\ (i - 1) + 1 = i
      BY RingFacts, <2>4, <1>1
    <3> QED BY <3>1, <2>1, <1>2, RingFacts
  <2> QED
    BY <2>3, <2>4, <2>5, <1>1, <1>2, <1>3, <1>4
<1> QED
  BY <1>5, <1>6, RingFacts

(* The copy section of write appends d after the unread bytes and touches  *)
(* none of them, in each of its three layouts.                             *)
LEMMA PutKeeps ==
  ASSUME IInv, NEW d \in Data, Len(d) <= remain_space_, PutBytes(d)
  PROVE  /\ w_pos_' \in 0..(n_ - 1)
         /\ w_pos_' = IF r_pos_ + size + Len(d) < n_ THEN r_pos_ + size + Len(d)
                                                     ELSE r_pos_ + size + Len(d) - n_
         /\ buffer_' \in [0..(n_ - 1) -> Byte \cup {Junk}]
         /\ \A i \in 1..(size + Len(d)) :
              buffer_'[Slot(i)] = IF i <= size THEN buffer_[Slot(i)] ELSE d[i - size]
<1> DEFINE len == Len(d)
           first_n == n_ - w_pos_
<1>0. /\ n_ \in Nat /\ n_ > 0 /\ r_pos_ \in Nat /\ r_pos_ < n_
      /\ w_pos_ \in Nat /\ w_pos_ < n_
      /\ remain_space_ \in Nat /\ size \in Nat /\ size + remain_space_ = n_
      /\ (r_pos_ + size < n_ => w_pos_ = r_pos_ + size)
      /\ (r_pos_ + size >= n_ => w_pos_ = r_pos_ + size - n_)
  BY RingArith
<1>b. buffer_ \in [0..(n_ - 1) -> Byte \cup {Junk}]
  BY RingFacts
<1>1. d \in Seq(Byte) /\ len \in Nat /\ DOMAIN d = 1..len /\ len <= remain_space_
      /\ len = Len(d)
  BY DataIsSeq, SizeAssumption
<1> HIDE DEF len
<1>2. \A i \in 1..(size + len) : Slot(i) \in 0..(n_ - 1)
  BY <1>0, <1>1 DEF Slot
<1>3. CASE /\ w_pos_ >= r_pos_ /\ remain_space_ > 0 /\ w_pos_ <= n_ - len
           /\ buffer_' = Store(buffer_, w_pos_, d)
           /\ w_pos_' = (w_pos_ + len) % n_
  <2>1. /\ buffer_' \in [0..(n_ - 1) -> Byte \cup {Junk}]
        /\ \A i \in 0..(n_ - 1) :
             buffer_'[i] = IF i >= w_pos_ /\ i < w_pos_ + len THEN d[i - w_pos_ + 1]
                                                              ELSE buffer_[i]
    <3>1. buffer_' = Store(buffer_, w_pos_, d) /\ w_pos_ + Len(d) <= n_
      BY <1>0, <1>1, <1>3
    <3> QED BY <3>1, <1>0, <1>1, <1>b, StoreType
  <2>2. w_pos_ = r_pos_ + size
    BY <1>1, <1>3, <1>0
  <2>3. w_pos_' = IF w_pos_ + len < n_ THEN w_pos_ + len ELSE 0
    <3>1. w_pos_ + len \in Nat /\ w_pos_ + len <= n_ /\ n_ \in Nat \ {0}
      BY <1>1, <1>3, <1>0
    <3> QED BY <3>1, <1>3, ModBelow, ModSelf
  <2>4. ASSUME NEW i \in 1..(size + len)
        PROVE  buffer_'[Slot(i)] = IF i <= size THEN buffer_[Slot(i)] ELSE d[i - size]
    <3>1. Slot(i) = r_pos_ + i - 1
      BY <1>1, <1>3, <2>2, <1>0 DEF Slot
    <3> HIDE DEF len
    <3> QED BY <3>1, <2>1, <2>2, <1>1, <1>2, <1>0
  <2> QED BY <2>1, <2>2, <2>3, <2>4, <1>1, <1>3, <1>0 DEF len
<1>4. CASE /\ w_pos_ >= r_pos_ /\ remain_space_ > 0 /\ w_pos_ > n_ - len
           /\ buffer_' = Store(Store(buffer_, w_pos_, SubSeq(d, 1, first_n)),
                               0, SubSeq(d, first_n + 1, len))
           /\ w_pos_' = len - first_n
  <2> DEFINE a == SubSeq(d, 1, first_n)
             b == SubSeq(d, first_n + 1, len)
             mid == Store(buffer_, w_pos_, a)
  <2>0. w_pos_ = r_pos_ + size /\ first_n \in 1..len
    BY <1>1, <1>4, <1>0
  <2>1. /\ a \in Seq(Byte) /\ Len(a) = first_n /\ \A j \in 1..first_n : a[j] = d[j]
        /\ b \in Seq(Byte) /\ Len(b) = len - first_n
        /\ \A j \in 1..(len - first_n) : b[j] = d[j + first_n]
    BY <2>0, <1>1, SMTT(20)
  <2> HIDE DEF a, b
  <2>2. /\ mid \in [0..(n_ - 1) -> Byte \cup {Junk}]
        /\ \A i \in 0..(n_ - 1) :
             mid[i] = IF i >= w_pos_ /\ i < w_pos_ + first_n THEN a[i - w_pos_ + 1]
                                                              ELSE buffer_[i]
    BY <2>0, <2>1, <1>0, <1>b, StoreType, SMTT(20)
  <2> HIDE DEF mid
  <2>3. len - first_n < r_pos_ \/ len - first_n = r_pos_
    BY <2>0, <1>0, <1>1
  <2>4. buffer_' = Store(mid, 0, b)
    BY <1>4 DEF mid, a, b
  <2>5. /\ buffer_' \in [0..(n_ - 1) -> Byte \cup {Junk}]
        /\ \A i \in 0..(n_ - 1) :
             buffer_'[i] = IF i < len - first_n THEN b[i + 1] ELSE mid[i]
    <3>1. 0 + Len(b) <= n_ /\ Len(b) \in Nat
      BY <2>0, <2>1, <2>3, <1>0, <1>1, SMTT(20)
    <3> HIDE DEF first_n, len
    <3>2. /\ buffer_' \in [0..(n_ - 1) -> Byte \cup {Junk}]
          /\ \A i \in 0..(n_ - 1) :
               buffer_'[i] = IF i >= 0 /\ i < 0 + Len(b) THEN b[i - 0 + 1] ELSE mid[i]
      <4>1. 0 \in Nat /\ b \in Seq(Byte) /\ n_ \in Nat
        BY <2>1, <1>0
      <4> QED BY <4>1, <3>1, <2>2, <2>4, StoreType, Zenon
    <3> QED BY <3>1, <3>2, <2>1, <1>0
  <2>6. ASSUME NEW i \in 1..(size + len)
        PROVE  buffer_'[Slot(i)] = IF i <= size THEN buffer_[Slot(i)] ELSE d[i - size]
    <3>1. CASE r_pos_ + i - 1 < n_
      <4>1. Slot(i) = r_pos_ + i - 1 /\ Slot(i) \in 0..(n_ - 1)
        BY <3>1, <1>2 DEF Slot
      <4>2. ~(Slot(i) < len - first_n)
        BY <4>1, <2>3, <2>0, <1>0, <1>1
      <4>3. buffer_'[Slot(i)] = mid[Slot(i)]
        BY <4>1, <4>2, <2>5
      <4>4. CASE i <= size
        <5>1. ~(Slot(i) >= w_pos_)
          BY <4>1, <4>4, <2>0, <1>0
        <5>2. mid[Slot(i)] = buffer_[Slot(i)]
          BY <5>1, <4>1, <2>2
        <5> QED BY <5>2, <4>3, <4>4
      <4>5. CASE i > size
        <5>1. Slot(i) - w_pos_ + 1 = i - size /\ i - size \in 1..first_n
          BY <4>1, <4>5, <3>1, <2>0, <1>0, <1>1
        <5>2. Slot(i) >= w_pos_ /\ Slot(i) < w_pos_ + first_n /\ ~(i <= size)
          BY <4>1, <4>5, <3>1, <2>0, <1>0, <1>1
        <5>3. mid[Slot(i)] = a[Slot(i) - w_pos_ + 1]
          BY <5>2, <4>1, <2>2
        <5>4. a[i - size] = d[i - size]
          BY <5>1, <2>1
        <5> QED BY <5>1, <5>2, <5>3, <5>4, <4>3
      <4> QED BY <4>4, <4>5, <1>0, <1>1
    <3>2. CASE ~(r_pos_ + i - 1 < n_)
      <4>1. Slot(i) = r_pos_ + i - 1 - n_ /\ Slot(i) \in 0..(n_ - 1)
        BY <3>2, <1>2 DEF Slot
      <4>2. /\ i > size /\ Slot(i) < len - first_n
            /\ Slot(i) + 1 \in 1..(len - first_n)
            /\ Slot(i) + 1 + first_n = i - size
        BY <4>1, <3>2, <2>0, <1>0, <1>1
      <4>3. buffer_'[Slot(i)] = b[Slot(i) + 1]
        BY <4>1, <4>2, <2>5
      <4>4. b[Slot(i) + 1] = d[Slot(i) + 1 + first_n]
        BY <4>2, <2>1
      <4> QED BY <4>2, <4>3, <4>4, <1>0, <1>1
    <3> QED BY <3>1, <3>2
  <2>7. w_pos_' = r_pos_ + size + len - n_ /\ w_pos_' \in 0..(n_ - 1)
        /\ ~(r_pos_ + size + len < n_)
    BY <2>0, <2>3, <1>1, <1>4, <1>0
  <2> QED BY <2>5, <2>6, <2>7 DEF len
<1>5. CASE /\ w_pos_ < r_pos_
           /\ buffer_' = Store(buffer_, w_pos_, d)
           /\ w_pos_' = w_pos_ + len
  <2>0. w_pos_ = r_pos_ + size - n_ /\ w_pos_ + len <= r_pos_
    BY <1>1, <1>5, <1>0
  <2>1. /\ buffer_' \in [0..(n_ - 1) -> Byte \cup {Junk}]
        /\ \A i \in 0..(n_ - 1) :
             buffer_'[i] = IF i >= w_pos_ /\ i < w_pos_ + len THEN d[i - w_pos_ + 1]
                                                              ELSE buffer_[i]
    BY <2>0, <1>1, <1>5, <1>0, <1>b, StoreType
  <2>2. ASSUME NEW i \in 1..(size + len)
        PROVE  buffer_'[Slot(i)] = IF i <= size THEN buffer_[Slot(i)] ELSE d[i - size]
    <3>1. CASE i <= size
      <4>1. ~(Slot(i) >= w_pos_ /\ Slot(i) < w_pos_ + len)
        BY <3>1, <2>0, <1>0, <1>1 DEF Slot
      <4> QED BY <4>1, <3>1, <2>1, <1>2
    <3>2. CASE i > size
      <4>1. Slot(i) = r_pos_ + i - 1 - n_
        BY <3>2, <2>0, <1>0, <1>1 DEF Slot
      <4>2. /\ Slot(i) >= w_pos_ /\ Slot(i) < w_pos_ + len
            /\ Slot(i) - w_pos_ + 1 = i - size
        BY <4>1, <3>2, <2>0, <1>0, <1>1
      <4> QED BY <4>2, <3>2, <2>1, <1>2, <1>0, <1>1
    <3> QED BY <3>1, <3>2, <1>0, <1>1
  <2> QED BY <2>0, <2>1, <2>2, <1>1, <1>5, <1>0
<1>6. CASE w_pos_ >= r_pos_ /\ remain_space_ = 0 /\ UNCHANGED <<buffer_, w_pos_>>
  <2>1. len = 0
    BY <1>6, <1>1
  <2>2. \A i \in 1..(size + len) : i <= size
    BY <2>1, <1>0, <1>1
  <2> QED BY <2>1, <2>2, <1>6, <1>0, <1>1, <1>b DEF len
<1> QED
  BY <1>3, <1>4, <1>5, <1>6 DEF PutBytes, len

(* read() leaves r_pos_ len bytes further on the ring.                     *)
LEMMA NextReadPosIs ==
  ASSUME IInv, NEW len \in 0..size
  PROVE  /\ (size > 0 \/ r_pos_ < w_pos_) =>
              NextReadPos(len) = IF r_pos_ + len < n_ THEN r_pos_ + len
                                                      ELSE r_pos_ + len - n_
         /\ ~(size > 0 \/ r_pos_ < w_pos_) => len = 0
<1>0. /\ n_ \in Nat /\ n_ > 0 /\ r_pos_ \in Nat /\ r_pos_ < n_
      /\ w_pos_ \in Nat /\ w_pos_ < n_
      /\ size \in Nat /\ size <= n_ /\ len \in Nat /\ len <= size
      /\ (r_pos_ + size < n_ => w_pos_ = r_pos_ + size)
      /\ (r_pos_ + size >= n_ => w_pos_ = r_pos_ + size - n_)
  BY RingFacts
<1>1. CASE r_pos_ >= w_pos_ /\ size > 0 /\ r_pos_ <= n_ - len
  <2>1. (r_pos_ + len) % n_ = IF r_pos_ + len < n_ THEN r_pos_ + len ELSE 0
    <3>1. r_pos_ + len \in Nat /\ n_ \in Nat \ {0} /\ r_pos_ + len <= n_
      BY <1>0, <1>1
    <3> QED BY <3>1, ModBelow, ModSelf
  <2> QED BY <2>1, <1>0, <1>1 DEF NextReadPos
<1>2. CASE r_pos_ >= w_pos_ /\ size > 0 /\ ~(r_pos_ <= n_ - len)
  BY <1>0, <1>2 DEF NextReadPos
<1>3. CASE ~(r_pos_ >= w_pos_ /\ size > 0)
  BY <1>0, <1>3 DEF NextReadPos
<1> QED
  BY <1>1, <1>2, <1>3

-----------------------------------------------------------------------------
(* One lemma per action: it preserves IInv.                                *)

(* reset() and the constructor leave an empty ring.                        *)
LEMMA InitInv == Init => IInv
<1> SUFFICES ASSUME Init PROVE IInv
  OBVIOUS
<1>1. size = 0
  BY SizeAssumption DEF Init, size
<1> QED
  BY <1>1, EmptyIsData, SizeAssumption
  DEF Init, IInv, TypeOK, PositionsAgree, ChecksStillHold, UnreadIsWritten

(* The first section of write() leaves room for its argument.              *)
LEMMA WriteReallocInv ==
  ASSUME IInv, NEW d \in Data, WriteRealloc(d)
  PROVE  IInv'
<1>0. Len(d) \in Nat
  BY DataIsSeq, SizeAssumption
<1>1. CASE remain_space_ >= Len(d) /\ UNCHANGED ring
  <2>1. PositionsAgree' /\ UnreadIsWritten'
    BY <1>1 DEF IInv, PositionsAgree, UnreadIsWritten, Slot, size, ring
  <2>2. TypeOK' /\ ChecksStillHold'
    BY <1>1 DEF IInv, TypeOK, ChecksStillHold, size, ring, reader, WriteRealloc
  <2> QED BY <2>1, <2>2 DEF IInv
<1>2. CASE remain_space_ < Len(d) /\ Grow(Len(d))
  <2>0. /\ n_' \in Nat \ {0} /\ n_' >= n_ + Len(d)
        /\ r_pos_' = 0 /\ w_pos_' = size /\ size < n_' /\ size \in Nat
        /\ remain_space_' \in 0..n_' /\ remain_space_' >= Len(d)
        /\ size' = size
        /\ buffer_' \in [0..(n_' - 1) -> Byte \cup {Junk}]
        /\ \A i \in 1..size : buffer_'[i - 1] = buffer_[Slot(i)]
    BY <1>0, <1>2, GrowKeeps, RingFacts
  <2>1. TypeOK'
    <3>1. r_pos_' \in 0..(n_' - 1) /\ w_pos_' \in 0..(n_' - 1)
      BY <2>0
    <3>2. wpc' = "wait" /\ wdata' \in Data /\ UNCHANGED reader
      BY DEF WriteRealloc
    <3> QED BY <2>0, <3>1, <3>2 DEF IInv, TypeOK, reader
  <2>2. PositionsAgree'
    BY <2>0 DEF PositionsAgree
  <2>3. ChecksStillHold'
    BY <2>0 DEF IInv, ChecksStillHold, WriteRealloc, reader
  <2>4. UnreadIsWritten'
    <3>1. \A i \in 1..size : Slot(i)' = i - 1
      <4>1. r_pos_' = 0 /\ size < n_' /\ size \in Nat /\ n_' \in Nat
        BY <2>0
      <4> TAKE i \in 1..size
      <4>2. Slot(i)' = IF r_pos_' + i - 1 < n_' THEN r_pos_' + i - 1
                                                ELSE r_pos_' + i - 1 - n_'
        BY DEF Slot
      <4>3. r_pos_' + i - 1 = i - 1 /\ r_pos_' + i - 1 < n_'
        BY <4>1
      <4> QED BY <4>2, <4>3, Zenon
    <3>2. \A i \in 1..size' : buffer_'[Slot(i)'] \in Byte
      BY <3>1, <2>0, RingFacts
    <3> QED BY <3>2 DEF UnreadIsWritten
  <2> QED BY <2>1, <2>2, <2>3, <2>4 DEF IInv
<1> QED
  BY <1>1, <1>2 DEF WriteRealloc, realloc

(* Where an advance by l ends in a ring of n.                              *)
LEMMA EndShift ==
  ASSUME NEW n \in Int, NEW r \in Int, NEW s \in Int, NEW l \in Int, NEW w, NEW e,
         w = IF r + s + l < n THEN r + s + l ELSE r + s + l - n,
         e = s + l
  PROVE  w = IF r + e < n THEN r + e ELSE r + e - n
OBVIOUS

(* The copy section of write() appends inside the room it has.             *)
LEMMA WriteCopyInv ==
  ASSUME IInv, WriteCopy
  PROVE  IInv'
<1>0. /\ wdata \in Data /\ Len(wdata) \in Nat /\ Len(wdata) <= remain_space_
      /\ PutBytes(wdata)
  <2>1. wdata \in Data
    BY DEF IInv, TypeOK
  <2>2. Len(wdata) \in Nat
    BY <2>1, DataIsSeq, SizeAssumption
  <2>3. remain_space_ >= Len(wdata)
    BY DEF IInv, ChecksStillHold, WriteCopy
  <2> QED BY <2>1, <2>2, <2>3, RingFacts DEF WriteCopy
<1>1. /\ w_pos_' \in 0..(n_ - 1)
      /\ w_pos_' = IF r_pos_ + size + Len(wdata) < n_ THEN r_pos_ + size + Len(wdata)
                                         ELSE r_pos_ + size + Len(wdata) - n_
      /\ buffer_' \in [0..(n_ - 1) -> Byte \cup {Junk}]
      /\ \A i \in 1..(size + Len(wdata)) :
           buffer_'[Slot(i)] = IF i <= size THEN buffer_[Slot(i)] ELSE wdata[i - size]
  BY <1>0, PutKeeps
<1>2. /\ n_' = n_ /\ r_pos_' = r_pos_ /\ remain_space_' = remain_space_ - Len(wdata)
      /\ wpc' = "idle" /\ wdata' = << >> /\ UNCHANGED reader
  BY DEF WriteCopy
<1>3. size' = size + Len(wdata)
  BY <1>0, <1>2, RingFacts DEF size
<1>4. TypeOK'
  <2>1. remain_space_' \in 0..n_'
    BY <1>0, <1>2, RingFacts
  <2> QED BY <1>1, <1>2, <2>1, EmptyIsData DEF IInv, TypeOK, reader
<1>5. PositionsAgree'
  <2>1. w_pos_' = IF r_pos_ + size + Len(wdata) < n_ THEN r_pos_ + size + Len(wdata)
                                     ELSE r_pos_ + size + Len(wdata) - n_
    BY <1>1
  <2>2. n_ \in Int /\ r_pos_ \in Int /\ size \in Int /\ Len(wdata) \in Int
    BY <1>0, RingArith
  <2>3. w_pos_' = IF r_pos_ + size' < n_ THEN r_pos_ + size' ELSE r_pos_ + size' - n_
    BY ONLY <2>1, <2>2, <1>3, EndShift
  <2> QED BY <2>3, <1>2, Zenon DEF PositionsAgree
<1>6. ChecksStillHold'
  BY <1>0, <1>2, <1>3, RingFacts DEF IInv, TypeOK, ChecksStillHold, reader
<1>7. UnreadIsWritten'
  <2>1. \A i \in 1..(size + Len(wdata)) : buffer_'[Slot(i)] \in Byte
    <3> TAKE i \in 1..(size + Len(wdata))
    <3>1. CASE i <= size
      BY <3>1, <1>0, <1>1, RingFacts
    <3>2. CASE i > size
      <4>1. i - size \in 1..Len(wdata) /\ ~(i <= size)
        BY <3>2, <1>0, RingFacts
      <4> QED BY <4>1, <1>0, <1>1, DataIsSeq
    <3> QED BY <3>1, <3>2, <1>0, RingFacts
  <2>2. \A i : Slot(i)' = Slot(i)
    BY <1>2 DEF Slot
  <2> QED BY <2>1, <2>2, <1>3 DEF UnreadIsWritten
<1> QED
  BY <1>4, <1>5, <1>6, <1>7 DEF IInv

(* The copy section of read() removes bytes that were there.               *)
LEMMA ReadCopyInv ==
  ASSUME IInv, ReadCopy
  PROVE  IInv'
<1>0. rlen \in 0..size /\ rlen \in 0..MaxLen /\ rlen \in Nat
  <2>1. rlen \in 0..MaxLen /\ size >= rlen
    BY DEF IInv, TypeOK, ChecksStillHold, ReadCopy
  <2> QED BY <2>1, RingFacts, SizeAssumption
<1>1. /\ n_' = n_ /\ w_pos_' = w_pos_ /\ buffer_' = buffer_ /\ UNCHANGED writer
      /\ rpc' = "idle" /\ rlen' = 0 /\ rop' = rop
  BY DEF ReadCopy
<1>2. /\ r_pos_' = IF r_pos_ + rlen < n_ THEN r_pos_ + rlen ELSE r_pos_ + rlen - n_
      /\ remain_space_' = remain_space_ + rlen
      /\ got' \in Data
  <2>1. CASE size > 0 \/ r_pos_ < w_pos_
    <3>1. /\ got' = GetBytes(rlen) /\ r_pos_' = NextReadPos(rlen)
          /\ remain_space_' = remain_space_ + rlen
      BY <2>1, RingFacts DEF ReadCopy
    <3>2. GetBytes(rlen) \in [1..rlen -> Byte]
      BY <2>1, <1>0, GetBytesIs
    <3> QED BY <3>1, <3>2, <2>1, <1>0, NextReadPosIs, SegmentIsData
  <2>2. CASE ~(size > 0 \/ r_pos_ < w_pos_)
    <3>1. rlen = 0
      BY <2>2, <1>0, NextReadPosIs
    <3>2. got' = << >> /\ r_pos_' = r_pos_ /\ remain_space_' = remain_space_
      BY <2>2, RingFacts DEF ReadCopy
    <3> QED BY <3>1, <3>2, EmptyIsData, RingFacts
  <2> QED BY <2>1, <2>2
<1>3. size' = size - rlen
  BY <1>0, <1>1, <1>2, RingFacts DEF size
<1>4. TypeOK'
  <2>1. r_pos_' \in 0..(n_ - 1) /\ remain_space_' \in 0..n_
    BY <1>0, <1>2, RingArith
  <2> QED BY <2>1, <1>1, <1>2, SizeAssumption DEF IInv, TypeOK, writer
<1>5. PositionsAgree'
  BY <1>0, <1>1, <1>2, <1>3, RingArith DEF PositionsAgree
<1>6. ChecksStillHold'
  <2>1. \A k \in Int : remain_space_ >= k => remain_space_ + rlen >= k
    BY <1>0, RingFacts
  <2>2. Len(wdata) \in Int
    BY DataIsSeq, SizeAssumption DEF IInv, TypeOK
  <2> QED BY <2>1, <2>2, <1>1, <1>2 DEF IInv, ChecksStillHold, writer
<1>7. UnreadIsWritten'
  <2>1. \A i \in 1..(size - rlen) : Slot(i)' = Slot(i + rlen) /\ i + rlen \in 1..size
    BY <1>0, <1>1, <1>2, RingArith DEF Slot
  <2>2. \A i \in 1..(size - rlen) : buffer_[Slot(i + rlen)] \in Byte
    BY <2>1, RingFacts
  <2>3. \A i \in 1..size' : buffer_'[Slot(i)'] \in Byte
    BY <2>1, <2>2, <1>1, <1>3
  <2> QED BY <2>3 DEF UnreadIsWritten
<1> QED
  BY <1>4, <1>5, <1>6, <1>7 DEF IInv

(* peek() copies bytes out and changes nothing else.                       *)
LEMMA PeekCopyInv ==
  ASSUME IInv, PeekCopy
  PROVE  IInv'
<1>0. rlen \in 0..size /\ rlen \in 0..MaxLen
  <2>1. rlen \in 0..MaxLen /\ size >= rlen
    BY DEF IInv, TypeOK, ChecksStillHold, PeekCopy
  <2> QED BY <2>1, RingFacts, SizeAssumption
<1>1. UNCHANGED ring /\ UNCHANGED writer /\ rpc' = "idle" /\ rlen' = 0 /\ rop' = rop
  BY DEF PeekCopy
<1>2. got' \in Data
  <2>1. CASE size > 0 \/ r_pos_ < w_pos_
    <3>1. got' = GetBytes(rlen)
      BY <2>1, RingFacts DEF PeekCopy
    <3>2. GetBytes(rlen) \in [1..rlen -> Byte]
      BY <2>1, <1>0, GetBytesIs
    <3> QED BY <3>1, <3>2, <1>0, SegmentIsData
  <2>2. CASE ~(size > 0 \/ r_pos_ < w_pos_)
    BY <2>2, EmptyIsData DEF PeekCopy
  <2> QED BY <2>1, <2>2
<1>3. TypeOK'
  BY <1>1, <1>2, SizeAssumption DEF IInv, TypeOK, ring, writer
<1>4. PositionsAgree' /\ UnreadIsWritten'
  BY <1>1 DEF IInv, PositionsAgree, UnreadIsWritten, Slot, size, ring
<1>5. ChecksStillHold'
  BY <1>1 DEF IInv, ChecksStillHold, ring, writer
<1> QED
  BY <1>3, <1>4, <1>5 DEF IInv

(* The sections that only wait, the call of a read, and a stutter.         *)
LEMMA WaitInv ==
  ASSUME IInv,
         \/ WriteWait
         \/ \E op \in {"read", "peek"}, len \in 0..MaxLen : ReadCall(op, len)
         \/ ReadWait
         \/ UNCHANGED vars
  PROVE  IInv'
<1>1. UNCHANGED ring
  BY DEF WriteWait, ReadCall, ReadWait, vars
<1>2. PositionsAgree' /\ UnreadIsWritten'
  BY <1>1 DEF IInv, PositionsAgree, UnreadIsWritten, Slot, size, ring
<1>3. TypeOK'
  BY <1>1 DEF IInv, TypeOK, WriteWait, ReadCall, ReadWait, vars, ring, writer, reader
<1>4. ChecksStillHold'
  BY <1>1 DEF IInv, TypeOK, ChecksStillHold, WriteWait, ReadCall, ReadWait, vars,
              ring, writer, reader, size
<1> QED
  BY <1>2, <1>3, <1>4 DEF IInv

(* reset() empties the ring whatever it held.                              *)
LEMMA ResetInv ==
  ASSUME IInv, Reset
  PROVE  IInv'
<1>1. size' = 0 /\ n_' = n_ /\ n_ \in Nat \ {0}
  BY RingFacts DEF Reset, size
<1>2. TypeOK'
  BY RingFacts DEF IInv, TypeOK, Reset, writer, reader
<1>3. PositionsAgree' /\ UnreadIsWritten' /\ ChecksStillHold'
  BY <1>1 DEF Reset, PositionsAgree, UnreadIsWritten, ChecksStillHold, writer, reader
<1> QED
  BY <1>2, <1>3 DEF IInv

(* IInv is inductive.                                                      *)
LEMMA NextInv == IInv /\ [Next]_vars => IInv'
<1> SUFFICES ASSUME IInv, [Next]_vars PROVE IInv'
  OBVIOUS
<1>1. ASSUME NEW d \in Data, WriteRealloc(d) PROVE IInv'
  BY <1>1, WriteReallocInv
<1>2. CASE WriteCopy
  BY <1>2, WriteCopyInv
<1>3. CASE ReadCopy
  BY <1>3, ReadCopyInv
<1>4. CASE PeekCopy
  BY <1>4, PeekCopyInv
<1>5. CASE Reset
  BY <1>5, ResetInv
<1>6. CASE \/ WriteWait
           \/ \E op \in {"read", "peek"}, len \in 0..MaxLen : ReadCall(op, len)
           \/ ReadWait
           \/ UNCHANGED vars
  BY <1>6, WaitInv
<1> QED
  BY <1>1, <1>2, <1>3, <1>4, <1>5, <1>6 DEF Next

(* Every reachable state of a cycle_buffer satisfies the invariant, for    *)
(* every initial capacity, however reads, writes and growth interleave.    *)
THEOREM SpecInv == Spec => []IInv
  BY InitInv, NextInv, PTL DEF Spec

(* The fields keep their types: the positions stay inside the allocated    *)
(* block after every section of write, read, peek, realloc and reset.      *)
THEOREM TypeCorrect == Spec => []TypeOK
<1>1. IInv => TypeOK
  BY DEF IInv
<1> QED BY <1>1, SpecInv, PTL

(* r_pos_, w_pos_ and remain_space_ never disagree about how much is       *)
(* unread.                                                                 *)
THEOREM PositionsCorrect == Spec => []PositionsAgree
<1>1. IInv => PositionsAgree
  BY DEF IInv
<1> QED BY <1>1, SpecInv, PTL

(* Neither the room a write checked for nor the bytes a read waited for    *)
(* can be gone when mtx_ is taken again for the copy; the branch "never    *)
(* enter here. can not write" is unreachable.                              *)
THEOREM ChecksCorrect == Spec => []ChecksStillHold
<1>1. IInv => ChecksStillHold
  BY DEF IInv
<1> QED BY <1>1, SpecInv, PTL

(* No read or peek can hand out uninitialised memory.                      *)
THEOREM ReadsAreInitialised == Spec => []UnreadIsWritten
<1>1. IInv => UnreadIsWritten
  BY DEF IInv
<1> QED BY <1>1, SpecInv, PTL
-----------------------------------------------------------------------------
(* The refinement of ByteQueue: its queue is Contents.                     *)

(* Contents is a sequence of bytes, as long as size().                     *)
ContentsOK ==
  /\ Contents \in Seq(Byte) /\ Len(Contents) = size /\ size \in Nat
  /\ \A i \in 1..size : Contents[i] = buffer_[Slot(i)]

(* It is so in every state of the invariant.                               *)
LEMMA ContentsIs == IInv => ContentsOK
<1> SUFFICES ASSUME IInv PROVE ContentsOK
  OBVIOUS
<1>1. size \in Nat /\ \A i \in 1..size : buffer_[Slot(i)] \in Byte
  BY RingFacts
<1>2. Contents \in [1..size -> Byte]
  BY <1>1 DEF Contents
<1>3. Contents \in Seq(Byte) /\ Len(Contents) = size
  <2> HIDE DEF Contents
  <2> QED BY <1>1, <1>2
<1> QED
  BY <1>1, <1>3 DEF Contents, ContentsOK

(* Two sequences with the same bytes at the same places are equal.         *)
LEMMA SameBytes ==
  ASSUME NEW s \in Seq(Byte), NEW t \in Seq(Byte), Len(s) = Len(t),
         \A i \in 1..Len(s) : s[i] = t[i]
  PROVE  s = t
  BY SeqEqual

(* Growth moves the bytes and keeps the queue.                             *)
LEMMA WriteReallocRefines ==
  ASSUME IInv, NEW d \in Data, WriteRealloc(d)
  PROVE  UNCHANGED <<Contents, got>>
<1>0. Len(d) \in Nat /\ got' = got
  BY DataIsSeq, SizeAssumption DEF WriteRealloc, reader
<1>1. CASE UNCHANGED ring
  BY <1>0, <1>1 DEF Contents, Slot, size, ring
<1>2. CASE Grow(Len(d))
  <2>0. /\ n_' \in Nat /\ r_pos_' = 0 /\ size < n_' /\ size \in Nat
        /\ size' = size
        /\ \A i \in 1..size : buffer_'[i - 1] = buffer_[Slot(i)]
    BY <1>0, <1>2, GrowKeeps, RingFacts
  <2>1. \A i \in 1..size : Slot(i)' = i - 1
    <3> TAKE i \in 1..size
    <3>1. Slot(i)' = IF r_pos_' + i - 1 < n_' THEN r_pos_' + i - 1
                                              ELSE r_pos_' + i - 1 - n_'
      BY DEF Slot
    <3>2. r_pos_' + i - 1 = i - 1 /\ r_pos_' + i - 1 < n_'
      BY <2>0
    <3> QED BY <3>1, <3>2, Zenon
  <2>2. Contents' = [i \in 1..size' |-> buffer_'[Slot(i)']]
    BY DEF Contents
  <2>3. Contents' = Contents
    BY <2>0, <2>1, <2>2 DEF Contents
  <2> QED BY <2>3, <1>0
<1> QED
  BY <1>1, <1>2 DEF WriteRealloc, realloc

(* The copy section of write() is the abstract Put.                        *)
LEMMA WriteCopyRefines ==
  ASSUME IInv, WriteCopy
  PROVE  BQ!Put(wdata) /\ wdata \in Data
<1>0. /\ wdata \in Data /\ wdata \in Seq(Byte) /\ Len(wdata) \in Nat
      /\ Len(wdata) <= remain_space_ /\ PutBytes(wdata)
  <2>1. wdata \in Data
    BY DEF IInv, TypeOK
  <2>2. wdata \in Seq(Byte) /\ Len(wdata) \in Nat
    BY <2>1, DataIsSeq, SizeAssumption
  <2>3. remain_space_ >= Len(wdata)
    BY DEF IInv, ChecksStillHold, WriteCopy
  <2> QED BY <2>1, <2>2, <2>3, RingFacts DEF WriteCopy
<1>1. \A i \in 1..(size + Len(wdata)) :
        buffer_'[Slot(i)] = IF i <= size THEN buffer_[Slot(i)] ELSE wdata[i - size]
  BY <1>0, PutKeeps
<1>2. /\ n_' = n_ /\ r_pos_' = r_pos_ /\ remain_space_' = remain_space_ - Len(wdata)
      /\ got' = got
  BY DEF WriteCopy, reader
<1>3. size' = size + Len(wdata) /\ \A i : Slot(i)' = Slot(i)
  <2>1. size' = size + Len(wdata)
    BY <1>0, <1>2, RingFacts DEF size
  <2> QED BY <2>1, <1>2 DEF Slot
<1>4. IInv'
  BY WriteCopyInv
<1>5. /\ Contents' \in Seq(Byte) /\ Len(Contents') = size + Len(wdata)
      /\ \A i \in 1..(size + Len(wdata)) : Contents'[i] = buffer_'[Slot(i)]
  <2>1. /\ Contents' \in Seq(Byte) /\ Len(Contents') = size'
        /\ \A i \in 1..size' : Contents'[i] = buffer_'[Slot(i)']
    <3>1. ContentsOK'
      BY <1>4, ContentsIs, PTL
    <3> QED BY <3>1 DEF ContentsOK
  <2> QED BY <2>1, <1>3
<1>6. Contents' = Contents \o wdata
  <2> DEFINE t == Contents \o wdata
             c == Contents
  <2>1. c \in Seq(Byte) /\ Len(c) = size /\ size \in Nat
        /\ \A i \in 1..size : c[i] = buffer_[Slot(i)]
    BY ContentsIs DEF ContentsOK
  <2> HIDE DEF c
  <2>2. c \o wdata \in Seq(Byte) /\ Len(c \o wdata) = size + Len(wdata)
    BY <2>1, <1>0
  <2>3. \A i \in 1..(size + Len(wdata)) : Contents'[i] = (c \o wdata)[i]
    <3> TAKE i \in 1..(size + Len(wdata))
    <3>1. (c \o wdata)[i] = IF i <= size THEN c[i] ELSE wdata[i - size]
      BY <2>1, <1>0
    <3>2. i <= size => i \in 1..size
      BY <2>1, <1>0
    <3> QED BY <3>1, <3>2, <2>1, <1>1, <1>5
  <2>4. Contents' = c \o wdata
    BY <2>2, <2>3, <1>5, SameBytes
  <2> QED BY <2>4 DEF c
<1> QED
  BY <1>0, <1>2, <1>6 DEF BQ!Put

(* The copy section of read() is the abstract Take.                        *)
LEMMA ReadCopyRefines ==
  ASSUME IInv, ReadCopy
  PROVE  BQ!Take(rlen) /\ rlen \in 0..MaxLen
<1>0. rlen \in 0..size /\ rlen \in 0..MaxLen /\ rlen \in Nat /\ rlen <= size
  <2>1. rlen \in 0..MaxLen /\ size >= rlen
    BY DEF IInv, TypeOK, ChecksStillHold, ReadCopy
  <2> QED BY <2>1, RingFacts, SizeAssumption
<1>1. n_' = n_ /\ buffer_' = buffer_
  BY DEF ReadCopy
<1>2. /\ r_pos_' = IF r_pos_ + rlen < n_ THEN r_pos_ + rlen ELSE r_pos_ + rlen - n_
      /\ remain_space_' = remain_space_ + rlen
      /\ got' = [i \in 1..rlen |-> buffer_[Slot(i)]]
  <2>1. CASE size > 0 \/ r_pos_ < w_pos_
    <3>1. /\ got' = GetBytes(rlen) /\ r_pos_' = NextReadPos(rlen)
          /\ remain_space_' = remain_space_ + rlen
      BY <2>1, RingFacts DEF ReadCopy
    <3>2. GetBytes(rlen) = [i \in 1..rlen |-> buffer_[Slot(i)]]
      BY <2>1, <1>0, GetBytesIs
    <3>3. NextReadPos(rlen) = IF r_pos_ + rlen < n_ THEN r_pos_ + rlen
                                                    ELSE r_pos_ + rlen - n_
      BY <2>1, <1>0, NextReadPosIs
    <3> QED BY <3>1, <3>2, <3>3
  <2>2. CASE ~(size > 0 \/ r_pos_ < w_pos_)
    <3>1. rlen = 0
      BY <2>2, <1>0, NextReadPosIs
    <3>2. got' = << >> /\ r_pos_' = r_pos_ /\ remain_space_' = remain_space_
      BY <2>2, RingFacts DEF ReadCopy
    <3>3. << >> = [i \in 1..0 |-> buffer_[Slot(i)]]
      OBVIOUS
    <3> QED BY <3>1, <3>2, <3>3, RingFacts
  <2> QED BY <2>1, <2>2
<1>3. size' = size - rlen
  BY <1>0, <1>1, <1>2, RingFacts DEF size
<1>4. \A i \in 1..(size - rlen) : Slot(i)' = Slot(i + rlen) /\ i + rlen \in 1..size
  <2>1. r_pos_' = IF r_pos_ + rlen < n_ THEN r_pos_ + rlen ELSE r_pos_ + rlen - n_
    BY <1>2
  <2> QED BY <2>1, <1>0, <1>1, RingArith DEF Slot
<1> DEFINE c == Contents
<1>5. c \in Seq(Byte) /\ Len(c) = size /\ size \in Nat
      /\ \A i \in 1..size : c[i] = buffer_[Slot(i)]
  BY ContentsIs DEF ContentsOK
<1>6. /\ Contents' \in Seq(Byte) /\ Len(Contents') = size'
      /\ \A i \in 1..size' : Contents'[i] = buffer_'[Slot(i)']
  <2>1. IInv'
    BY ReadCopyInv
  <2>2. ContentsOK'
    BY <2>1, ContentsIs, PTL
  <2> QED BY <2>2 DEF ContentsOK
<1> HIDE DEF c
<1>7. got' = SubSeq(c, 1, rlen)
  <2>1. /\ SubSeq(c, 1, rlen) \in Seq(Byte) /\ Len(SubSeq(c, 1, rlen)) = rlen
        /\ \A i \in 1..rlen : SubSeq(c, 1, rlen)[i] = c[i] /\ i \in 1..size
    BY <1>0, <1>5
  <2>2. /\ got' \in [1..rlen -> Byte] /\ \A i \in 1..rlen : got'[i] = c[i]
    BY <2>1, <1>2, <1>5, RingFacts
  <2>3. got' \in Seq(Byte) /\ Len(got') = rlen
    BY <2>2, <1>0
  <2> QED BY <2>1, <2>2, <2>3, SameBytes
<1>8. Contents' = SubSeq(c, rlen + 1, Len(c))
  <2> DEFINE t == SubSeq(c, rlen + 1, size)
  <2>1. /\ t \in Seq(Byte) /\ Len(t) = size - rlen
        /\ \A i \in 1..(size - rlen) : t[i] = c[i + rlen]
    BY <1>0, <1>5
  <2> HIDE DEF t
  <2>2. \A i \in 1..(size - rlen) : Contents'[i] = t[i]
    BY <2>1, <1>1, <1>3, <1>4, <1>5, <1>6
  <2>3. Contents' = t
    BY <2>1, <2>2, <1>3, <1>6, SameBytes
  <2> QED BY <2>3, <1>5 DEF t
<1> QED
  BY <1>0, <1>5, <1>7, <1>8 DEF BQ!Take, c

(* The copy section of peek() is the abstract Peek.                        *)
LEMMA PeekCopyRefines ==
  ASSUME IInv, PeekCopy
  PROVE  BQ!Peek(rlen) /\ rlen \in 0..MaxLen
<1>0. rlen \in 0..size /\ rlen \in 0..MaxLen /\ rlen \in Nat /\ rlen <= size
  <2>1. rlen \in 0..MaxLen /\ size >= rlen
    BY DEF IInv, TypeOK, ChecksStillHold, PeekCopy
  <2> QED BY <2>1, RingFacts, SizeAssumption
<1>1. Contents' = Contents
  BY DEF PeekCopy, Contents, Slot, size, ring
<1>2. got' = [i \in 1..rlen |-> buffer_[Slot(i)]]
  <2>1. CASE size > 0 \/ r_pos_ < w_pos_
    <3>1. got' = GetBytes(rlen)
      BY <2>1, RingFacts DEF PeekCopy
    <3> QED BY <3>1, <2>1, <1>0, GetBytesIs
  <2>2. CASE ~(size > 0 \/ r_pos_ < w_pos_)
    <3>1. rlen = 0
      BY <2>2, <1>0, NextReadPosIs
    <3>2. got' = << >>
      BY <2>2, RingFacts DEF PeekCopy
    <3>3. << >> = [i \in 1..0 |-> buffer_[Slot(i)]]
      OBVIOUS
    <3> QED BY <3>1, <3>2, <3>3
  <2> QED BY <2>1, <2>2
<1> DEFINE c == Contents
<1>3. c \in Seq(Byte) /\ Len(c) = size /\ size \in Nat
      /\ \A i \in 1..size : c[i] = buffer_[Slot(i)]
  BY ContentsIs DEF ContentsOK
<1> HIDE DEF c
<1>4. got' = SubSeq(c, 1, rlen)
  <2>1. /\ SubSeq(c, 1, rlen) \in Seq(Byte) /\ Len(SubSeq(c, 1, rlen)) = rlen
        /\ \A i \in 1..rlen : SubSeq(c, 1, rlen)[i] = c[i] /\ i \in 1..size
    BY <1>0, <1>3
  <2>2. /\ got' \in [1..rlen -> Byte] /\ \A i \in 1..rlen : got'[i] = c[i]
    BY <2>1, <1>2, <1>3, RingFacts
  <2>3. got' \in Seq(Byte) /\ Len(got') = rlen
    BY <2>2, <1>0
  <2> QED BY <2>1, <2>2, <2>3, SameBytes
<1> QED
  BY <1>0, <1>1, <1>3, <1>4 DEF BQ!Peek, c

(* Every step of the ring is a step of the queue or changes neither the    *)
(* queue nor what was handed out.                                          *)
LEMMA StepRefines ==
  ASSUME IInv, [Next]_vars
  PROVE  [BQ!Next]_<<Contents, got>>
<1>1. ASSUME NEW d \in Data, WriteRealloc(d) PROVE UNCHANGED <<Contents, got>>
  BY <1>1, WriteReallocRefines
<1>2. CASE WriteCopy
  BY <1>2, WriteCopyRefines DEF BQ!Next, BQ!Data, Data
<1>3. CASE ReadCopy
  BY <1>3, ReadCopyRefines DEF BQ!Next
<1>4. CASE PeekCopy
  BY <1>4, PeekCopyRefines DEF BQ!Next
<1>5. CASE Reset
  <2>1. size' = 0 /\ got' = got
    BY RingFacts, <1>5 DEF Reset, size, reader
  <2>2. Contents' = << >>
    BY <2>1 DEF Contents
  <2> QED BY <2>1, <2>2 DEF BQ!Next, BQ!Clear
<1>6. CASE \/ WriteWait
           \/ \E op \in {"read", "peek"}, len \in 0..MaxLen : ReadCall(op, len)
           \/ ReadWait
           \/ UNCHANGED vars
  <2>1. UNCHANGED ring /\ got' = got
    BY <1>6 DEF WriteWait, ReadCall, ReadWait, vars, reader
  <2> QED BY <2>1 DEF Contents, Slot, size, ring
<1> QED
  BY <1>1, <1>2, <1>3, <1>4, <1>5, <1>6 DEF Next

(* A cycle_buffer is an unbounded FIFO queue of bytes, whatever its        *)
(* initial capacity: wrapping, growing and running reads against writes    *)
(* lose, duplicate and reorder nothing.                                    *)
THEOREM ImplementsByteQueue == Spec => RefinesByteQueue
<1>1. Init => BQ!Init
  <2> SUFFICES ASSUME Init PROVE BQ!Init
    OBVIOUS
  <2>1. size = 0 /\ got = << >>
    BY SizeAssumption DEF Init, size
  <2>2. Contents = << >>
    BY <2>1 DEF Contents
  <2> QED BY <2>1, <2>2 DEF BQ!Init
<1>2. IInv /\ [Next]_vars => [BQ!Next]_<<Contents, got>>
  BY StepRefines
<1> QED
  BY <1>1, <1>2, SpecInv, PTL DEF Spec, RefinesByteQueue, BQ!Spec
=============================================================================
