------------------------- MODULE FrameStreamProofs -------------------------
(***************************************************************************)
(* Proofs about FrameStream for every script, every width of a length, a   *)
(* byte and a hex digit, every ring and every way to cut the bytes into    *)
(* pieces.  Two invariants carry them:                                     *)
(*                                                                         *)
(*   Settled   the ring's own invariant (IInv of CycleBufferProofs), the   *)
(*             types, and that the frame can_read() saw is still whole in  *)
(*             the critical section that takes it out;                     *)
(*   Delivery  as long as no write failed, what lies in the ring, with     *)
(*             epoll, in the kernel, with loop_send and in the send buffer *)
(*             is the frames d + 1 .. sent, one behind the other, and the  *)
(*             mailboxes hold the messages 1 .. d: until the first bad     *)
(*             message, behind which nothing is promised but that what was *)
(*             delivered stays.                                            *)
(*                                                                         *)
(* The model's operators are defined by recursion over 0..k.  That such a  *)
(* function exists, and what it yields, follows from the least element of  *)
(* a set of natural numbers (Least, UpTo, Recursion): with a set in the    *)
(* place of a predicate, induction needs no operator as a parameter.       *)
(***************************************************************************)
EXTENDS FrameStream, CycleBufferProofs, MessageIdProofs, WellFoundedInduction

(* A set of natural numbers has a least element.                           *)
LEMMA Least ==
  ASSUME NEW T \in SUBSET Nat, T # {}
  PROVE  \E x \in T : \A y \in T : x <= y
<1> DEFINE R == { p \in Nat \X Nat : p[1] < p[2] }
<1>1. IsWellFoundedOn(R, Nat)
  BY NatLessThanWellFounded DEF OpToRel
<1>2. \A x, y \in Nat : y < x => <<y, x>> \in R
  OBVIOUS
<1> HIDE DEF R
<1>3. PICK x \in T : \A y \in T : <<y, x>> \notin R
  BY <1>1, WFMin, Zenon
<1>4. \A y \in T : ~(y < x)
  BY <1>2, <1>3, Zenon
<1>5. \A y \in T : x <= y
  BY <1>4
<1> QED BY <1>5

(* Induction over 0..k, for a set instead of a predicate.                  *)
LEMMA UpTo ==
  ASSUME NEW k \in Nat, NEW S, 0 \in S, \A i \in 1..k : i - 1 \in S => i \in S
  PROVE  \A i \in 0..k : i \in S
<1> SUFFICES ASSUME (0..k) \ S # {} PROVE FALSE
  OBVIOUS
<1> DEFINE T == (0..k) \ S
<1>0. T \in SUBSET Nat /\ T # {}
  OBVIOUS
<1>1. PICK x \in T : \A y \in T : x <= y
  <2> HIDE DEF T
  <2> QED BY <1>0, Least
<1>2. x \in 1..k /\ x - 1 \in 0..k /\ ~(x <= x - 1)
  BY <1>1
<1>3. x - 1 \in S
  BY <1>1, <1>2
<1> QED BY <1>1, <1>2, <1>3

(* A bounded set of natural numbers that is not empty has a greatest one.  *)
LEMMA Greatest ==
  ASSUME NEW k \in Nat, NEW S \in SUBSET (0..k), S # {}
  PROVE  Max(S) \in S /\ \A y \in S : y <= Max(S)
<1> DEFINE T == { k - y : y \in S }
<1>1. T \in SUBSET Nat /\ T # {}
  <2>1. \A y \in S : k - y \in Nat
    OBVIOUS
  <2> QED BY <2>1
<1>2. PICK x \in T : \A y \in T : x <= y
  <2> HIDE DEF T
  <2> QED BY <1>1, Least
<1>3. PICK m \in S : x = k - m
  BY <1>2
<1>4. \A y \in S : m >= y
  BY <1>2, <1>3
<1>5. \E z \in S : \A y \in S : z >= y
  BY <1>4
<1>6. Max(S) \in S /\ \A y \in S : Max(S) >= y
  BY <1>5, Zenon DEF Max
<1> QED BY <1>6

\* the functions on 0..k that begin with b and go on with step
Recursive(V, b, k, step) ==
  { f \in [0..k -> V] : f[0] = b /\ \A i \in 1..k : f[i] = step[i][f[i - 1]] }

(* A function can be defined by recursion over 0..k.                       *)
LEMMA Recursion ==
  ASSUME NEW V, NEW b \in V, NEW k \in Nat, NEW step \in [1..k -> [V -> V]]
  PROVE  \E f : f \in Recursive(V, b, k, step)
<1> DEFINE Def(f, n) == f[0] = b /\ \A i \in 1..n : f[i] = step[i][f[i - 1]]
           S == { n \in 0..k : \E f \in [0..n -> V] : Def(f, n) }
<1>1. 0 \in S
  <2> DEFINE g == [i \in 0..0 |-> b]
  <2>1. g \in [0..0 -> V] /\ g[0] = b /\ 1..0 = {}
    OBVIOUS
  <2> HIDE DEF g
  <2>2. Def(g, 0)
    BY <2>1
  <2> HIDE DEF Def
  <2> QED BY <2>1, <2>2
<1>2. ASSUME NEW n \in 1..k, n - 1 \in S PROVE n \in S
  <2>1. PICK f \in [0..(n - 1) -> V] : Def(f, n - 1)
    BY <1>2
  <2>2. f[n - 1] \in V /\ step[n] \in [V -> V] /\ step[n][f[n - 1]] \in V
    OBVIOUS
  <2> DEFINE g == [i \in 0..n |-> IF i <= n - 1 THEN f[i] ELSE step[n][f[n - 1]]]
  <2>3. g \in [0..n -> V]
    BY <2>2
  <2>4. (\A i \in 0..(n - 1) : g[i] = f[i]) /\ g[n] = step[n][f[n - 1]]
    OBVIOUS
  <2> HIDE DEF g
  <2>5. g[0] = b /\ \A i \in 1..n : g[i] = step[i][g[i - 1]]
    <3>1. g[0] = b
      BY <2>1, <2>4
    <3>2. ASSUME NEW i \in 1..n PROVE g[i] = step[i][g[i - 1]]
      <4>1. i - 1 \in 0..(n - 1) /\ (i = n \/ i \in 1..(n - 1))
        OBVIOUS
      <4> QED BY <2>1, <2>4, <4>1
    <3> QED BY <3>1, <3>2
  <2>6. Def(g, n)
    BY <2>5
  <2> HIDE DEF Def
  <2> QED BY <2>3, <2>6
<1> HIDE DEF S
<1>3. k \in S
  <2>1. \A i \in 0..k : i \in S
    BY <1>1, <1>2, UpTo, Zenon
  <2> QED BY <2>1
<1> QED BY <1>3 DEF S, Recursive

(* Its values have the type that its step preserves.                       *)
LEMMA RecursionType ==
  ASSUME NEW V, NEW k \in Nat, NEW q, q = [i \in 0..k |-> q[i]], q[0] \in V,
         \A i \in 1..k : q[i - 1] \in V => q[i] \in V
  PROVE  q \in [0..k -> V]
<1> DEFINE S == { i \in 0..k : q[i] \in V }
<1>1. 0 \in 0..k /\ \A i \in 1..k : i \in 0..k
  OBVIOUS
<1>2. 0 \in S /\ \A i \in 1..k : i - 1 \in S => i \in S
  BY <1>1, Zenon
<1>3. \A i \in 0..k : i \in S
  <2> HIDE DEF S
  <2> QED BY <1>2, UpTo, Zenon
<1>4. \A i \in 0..k : q[i] \in V
  BY <1>3
<1> QED BY <1>4
-----------------------------------------------------------------------------
(* A byte has at least one value.                                          *)
LEMMA RadixType == Radix \in Nat \ {0}
<1>1. Nibble \in Nat /\ Nibble >= 1
  BY IdAssumption
<1>2. Nibble * Nibble \in Nat /\ Nibble * Nibble >= 1
  BY <1>1
<1> QED BY <1>2 DEF Radix

(* Shifted is defined: each step drops one more byte.                      *)
LEMMA ShiftedIs ==
  ASSUME NEW n \in Nat
  PROVE  /\ Shifted(n) \in [0..LenW -> Nat] /\ Shifted(n)[0] = n
         /\ \A i \in 1..LenW : Shifted(n)[i] = Shifted(n)[i - 1] \div Radix
<1> DEFINE Eq(q) == q = [i \in 0..LenW |-> IF i = 0 THEN n ELSE q[i - 1] \div Radix]
           half == [x \in Nat |-> x \div Radix]
           step == [i \in 1..LenW |-> half]
<1>0. LenW \in Nat
  BY FrameAssumption
<1>1. \A x \in Nat : x \div Radix \in Nat
  BY RadixType
<1>2. step \in [1..LenW -> [Nat -> Nat]]
  BY <1>1
<1>3. PICK f \in [0..LenW -> Nat] : f[0] = n /\ \A i \in 1..LenW : f[i] = step[i][f[i - 1]]
  <2> HIDE DEF step
  <2>1. \E f : f \in Recursive(Nat, n, LenW, step)
    BY <1>0, <1>2, Recursion, Zenon
  <2> QED BY <2>1 DEF Recursive
<1>4. \A i \in 1..LenW : f[i - 1] \in Nat /\ f[i] = f[i - 1] \div Radix
  <2> TAKE i \in 1..LenW
  <2>1. f[i - 1] \in Nat
    BY <1>0
  <2>2. step[i][f[i - 1]] = f[i - 1] \div Radix
    BY <2>1
  <2> QED BY <1>3, <2>1, <2>2
<1>5. Eq(f)
  BY <1>0, <1>3, <1>4
<1>6. Shifted(n) = CHOOSE q : Eq(q)
  BY DEF Shifted
<1> DEFINE s == Shifted(n)
<1>7. Eq(s)
  <2> HIDE DEF Eq
  <2> QED BY <1>5, <1>6, Zenon
<1> HIDE DEF s
<1>8. /\ s = [i \in 0..LenW |-> s[i]] /\ s[0] = n
      /\ \A i \in 1..LenW : s[i] = s[i - 1] \div Radix
  <2>1. \A i \in 0..LenW : s[i] = IF i = 0 THEN n ELSE s[i - 1] \div Radix
    BY <1>7, Zenon
  <2>2. s = [i \in 0..LenW |-> s[i]]
    BY <1>7, <2>1, Zenon
  <2>3. 0 \in 0..LenW /\ \A i \in 1..LenW : i \in 0..LenW /\ i # 0
    BY <1>0
  <2> QED BY <2>1, <2>2, <2>3, Zenon
<1>9. s \in [0..LenW -> Nat]
  <2>1. s[0] \in Nat /\ \A i \in 1..LenW : s[i - 1] \in Nat => s[i] \in Nat
    BY <1>1, <1>8, Zenon
  <2> QED BY <1>0, <1>8, <2>1, RecursionType, Zenon
<1> QED BY <1>8, <1>9 DEF s

(* NumberOf is defined: Horner's rule, the highest byte first.             *)
LEMMA NumberIs ==
  ASSUME NEW h \in [1..LenW -> Byte]
  PROVE  \E v \in [0..LenW -> Nat] :
           /\ v[0] = 0 /\ NumberOf(h) = v[LenW]
           /\ \A i \in 1..LenW : v[i] = h[LenW + 1 - i] + Radix * v[i - 1]
<1> DEFINE Eq(q) == q = [i \in 0..LenW |-> IF i = 0 THEN 0 ELSE h[LenW + 1 - i] + Radix * q[i - 1]]
           step == [i \in 1..LenW |-> [x \in Nat |-> h[LenW + 1 - i] + Radix * x]]
<1>0. LenW \in Nat
  BY FrameAssumption
<1>1. \A i \in 1..LenW, x \in Nat : h[LenW + 1 - i] + Radix * x \in Nat
  <2> TAKE i \in 1..LenW, x \in Nat
  <2>1. LenW + 1 - i \in 1..LenW
    BY <1>0
  <2>2. h[LenW + 1 - i] \in Nat
    BY <2>1, FrameAssumption, RadixType
  <2>3. Radix * x \in Nat
    BY RadixType
  <2> QED BY <2>2, <2>3
<1>2. step \in [1..LenW -> [Nat -> Nat]]
  BY <1>1
<1>3. PICK f \in [0..LenW -> Nat] : f[0] = 0 /\ \A i \in 1..LenW : f[i] = step[i][f[i - 1]]
  <2> HIDE DEF step
  <2>1. \E f : f \in Recursive(Nat, 0, LenW, step)
    BY <1>0, <1>2, Recursion
  <2> QED BY <2>1 DEF Recursive
<1>4. \A i \in 1..LenW : f[i - 1] \in Nat /\ f[i] = h[LenW + 1 - i] + Radix * f[i - 1]
  <2> TAKE i \in 1..LenW
  <2>1. f[i - 1] \in Nat
    BY <1>0
  <2>2. step[i][f[i - 1]] = h[LenW + 1 - i] + Radix * f[i - 1]
    BY <2>1
  <2> QED BY <1>3, <2>1, <2>2
<1>5. Eq(f)
  BY <1>0, <1>3, <1>4
<1> DEFINE v == CHOOSE q : Eq(q)
<1>6. NumberOf(h) = v[LenW]
  BY DEF NumberOf
<1>7. Eq(v)
  <2> HIDE DEF Eq
  <2> QED BY <1>5, Zenon
<1> HIDE DEF v
<1>8. /\ v = [i \in 0..LenW |-> v[i]] /\ v[0] = 0
      /\ \A i \in 1..LenW : v[i] = h[LenW + 1 - i] + Radix * v[i - 1]
  <2>1. \A i \in 0..LenW : v[i] = IF i = 0 THEN 0 ELSE h[LenW + 1 - i] + Radix * v[i - 1]
    BY <1>7, Zenon
  <2>2. v = [i \in 0..LenW |-> v[i]]
    BY <1>7, <2>1, Zenon
  <2>3. 0 \in 0..LenW /\ \A i \in 1..LenW : i \in 0..LenW /\ i # 0
    BY <1>0
  <2> QED BY <2>1, <2>2, <2>3, Zenon
<1>9. v \in [0..LenW -> Nat]
  <2>1. v[0] \in Nat
    BY <1>8
  <2>2. \A i \in 1..LenW : v[i - 1] \in Nat => v[i] \in Nat
    BY <1>1, <1>8, Zenon
  <2> QED BY <1>0, <1>8, <2>1, <2>2, RecursionType, Zenon
<1> QED BY <1>6, <1>8, <1>9

(* Dividing and putting together again.                                    *)
LEMMA DivMod ==
  ASSUME NEW x \in Nat, NEW r \in Nat \ {0}
  PROVE  (x % r) + r * (x \div r) = x /\ x % r \in 0..(r - 1)
  OBVIOUS

(* can_read() and read() find the length that simple_buffer wrote, if it   *)
(* fits the LenW bytes.                                                    *)
LEMMA LengthSurvives ==
  ASSUME NEW n \in Nat
  PROVE  /\ LittleEndian(n) \in [1..LenW -> Byte]
         /\ Shifted(n)[LenW] = 0 => NumberOf(LittleEndian(n)) = n
<1> DEFINE s == Shifted(n)
           h == LittleEndian(n)
<1>0. LenW \in Nat /\ Byte = 0..(Radix - 1) /\ Radix \in Nat \ {0}
  BY FrameAssumption, RadixType
<1>1. /\ s \in [0..LenW -> Nat] /\ s[0] = n
      /\ \A i \in 1..LenW : s[i] = s[i - 1] \div Radix
  BY ShiftedIs
<1>2. h = [i \in 1..LenW |-> s[i - 1] % Radix]
  BY DEF LittleEndian
<1> HIDE DEF s, h
<1>3. \A i \in 1..LenW : s[i - 1] \in Nat /\ h[i] = s[i - 1] % Radix /\ h[i] \in Byte
  <2> TAKE i \in 1..LenW
  <2>1. s[i - 1] \in Nat
    BY <1>0, <1>1
  <2>2. h[i] = s[i - 1] % Radix
    BY <1>2
  <2>3. s[i - 1] % Radix \in 0..(Radix - 1)
    BY <1>0, <2>1, DivMod
  <2> QED BY <1>0, <2>1, <2>2, <2>3
<1>4. h \in [1..LenW -> Byte]
  BY <1>2, <1>3
<1>5. ASSUME s[LenW] = 0 PROVE NumberOf(h) = n
  <2>1. PICK v \in [0..LenW -> Nat] :
           /\ v[0] = 0 /\ NumberOf(h) = v[LenW]
           /\ \A i \in 1..LenW : v[i] = h[LenW + 1 - i] + Radix * v[i - 1]
    BY <1>4, NumberIs
  <2> DEFINE S == { i \in 0..LenW : v[i] = s[LenW - i] }
  <2>2. 0 \in S
    BY <1>0, <1>5, <2>1
  <2>3. ASSUME NEW i \in 1..LenW, i - 1 \in S PROVE i \in S
    <3>1. /\ LenW + 1 - i \in 1..LenW /\ (LenW + 1 - i) - 1 = LenW - i
          /\ LenW - (i - 1) = LenW + 1 - i /\ i \in 0..LenW
      BY <1>0
    <3> DEFINE j == LenW + 1 - i
               x == s[j - 1]
    <3>2. x \in Nat /\ h[j] = x % Radix /\ s[j] = x \div Radix
      BY <1>1, <1>3, <3>1
    <3>3. v[i - 1] = s[j]
      BY <2>3, <3>1
    <3>4. v[i] = h[j] + Radix * v[i - 1]
      BY <2>1
    <3> HIDE DEF x
    <3>5. (x % Radix) + Radix * (x \div Radix) = x
      BY <1>0, <3>2, DivMod
    <3>6. v[i] = x
      BY <3>2, <3>3, <3>4, <3>5, Zenon
    <3> QED BY <3>1, <3>6 DEF x
  <2> HIDE DEF S
  <2>4. \A i \in 0..LenW : i \in S
    BY <1>0, <2>2, <2>3, UpTo, Zenon
  <2>5. v[LenW] = s[LenW - LenW] /\ LenW - LenW = 0
    BY <1>0, <2>4 DEF S
  <2> QED BY <1>1, <2>1, <2>5
<1> QED BY <1>4, <1>5 DEF s, h

(* A header that was read is some length.                                  *)
LEMMA NumberType ==
  ASSUME NEW h \in [1..LenW -> Byte]
  PROVE  NumberOf(h) \in Nat
<1>1. LenW \in 0..LenW
  BY FrameAssumption
<1> QED BY <1>1, NumberIs
-----------------------------------------------------------------------------
Message == [id : Seq(Char), data : Seq(Byte)]

\* the data of a mailbox after message i, if x was there before it
More(id, i, x) == IF Alike(script[i].id, id) THEN x \o script[i].data ELSE x

\* what DataOf goes through
DataSteps(id, n) ==
  { d \in [0..n -> Seq(Byte)] : d[0] = << >> /\ \A i \in 1..n : d[i] = More(id, i, d[i - 1]) }

(* DataOf is defined ...                                                   *)
LEMMA DataOfExists ==
  ASSUME script \in Seq(Message), NEW id, NEW n \in 0..Len(script)
  PROVE  \E d \in DataSteps(id, n) : DataOf(id, n) = d[n]
<1> DEFINE Eq(q) == q = [i \in 0..n |-> IF i = 0 THEN << >> ELSE More(id, i, q[i - 1])]
           step == [i \in 1..n |-> [x \in Seq(Byte) |-> More(id, i, x)]]
<1>0. n \in Nat /\ << >> \in Seq(Byte)
  OBVIOUS
<1>1. \A i \in 1..n, x \in Seq(Byte) : More(id, i, x) \in Seq(Byte)
  <2> TAKE i \in 1..n, x \in Seq(Byte)
  <2>1. script[i] \in Message
    OBVIOUS
  <2>2. script[i].data \in Seq(Byte)
    BY <2>1 DEF Message
  <2> QED BY <2>2 DEF More
<1>2. step \in [1..n -> [Seq(Byte) -> Seq(Byte)]]
  BY <1>1
<1>3. PICK f \in [0..n -> Seq(Byte)] : f[0] = << >> /\ \A i \in 1..n : f[i] = step[i][f[i - 1]]
  <2> HIDE DEF step
  <2>1. \E f : f \in Recursive(Seq(Byte), << >>, n, step)
    BY <1>0, <1>2, Recursion, Zenon
  <2> QED BY <2>1 DEF Recursive
<1>4. \A i \in 1..n : f[i] = More(id, i, f[i - 1])
  <2> TAKE i \in 1..n
  <2>1. f[i - 1] \in Seq(Byte)
    BY <1>0
  <2>2. step[i][f[i - 1]] = More(id, i, f[i - 1])
    BY <2>1
  <2> QED BY <1>3, <2>1, <2>2
<1>5. Eq(f)
  <2>1. f[0] = << >>
    BY <1>3
  <2> QED BY <1>0, <1>4, <2>1
<1> DEFINE d == CHOOSE q : Eq(q)
<1>6. DataOf(id, n) = d[n]
  BY DEF DataOf, More
<1>7. Eq(d)
  <2> HIDE DEF Eq
  <2> QED BY <1>5, Zenon
<1> HIDE DEF d
<1>8. /\ d = [i \in 0..n |-> d[i]] /\ d[0] = << >>
      /\ \A i \in 1..n : d[i] = More(id, i, d[i - 1])
  <2>1. \A i \in 0..n : d[i] = IF i = 0 THEN << >> ELSE More(id, i, d[i - 1])
    BY <1>7, Zenon
  <2>2. d = [i \in 0..n |-> d[i]]
    BY <1>7, <2>1, Zenon
  <2>3. 0 \in 0..n /\ \A i \in 1..n : i \in 0..n /\ i # 0
    BY <1>0
  <2> QED BY <2>1, <2>2, <2>3, Zenon
<1>9. d \in [0..n -> Seq(Byte)]
  <2>1. d[0] \in Seq(Byte) /\ \A i \in 1..n : d[i - 1] \in Seq(Byte) => d[i] \in Seq(Byte)
    BY <1>0, <1>1, <1>8, Zenon
  <2> QED BY <1>0, <1>8, <2>1, RecursionType, Zenon
<1>10. d \in DataSteps(id, n)
  BY <1>8, <1>9, Zenon DEF DataSteps
<1> QED BY <1>6, <1>10

(* ... starts empty, and grows by the data of each message with the id.    *)
LEMMA DataOfIs ==
  ASSUME script \in Seq(Message), NEW id
  PROVE  /\ DataOf(id, 0) = << >>
         /\ \A n \in 0..Len(script) : DataOf(id, n) \in Seq(Byte)
         /\ \A n \in 1..Len(script) : DataOf(id, n) = More(id, n, DataOf(id, n - 1))
<1>1. DataOf(id, 0) = << >>
  <2>1. 0 \in 0..Len(script)
    OBVIOUS
  <2>2. PICK d \in DataSteps(id, 0) : DataOf(id, 0) = d[0]
    BY <2>1, DataOfExists, Zenon
  <2> QED BY <2>2 DEF DataSteps
<1>2. ASSUME NEW n \in 0..Len(script) PROVE DataOf(id, n) \in Seq(Byte)
  <2>1. n \in 0..n
    OBVIOUS
  <2>2. PICK d \in DataSteps(id, n) : DataOf(id, n) = d[n]
    BY DataOfExists, Zenon
  <2> QED BY <2>1, <2>2 DEF DataSteps
<1>3. ASSUME NEW n \in 1..Len(script)
      PROVE  DataOf(id, n) = More(id, n, DataOf(id, n - 1))
  <2>0. n \in 0..Len(script) /\ n - 1 \in 0..Len(script) /\ n - 1 \in Nat /\ n \in 1..n
    OBVIOUS
  <2>1. PICK d \in DataSteps(id, n) : DataOf(id, n) = d[n]
    BY <2>0, DataOfExists, Zenon
  <2>2. PICK e \in DataSteps(id, n - 1) : DataOf(id, n - 1) = e[n - 1]
    BY <2>0, DataOfExists, Zenon
  <2>3. d[0] = e[0] /\ \A i \in 1..n : d[i] = More(id, i, d[i - 1])
    BY DEF DataSteps
  <2>4. \A i \in 1..(n - 1) : e[i] = More(id, i, e[i - 1])
    BY DEF DataSteps
  <2> DEFINE S == { i \in 0..(n - 1) : d[i] = e[i] }
  <2>5. 0 \in S
    BY <2>0, <2>3
  <2>6. \A i \in 1..(n - 1) : i - 1 \in S => i \in S
    <3> SUFFICES ASSUME NEW i \in 1..(n - 1), i - 1 \in S PROVE i \in S
      OBVIOUS
    <3>1. i \in 1..n /\ i \in 0..(n - 1) /\ d[i - 1] = e[i - 1]
      BY <2>0
    <3>2. d[i] = e[i]
      BY <2>3, <2>4, <3>1, Zenon
    <3> QED BY <3>1, <3>2
  <2> HIDE DEF S
  <2>7. \A i \in 0..(n - 1) : i \in S
    BY <2>0, <2>5, <2>6, UpTo, Zenon
  <2>8. d[n - 1] = e[n - 1]
    BY <2>0, <2>7 DEF S
  <2> QED BY <2>0, <2>1, <2>2, <2>3, <2>8, Zenon
<1> QED BY <1>1, <1>2, <1>3

(* GoodCount is defined: every message up to it is good, and the next one, *)
(* if there is one, is not.                                                *)
LEMMA GoodCountIs ==
  ASSUME script \in Seq(Message)
  PROVE  /\ GoodCount \in 0..Len(script)
         /\ \A i \in 1..GoodCount : Framable(script[i])
<1> DEFINE Good(n) == \A i \in 1..n : Framable(script[i])
           S == { n \in 0..Len(script) : Good(n) }
<1>1. S \in SUBSET (0..Len(script)) /\ Len(script) \in Nat
  OBVIOUS
<1>2. 0 \in S
  OBVIOUS
<1>3. GoodCount = Max(S)
  BY DEF GoodCount
<1> HIDE DEF S
<1>4. Max(S) \in S
  BY <1>1, <1>2, Greatest
<1> QED BY <1>3, <1>4 DEF S
-----------------------------------------------------------------------------
(* Frames.                                                                 *)

(* An id is packed into bytes, two characters to each.                     *)
LEMMA PackedType ==
  ASSUME NEW s \in Seq(Char)
  PROVE  /\ get_binary_string(s) \in Seq(Byte)
         /\ Len(get_binary_string(s)) = Len(s) \div 2
         /\ Len(s) \div 2 \in Nat
<1> DEFINE k == Len(s) \div 2
           b == get_binary_string(s)
<1>1. k \in Nat /\ \A i \in 1..k : 2 * i - 1 \in 1..Len(s) /\ 2 * i \in 1..Len(s)
  OBVIOUS
<1>2. \A c \in Char : get_hex_index(c) \in Nat
  BY IdAssumption DEF Char, get_hex_index
<1>3. \A x \in Nat, y \in Nat : CommonBits(x, y) \in Int
  BY DEF CommonBits
<1>4. \A x \in Int : x % Radix \in 0..(Radix - 1)
  BY RadixType
<1>5. ASSUME NEW c \in Char, NEW d \in Char PROVE get_char(c, d) \in Byte
  <2> DEFINE h1 == get_hex_index(c)
             h2 == get_hex_index(d)
             cb == CommonBits(h1, h2 \div Nibble)
  <2>1. h1 \in Nat /\ h2 \in Nat /\ Nibble \in Nat \ {0}
    BY <1>2, IdAssumption
  <2> HIDE DEF h1, h2
  <2>2. h2 \div Nibble \in Nat
    BY <2>1
  <2>3. cb \in Int
    BY <1>3, <2>1, <2>2
  <2> HIDE DEF cb
  <2>4. h1 * Nibble + h2 - Nibble * cb \in Int
    BY <2>1, <2>3
  <2>5. get_char(c, d) = (h1 * Nibble + h2 - Nibble * cb) % Radix
    BY DEF get_char, h1, h2, cb
  <2>6. (h1 * Nibble + h2 - Nibble * cb) % Radix \in 0..(Radix - 1)
    BY <1>4, <2>4
  <2> QED BY <2>5, <2>6, FrameAssumption
<1> HIDE DEF k
<1>6. \A i \in 1..k : get_char(s[2 * i - 1], s[2 * i]) \in Byte
  <2> TAKE i \in 1..k
  <2>1. s[2 * i - 1] \in Char /\ s[2 * i] \in Char
    BY <1>1
  <2> QED BY <1>5, <2>1
<1>7. b = [i \in 1..k |-> get_char(s[2 * i - 1], s[2 * i])]
  BY DEF get_binary_string, k
<1>8. b \in [1..k -> Byte]
  BY <1>6, <1>7
<1> HIDE DEF b
<1>9. b \in Seq(Byte) /\ Len(b) = k
  BY <1>1, <1>8
<1> QED BY <1>1, <1>9 DEF b, k

\* f is a, then x, then c, then e
CutsInto(f, a, x, c, e) ==
  /\ f \in Seq(Byte) /\ Len(f) = Len(a) + 1 + Len(c) + Len(e)
  /\ SubSeq(f, 1, Len(a)) = a
  /\ f[Len(a) + 1] = x
  /\ SubSeq(f, Len(a) + 2, Len(a) + 1 + Len(c)) = c
  /\ SubSeq(f, Len(a) + 2 + Len(c), Len(f)) = e

(* What was put together can be cut apart again.                           *)
LEMMA Pieces ==
  ASSUME NEW a \in Seq(Byte), NEW x \in Byte, NEW c \in Seq(Byte), NEW e \in Seq(Byte)
  PROVE  CutsInto(a \o <<x>> \o c \o e, a, x, c, e)
<1> DEFINE la == Len(a)
           lc == Len(c)
           le == Len(e)
           f == a \o <<x>> \o c \o e
<1>1. la \in Nat /\ lc \in Nat /\ le \in Nat
  OBVIOUS
<1>2. /\ f \in Seq(Byte) /\ Len(f) = la + 1 + lc + le
      /\ \A i \in 1..la : f[i] = a[i]
      /\ f[la + 1] = x
      /\ \A i \in 1..lc : f[la + 1 + i] = c[i]
      /\ \A i \in 1..le : f[la + 1 + lc + i] = e[i]
  OBVIOUS
<1> HIDE DEF f
<1>3. SubSeq(f, 1, la) = a
  <2>1. SubSeq(f, 1, la) \in Seq(Byte) /\ Len(SubSeq(f, 1, la)) = la
    BY <1>1, <1>2
  <2>2. \A i \in 1..la : SubSeq(f, 1, la)[i] = a[i]
    BY <1>1, <1>2
  <2> QED BY <2>1, <2>2, SameBytes
<1>4. SubSeq(f, la + 2, la + 1 + lc) = c
  <2> DEFINE t == SubSeq(f, la + 2, la + 1 + lc)
  <2>1. t \in Seq(Byte) /\ Len(t) = lc
    BY <1>1, <1>2
  <2>2. \A i \in 1..lc : t[i] = f[la + 1 + i]
    BY <1>1, <1>2
  <2> HIDE DEF t
  <2>3. t = c
    BY <1>2, <2>1, <2>2, SameBytes
  <2> QED BY <2>3 DEF t
<1>5. SubSeq(f, la + 2 + lc, Len(f)) = e
  <2> DEFINE t == SubSeq(f, la + 2 + lc, la + 1 + lc + le)
  <2>1. t \in Seq(Byte) /\ Len(t) = le
    BY <1>1, <1>2
  <2>2. \A i \in 1..le : t[i] = f[la + 1 + lc + i]
    BY <1>1, <1>2
  <2> HIDE DEF t
  <2>3. t = e
    BY <1>2, <2>1, <2>2, SameBytes
  <2> QED BY <1>2, <2>3 DEF t
<1>6. CutsInto(f, a, x, c, e)
  BY <1>2, <1>3, <1>4, <1>5 DEF CutsInto
<1> QED BY <1>6 DEF f

Frame(i) == simple_buffer(get_binary_string(script[i].id), script[i].data)

(* What simple_buffer makes of message i: bytes, with the length, the      *)
(* length of the id, the id and the data where read(id, data) looks for    *)
(* them.                                                                   *)
LEMMA FrameIs ==
  ASSUME script \in Seq(Message), NEW i \in 1..Len(script)
  PROVE  LET f == Frame(i)
             p == get_binary_string(script[i].id)
             data == script[i].data
         IN  /\ f \in Seq(Byte) /\ p \in Seq(Byte) /\ data \in Seq(Byte)
             /\ Len(p) = Len(script[i].id) \div 2
             /\ Len(f) = Header + Len(p) + Len(data)
             /\ SubSeq(f, 1, LenW) = LittleEndian(Len(f))
             /\ f[Header] = (1 + Len(p)) % Radix
             /\ SubSeq(f, Header + 1, Header + Len(p)) = p
             /\ SubSeq(f, Header + 1 + Len(p), Len(f)) = data
<1> DEFINE f == Frame(i)
           p == get_binary_string(script[i].id)
           data == script[i].data
           n == Header + Len(p) + Len(data)
           a == LittleEndian(n)
           x == (1 + Len(p)) % Radix
<1>1. script[i] \in Message
  OBVIOUS
<1>2. p \in Seq(Byte) /\ data \in Seq(Byte) /\ Len(p) = Len(script[i].id) \div 2
  BY <1>1, PackedType DEF Message
<1> HIDE DEF p, data
<1>3. n \in Nat /\ LenW \in Nat /\ Header = LenW + 1 /\ x \in Byte
  <2>1. p \in Seq(Byte) /\ data \in Seq(Byte)
    BY <1>2
  <2>2. Len(p) \in Nat /\ Len(data) \in Nat /\ 1 + Len(p) \in Nat
    BY <2>1
  <2>3. x \in 0..(Radix - 1)
    BY <2>2, RadixType, DivMod
  <2>4. LenW \in Nat /\ Byte = 0..(Radix - 1)
    BY FrameAssumption
  <2> QED BY <2>2, <2>3, <2>4 DEF Header
<1>4. f = a \o <<x>> \o p \o data
  BY DEF Frame, simple_buffer, p, data
<1> HIDE DEF n, x
<1>5. a \in [1..LenW -> Byte]
  BY <1>3, LengthSurvives
<1> HIDE DEF a, f
<1>6. a \in Seq(Byte) /\ Len(a) = LenW
  BY <1>3, <1>5
<1>7. /\ f \in Seq(Byte) /\ Len(f) = Len(a) + 1 + Len(p) + Len(data)
      /\ SubSeq(f, 1, Len(a)) = a
      /\ f[Len(a) + 1] = x
      /\ SubSeq(f, Len(a) + 2, Len(a) + 1 + Len(p)) = p
      /\ SubSeq(f, Len(a) + 2 + Len(p), Len(f)) = data
  <2>1. CutsInto(f, a, x, p, data)
    BY <1>2, <1>3, <1>4, <1>6, Pieces, Zenon
  <2> QED BY <2>1 DEF CutsInto
<1>8. /\ Len(f) = n /\ Header + 1 = Len(a) + 2 /\ Len(a) + 1 = Header
      /\ Header + 1 + Len(p) = Len(a) + 2 + Len(p)
      /\ Header + Len(p) = Len(a) + 1 + Len(p)
  BY <1>2, <1>3, <1>6, <1>7 DEF n
<1>9. SubSeq(f, 1, LenW) = LittleEndian(Len(f))
  BY <1>6, <1>7, <1>8, Zenon DEF a
<1>10. Len(f) = Header + Len(p) + Len(data)
  BY <1>8 DEF n
<1>11. f[Header] = (1 + Len(p)) % Radix
  BY <1>7, <1>8, Zenon DEF x
<1> QED BY <1>2, <1>7, <1>8, <1>9, <1>10, <1>11 DEF f, p, data
-----------------------------------------------------------------------------
(* The ring, as loop_recv sees it.                                         *)

\* f is a, then b, of lengths x and y
Joins(V, f, x, y, a, b) ==
  /\ f \in [1..(x + y) -> V]
  /\ \A i \in 1..x : f[i] = a[i]
  /\ \A i \in 1..y : f[x + i] = b[i]

(* Two blocks copied one behind the other.                                 *)
LEMMA Joined ==
  ASSUME NEW V, NEW x \in Nat, NEW y \in Nat, NEW a \in [1..x -> V], NEW b \in [1..y -> V]
  PROVE  Joins(V, a \o b, x, y, a, b)
<1>1. a \in Seq(V) /\ Len(a) = x /\ b \in Seq(V) /\ Len(b) = y
  OBVIOUS
<1>2. a \o b \in Seq(V) /\ Len(a \o b) = x + y
  BY <1>1
<1>3. a \o b \in [1..(x + y) -> V]
  BY <1>2, LenProperties
<1>4. (\A i \in 1..x : (a \o b)[i] = a[i]) /\ (\A i \in 1..y : (a \o b)[x + i] = b[i])
  BY <1>1
<1> QED BY <1>3, <1>4 DEF Joins

(* Copying from r_pos_ on, in one or two pieces, gives the oldest bytes.   *)
LEMMA FromRingIs ==
  ASSUME IInv, NEW k \in 0..size
  PROVE  FromRing(k) = SubSeq(Contents, 1, k) /\ FromRing(k) \in [1..k -> Byte]
<1> DEFINE c == Contents
           first_n == n_ - r_pos_
<1>0. /\ n_ \in Nat /\ n_ > 0 /\ r_pos_ \in Nat /\ r_pos_ < n_
      /\ w_pos_ \in Nat /\ w_pos_ < n_
      /\ remain_space_ \in Nat /\ size \in Nat /\ size + remain_space_ = n_
      /\ (r_pos_ + size < n_ => w_pos_ = r_pos_ + size)
      /\ (r_pos_ + size >= n_ => w_pos_ = r_pos_ + size - n_)
  BY RingArith
<1>1. k \in Nat /\ k <= size
  BY <1>0
<1>2. buffer_ \in [0..(n_ - 1) -> Byte \cup {Junk}]
  BY RingFacts
<1>3. /\ c \in Seq(Byte) /\ Len(c) = size
      /\ \A i \in 1..size : c[i] = buffer_[Slot(i)]
  BY ContentsIs DEF ContentsOK
<1> HIDE DEF c
<1>4. \A i \in 1..k : i \in 1..size /\ c[i] = buffer_[Slot(i)] /\ c[i] \in Byte
  BY <1>0, <1>1, <1>3
<1>5. FromRing(k) \in [1..k -> Byte] /\ \A i \in 1..k : FromRing(k)[i] = c[i]
  <2>1. CASE r_pos_ < w_pos_ \/ first_n >= k
    <3>1. \A i \in 1..k : Slot(i) = r_pos_ + i - 1
      BY <1>0, <1>1, <2>1 DEF Slot
    <3>2. FromRing(k) = [i \in 1..k |-> buffer_[r_pos_ + i - 1]]
      BY <2>1 DEF FromRing, Fetch
    <3>3. FromRing(k) = [i \in 1..k |-> c[i]]
      BY <1>4, <3>1, <3>2
    <3> QED BY <1>4, <3>3
  <2>2. CASE ~(r_pos_ < w_pos_ \/ first_n >= k)
    <3> DEFINE a == Fetch(buffer_, r_pos_, first_n)
               b == Fetch(buffer_, 0, k - first_n)
    <3>1. first_n \in Nat /\ k - first_n \in Nat /\ k - first_n <= r_pos_
      BY <1>0, <1>1, <2>2
    <3>2. /\ a \in [1..first_n -> Byte \cup {Junk}]
          /\ b \in [1..(k - first_n) -> Byte \cup {Junk}]
          /\ \A i \in 1..first_n : a[i] = buffer_[r_pos_ + i - 1]
          /\ \A i \in 1..(k - first_n) : b[i] = buffer_[i - 1]
      BY <1>0, <1>2, <3>1 DEF Fetch
    <3>3. FromRing(k) = a \o b
      BY <2>2 DEF FromRing
    <3> HIDE DEF a, b
    <3>4. first_n + (k - first_n) = k
      BY <1>0, <1>1
    <3> HIDE DEF first_n
    <3>5. /\ a \o b \in [1..k -> Byte \cup {Junk}]
          /\ \A i \in 1..first_n : (a \o b)[i] = a[i]
          /\ \A i \in 1..(k - first_n) : (a \o b)[first_n + i] = b[i]
      <4>1. Joins(Byte \cup {Junk}, a \o b, first_n, k - first_n, a, b)
        BY <3>1, <3>2, Joined, Zenon
      <4> QED BY <3>4, <4>1 DEF Joins
    <3>6. \A i \in 1..k : (a \o b)[i] = c[i]
      <4> TAKE i \in 1..k
      <4>1. CASE i <= first_n
        <5>1. i \in 1..first_n /\ Slot(i) = r_pos_ + i - 1
          BY <1>0, <3>1, <4>1 DEF Slot, first_n
        <5> QED BY <1>4, <3>2, <3>5, <5>1
      <4>2. CASE ~(i <= first_n)
        <5>1. /\ i - first_n \in 1..(k - first_n) /\ Slot(i) = (i - first_n) - 1
              /\ first_n + (i - first_n) = i
          BY <1>0, <1>1, <3>1, <4>2 DEF Slot, first_n
        <5>2. b[i - first_n] = buffer_[(i - first_n) - 1]
          BY <3>2, <5>1
        <5> QED BY <1>4, <3>5, <5>1, <5>2
      <4> QED BY <4>1, <4>2
    <3>7. a \o b \in [1..k -> Byte]
      BY <1>4, <3>5, <3>6
    <3> QED BY <3>3, <3>6, <3>7
  <2> QED BY <2>1, <2>2
<1>6. FromRing(k) \in Seq(Byte) /\ Len(FromRing(k)) = k
  BY <1>1, <1>5
<1>7. /\ SubSeq(c, 1, k) \in Seq(Byte) /\ Len(SubSeq(c, 1, k)) = k
      /\ \A i \in 1..k : SubSeq(c, 1, k)[i] = c[i]
  BY <1>0, <1>1, <1>3
<1>8. FromRing(k) = SubSeq(c, 1, k)
  BY <1>5, <1>6, <1>7, SameBytes
<1> QED BY <1>5, <1>8 DEF c

(* The length loop_recv sees depends on nothing but the oldest bytes.      *)
LEMMA FrameLenIs ==
  ASSUME IInv, size >= LenW
  PROVE  FrameLen = NumberOf(SubSeq(Contents, 1, LenW)) /\ FrameLen \in Nat
<1>1. LenW \in 0..size
  BY RingArith, FrameAssumption
<1>2. FromRing(LenW) = SubSeq(Contents, 1, LenW) /\ FromRing(LenW) \in [1..LenW -> Byte]
  BY <1>1, FromRingIs
<1> QED BY <1>2, NumberType DEF FrameLen

\* read(id, data) takes len bytes out of the ring
Consumes(len) ==
  /\ Consume(len)
  /\ rpc' = "idle"
  /\ UNCHANGED <<n_, w_pos_, buffer_, writer, rop, rlen, got>>

(* The remainder by the ring's size wraps a position once.                 *)
LEMMA WrapsOnce ==
  ASSUME NEW x \in Nat, NEW y \in Nat, NEW n \in Nat, x < n, y <= n
  PROVE  (x + y) % n = IF x + y < n THEN x + y ELSE x + y - n
<1>1. CASE x + y < n
  BY <1>1, ModBelow
<1>2. CASE ~(x + y < n)
  <2>1. x + y - n \in Nat /\ x + y - n < n /\ x + y = (x + y - n) + n
    BY <1>2
  <2>2. ((x + y - n) + n) % n = x + y - n
    BY <2>1
  <2> QED BY <1>2, <2>1, <2>2
<1> QED BY <1>1, <1>2

(* Taking a frame out removes the oldest bytes and moves no other; a       *)
(* write that is under way keeps the room it made for itself.              *)
LEMMA ConsumesInv ==
  ASSUME IInv, rlen = 0, NEW len \in 0..size, Consumes(len)
  PROVE  IInv' /\ Contents' = SubSeq(Contents, len + 1, Len(Contents))
<1>0. len \in Nat /\ len <= size
  BY RingArith
<1>1. /\ n_' = n_ /\ w_pos_' = w_pos_ /\ buffer_' = buffer_ /\ UNCHANGED writer
      /\ rpc' = "idle" /\ rlen' = 0 /\ rop' = rop /\ got' = got
  BY DEF Consumes
<1>2. /\ r_pos_' = IF r_pos_ + len < n_ THEN r_pos_ + len ELSE r_pos_ + len - n_
      /\ remain_space_' = remain_space_ + len
  <2>1. r_pos_ \in Nat /\ n_ \in Nat /\ r_pos_ < n_ /\ len <= n_
    BY <1>0, RingArith
  <2> QED BY <2>1, <1>0, WrapsOnce DEF Consumes, Consume
<1>3. size' = size - len
  BY <1>0, <1>1, <1>2, RingFacts DEF size
<1>4. TypeOK'
  <2>1. r_pos_' \in 0..(n_ - 1) /\ remain_space_' \in 0..n_
    BY <1>0, <1>2, RingArith
  <2> QED BY <2>1, <1>1, <1>2, SizeAssumption DEF IInv, TypeOK, writer
<1>5. PositionsAgree'
  BY <1>0, <1>1, <1>2, <1>3, RingArith DEF PositionsAgree
<1>6. ChecksStillHold'
  <2>1. \A k \in Int : remain_space_ >= k => remain_space_ + len >= k
    BY <1>0, RingFacts
  <2>2. Len(wdata) \in Int
    BY DataIsSeq, SizeAssumption DEF IInv, TypeOK
  <2> QED BY <2>1, <2>2, <1>1, <1>2 DEF IInv, ChecksStillHold, writer
<1>7. \A i \in 1..(size - len) : Slot(i)' = Slot(i + len) /\ i + len \in 1..size
  <2>1. r_pos_' = IF r_pos_ + len < n_ THEN r_pos_ + len ELSE r_pos_ + len - n_
    BY <1>2
  <2> QED BY <2>1, <1>0, <1>1, RingArith DEF Slot
<1>8. UnreadIsWritten'
  <2>1. \A i \in 1..(size - len) : buffer_[Slot(i + len)] \in Byte
    BY <1>7, RingFacts
  <2>2. \A i \in 1..size' : buffer_'[Slot(i)'] \in Byte
    BY <2>1, <1>1, <1>3, <1>7
  <2> QED BY <2>2 DEF UnreadIsWritten
<1>9. IInv'
  BY <1>4, <1>5, <1>6, <1>8 DEF IInv
<1> DEFINE c == Contents
           t == SubSeq(c, len + 1, size)
<1>10. c \in Seq(Byte) /\ Len(c) = size /\ size \in Nat
       /\ \A i \in 1..size : c[i] = buffer_[Slot(i)]
  BY ContentsIs DEF ContentsOK
<1>11. /\ Contents' \in Seq(Byte) /\ Len(Contents') = size'
       /\ \A i \in 1..size' : Contents'[i] = buffer_'[Slot(i)']
  <2>1. ContentsOK'
    BY <1>9, ContentsIs, PTL
  <2> QED BY <2>1 DEF ContentsOK
<1> HIDE DEF c
<1>12. /\ t \in Seq(Byte) /\ Len(t) = size - len
       /\ \A i \in 1..(size - len) : t[i] = c[i + len]
  BY <1>0, <1>10
<1> HIDE DEF t
<1>13. \A i \in 1..(size - len) : Contents'[i] = t[i]
  BY <1>1, <1>3, <1>7, <1>10, <1>11, <1>12
<1>14. Contents' = t
  BY <1>3, <1>11, <1>12, <1>13, SameBytes
<1> QED BY <1>9, <1>10, <1>14 DEF t, c
-----------------------------------------------------------------------------
(* The types, and what loop_recv relies on: the frame that can_read() saw  *)
(* is still complete in the critical section that takes it out.            *)

StreamTypeOK ==
  /\ sent \in 0..Len(script)
  /\ send_buffer_ \in Seq(Byte) /\ chunk \in Seq(Byte) /\ wire \in Seq(Byte)
  /\ \A id \in DOMAIN mapbuffer_ : id \in Seq(Byte) /\ mapbuffer_[id] \in Seq(Byte)
  /\ failed \in BOOLEAN /\ crashed \in BOOLEAN

Settled ==
  /\ IInv
  /\ rlen = 0 /\ rpc \in {"idle", "copy"}
  /\ wpc = "idle" => wdata = << >>
  /\ script \in Scripts
  /\ StreamTypeOK
  /\ rpc = "copy" => can_read

(* A script is a sequence of messages.                                     *)
LEMMA ScriptType == Settled => script \in Seq(Message)
BY FrameAssumption DEF Settled, Message

\* FrameLen is the number in the oldest bytes
HeaderOK == size >= LenW => FrameLen = NumberOf(SubSeq(Contents, 1, LenW)) /\ FrameLen \in Nat

(* Once a length is in the ring, FrameLen reads it.                        *)
LEMMA HeaderIs == IInv => HeaderOK
BY FrameLenIs DEF HeaderOK

(* Bytes that are added do not undo can_read().                            *)
LEMMA CanReadStays ==
  ASSUME IInv, IInv', NEW d \in Seq(Byte), Contents' = Contents \o d, can_read
  PROVE  can_read'
<1> DEFINE c == Contents
           e == Contents'
<1>1. HeaderOK /\ ContentsOK
  BY HeaderIs, ContentsIs
<1>2. HeaderOK' /\ ContentsOK'
  BY HeaderIs, ContentsIs, PTL
<1>3. LenW \in Nat /\ Header = LenW + 1
  BY FrameAssumption DEF Header
<1>4. /\ c \in Seq(Byte) /\ Len(c) = size /\ size \in Nat
      /\ e \in Seq(Byte) /\ Len(e) = size' /\ size' \in Nat
  BY <1>1, <1>2 DEF ContentsOK
<1>5. size > Header /\ size >= FrameLen
  BY DEF can_read
<1>6. FrameLen = NumberOf(SubSeq(c, 1, LenW)) /\ FrameLen \in Nat
  BY <1>1, <1>3, <1>4, <1>5 DEF HeaderOK
<1>7. e = c \o d
  OBVIOUS
<1> HIDE DEF c, e
<1>8. size' >= size
  BY <1>4, <1>7
<1>9. SubSeq(e, 1, LenW) = SubSeq(c, 1, LenW)
  <2>1. /\ SubSeq(e, 1, LenW) \in Seq(Byte) /\ Len(SubSeq(e, 1, LenW)) = LenW
        /\ SubSeq(c, 1, LenW) \in Seq(Byte) /\ Len(SubSeq(c, 1, LenW)) = LenW
    BY <1>3, <1>4, <1>5, <1>8
  <2>2. \A i \in 1..LenW : SubSeq(e, 1, LenW)[i] = SubSeq(c, 1, LenW)[i]
    BY <1>3, <1>4, <1>5, <1>7, <1>8
  <2> QED BY <2>1, <2>2, SameBytes
<1>10. FrameLen' = NumberOf(SubSeq(e, 1, LenW))
  BY <1>2, <1>3, <1>4, <1>5, <1>8 DEF HeaderOK, e
<1>11. FrameLen' = FrameLen
  BY <1>6, <1>9, <1>10, Zenon
<1>12. size' > Header /\ size' >= FrameLen'
  BY <1>3, <1>4, <1>5, <1>6, <1>8, <1>11
<1> QED BY <1>12 DEF can_read, Header

(* ... nor does a step that leaves the ring alone.                         *)
LEMMA CanReadSame ==
  ASSUME UNCHANGED ring
  PROVE  can_read' = can_read
BY DEF ring, can_read, FrameLen, FromRing, Fetch, NumberOf, size, Header

(* Every sequence that send() hands on consists of bytes.                  *)
LEMMA Splits ==
  ASSUME NEW s \in Seq(Byte), NEW k \in 0..Len(s)
  PROVE  /\ SubSeq(s, 1, k) \in Seq(Byte) /\ Len(SubSeq(s, 1, k)) = k
         /\ SubSeq(s, k + 1, Len(s)) \in Seq(Byte)
         /\ s = SubSeq(s, 1, k) \o SubSeq(s, k + 1, Len(s))
<1> DEFINE a == SubSeq(s, 1, k)
           b == SubSeq(s, k + 1, Len(s))
<1>1. /\ a \in Seq(Byte) /\ Len(a) = k /\ b \in Seq(Byte) /\ Len(b) = Len(s) - k
      /\ \A i \in 1..k : a[i] = s[i]
      /\ \A i \in 1..(Len(s) - k) : b[i] = s[k + i]
  OBVIOUS
<1> DEFINE n == Len(s)
           m == n - k
<1>0. n \in Nat /\ k \in Nat /\ m \in Nat /\ k + m = n
  OBVIOUS
<1> HIDE DEF a, b, n
<1>2. a \o b \in Seq(Byte) /\ Len(a \o b) = n
  <2>1. a \in Seq(Byte) /\ b \in Seq(Byte) /\ Len(a) = k /\ Len(b) = m
    BY <1>1 DEF n
  <2>2. a \o b \in Seq(Byte) /\ Len(a \o b) = Len(a) + Len(b)
    BY <2>1
  <2> QED BY <1>0, <2>1, <2>2
<1>3. ASSUME NEW i \in 1..n PROVE (a \o b)[i] = s[i]
  <2>1. CASE i \in 1..k
    BY <1>1, <2>1
  <2>2. CASE ~(i \in 1..k)
    <3>1. i - k \in 1..m /\ k + (i - k) = i /\ i \in 1..(k + m)
      BY <1>0, <2>2
    <3>2. (a \o b)[i] = b[i - k]
      BY <1>0, <1>1, <2>2, <3>1 DEF n
    <3>3. b[i - k] = s[k + (i - k)]
      BY <1>1, <3>1 DEF n
    <3> QED BY <3>1, <3>2, <3>3
  <2> QED BY <2>1, <2>2
<1>4. s = a \o b
  BY <1>2, <1>3, SameBytes DEF n
<1> QED BY <1>1, <1>4 DEF a, b

(* A read of epoll gives the ring a block it may be asked to write.        *)
LEMMA ReadIsData ==
  ASSUME StreamTypeOK, NEW k \in 1..MaxLen, k <= Len(wire)
  PROVE  SubSeq(wire, 1, k) \in Data /\ k \in 0..Len(wire)
<1>1. wire \in Seq(Byte) /\ Len(wire) \in Nat /\ k \in 0..Len(wire) /\ k \in 0..MaxLen
  BY SizeAssumption DEF StreamTypeOK
<1>2. SubSeq(wire, 1, k) \in Seq(Byte) /\ Len(SubSeq(wire, 1, k)) = k
  BY <1>1, Splits
<1>3. SubSeq(wire, 1, k) \in [1..k -> Byte]
  BY <1>2, LenProperties
<1> QED BY <1>1, <1>3, SegmentIsData

\* what read(id, data) finds in the ring
HeldFrame == FromRing(FrameLen)
HeldId    == SubSeq(HeldFrame, Header + 1, LenW + HeldFrame[Header])
HeldData  == SubSeq(HeldFrame, LenW + HeldFrame[Header] + 1, FrameLen)
HeldFits  == HeldFrame[Header] > 0 /\ LenW + HeldFrame[Header] <= FrameLen

\* what mailbox p holds
At(p) == IF p \in DOMAIN mapbuffer_ THEN mapbuffer_[p] ELSE << >>

Delivers ==
  /\ FrameLen > Header /\ HeldFits
  /\ mapbuffer_' = [i \in DOMAIN mapbuffer_ \cup {HeldId} |->
                      IF i = HeldId THEN At(HeldId) \o HeldData ELSE mapbuffer_[i]]
  /\ Consumes(FrameLen)
  /\ UNCHANGED <<stream, crashed>>

Stays ==
  /\ crashed' = crashed \/ (FrameLen > Header /\ ~HeldFits /\ crashed' = TRUE)
  /\ rpc' = "idle"
  /\ UNCHANGED <<ring, writer, rop, rlen, got, stream, mapbuffer_>>

(* read(id, data) hands one frame to its mailbox, or leaves all the bytes  *)
(* where they are.                                                         *)
LEMMA ReadFrameCases ==
  ASSUME Settled, ReadFrame
  PROVE  rpc = "copy" /\ (Delivers \/ Stays)
<1>1. FrameLen \in Nat /\ HeldFrame \in [1..FrameLen -> Byte] /\ can_read
  <2>1. IInv /\ can_read
    BY DEF Settled, ReadFrame
  <2>2. size >= LenW /\ size >= FrameLen /\ size \in Nat
    BY <2>1, RingArith, FrameAssumption DEF can_read, Header
  <2>3. FrameLen \in Nat
    BY <2>1, <2>2, FrameLenIs
  <2>4. FrameLen \in 0..size
    BY <2>2, <2>3
  <2> QED BY <2>1, <2>3, <2>4, FromRingIs DEF HeldFrame
<1>2. FrameLen > Header => HeldFrame[Header] \in Nat
  <2>1. LenW \in Nat /\ Header = LenW + 1 /\ Byte = 0..(Radix - 1) /\ Radix \in Nat
    BY FrameAssumption, RadixType DEF Header
  <2> QED BY <1>1, <2>1
<1>3. Header \in Nat /\ LenW \in Nat
  BY FrameAssumption DEF Header
<1> DEFINE len == FrameLen
           len2 == HeldFrame[Header]
<1>4. CASE len > Header /\ len2 > 0 /\ LenW + len2 <= len
  <2>1. ~(len <= Header) /\ ~(len2 = 0 \/ LenW + len2 > len)
    BY <1>1, <1>2, <1>3, <1>4
  <2> QED BY <1>1, <1>4, <2>1, Zenon
          DEF ReadFrame, Delivers, Consumes, HeldFrame, HeldId, HeldData, HeldFits, At
<1>5. CASE ~(len > Header /\ len2 > 0 /\ LenW + len2 <= len)
  <2>1. CASE len > Header
    <3>1. ~(len <= Header) /\ (len2 = 0 \/ LenW + len2 > len)
      BY <1>1, <1>2, <1>3, <1>5, <2>1
    <3> QED BY <1>1, <1>5, <2>1, <3>1, Zenon DEF ReadFrame, Stays, ring, HeldFrame, HeldFits
  <2>2. CASE ~(len > Header)
    BY <2>2, Zenon DEF ReadFrame, Stays, ring
  <2> QED BY <2>1, <2>2
<1> QED BY <1>4, <1>5

(* A frame that is handed over was whole, and it, its id and its data are  *)
(* bytes of the stream.                                                    *)
LEMMA HeldTypes ==
  ASSUME Settled, rpc = "copy"
  PROVE  /\ FrameLen \in 0..size
         /\ HeldFrame = SubSeq(Contents, 1, FrameLen)
         /\ HeldFrame \in Seq(Byte) /\ Len(HeldFrame) = FrameLen
         /\ FrameLen > Header /\ HeldFits => HeldId \in Seq(Byte) /\ HeldData \in Seq(Byte)
<1>1. IInv /\ can_read
  BY DEF Settled
<1>2. size >= LenW /\ size >= FrameLen /\ size \in Nat
  BY <1>1, RingArith, FrameAssumption DEF can_read, Header
<1>3. FrameLen \in Nat
  BY <1>1, <1>2, FrameLenIs
<1>4. FrameLen \in 0..size
  BY <1>2, <1>3
<1>5. HeldFrame = SubSeq(Contents, 1, FrameLen) /\ HeldFrame \in [1..FrameLen -> Byte]
  BY <1>1, <1>4, FromRingIs DEF HeldFrame
<1> DEFINE f == HeldFrame
           n == FrameLen
<1>6. f \in [1..n -> Byte] /\ n \in Nat
  BY <1>3, <1>5
<1>7. ASSUME n > Header, HeldFits PROVE HeldId \in Seq(Byte) /\ HeldData \in Seq(Byte)
  <2> DEFINE x == f[Header]
  <2>1. LenW \in Nat /\ Header = LenW + 1 /\ Byte = 0..(Radix - 1) /\ Radix \in Nat
    BY FrameAssumption, RadixType DEF Header
  <2> HIDE DEF f, n
  <2>2. x \in Nat
    BY <1>6, <1>7, <2>1
  <2>3. x > 0 /\ LenW + x <= n
    BY <1>7 DEF HeldFits, f, n
  <2> HIDE DEF x
  <2>4. f \in Seq(Byte) /\ Len(f) = n
    BY <1>6
  <2>5. SubSeq(f, Header + 1, LenW + x) \in Seq(Byte) /\ SubSeq(f, LenW + x + 1, n) \in Seq(Byte)
    <3>1. \A i \in (Header + 1)..(LenW + x) : i \in 1..Len(f)
      BY <1>6, <2>1, <2>2, <2>3, <2>4
    <3>2. \A i \in (LenW + x + 1)..n : i \in 1..Len(f)
      BY <1>6, <2>1, <2>2, <2>4
    <3>3. \A i \in 1..Len(f) : f[i] \in Byte
      BY <1>6, <2>4
    <3>4. Header + 1 \in Int /\ LenW + x \in Int /\ LenW + x + 1 \in Int /\ n \in Int
      BY <1>6, <2>1, <2>2
    <3>5. SubSeq(f, Header + 1, LenW + x) \in Seq(Byte)
      BY <3>1, <3>3, <3>4, SubSeqProperties, Zenon
    <3>6. SubSeq(f, LenW + x + 1, n) \in Seq(Byte)
      BY <3>2, <3>3, <3>4, SubSeqProperties, Zenon
    <3> QED BY <3>5, <3>6
  <2> QED BY <2>5 DEF HeldId, HeldData, f, n, x
<1> HIDE DEF f, n
<1>8. f \in Seq(Byte) /\ Len(f) = n
  BY <1>6
<1> QED BY <1>4, <1>5, <1>7, <1>8 DEF f, n

(* At the start nothing is on its way.                                     *)
LEMMA SettledInit == FrameInit => Settled
<1> SUFFICES ASSUME FrameInit PROVE Settled
  OBVIOUS
<1>1. IInv
  BY InitInv DEF FrameInit
<1>2. script \in Seq(Message)
  BY FrameAssumption DEF FrameInit, Message
<1>3. 0 \in 0..Len(script) /\ << >> \in Seq(Byte) /\ DOMAIN << >> = {}
  BY <1>2
<1>4. StreamTypeOK
  BY <1>3 DEF FrameInit, StreamTypeOK
<1> QED BY <1>1, <1>4 DEF FrameInit, Init, Settled

(* The sending end does not touch the ring.                                *)
LEMMA SenderSettled ==
  ASSUME Settled, Sender \/ WriteFails \/ UNCHANGED framevars
  PROVE  Settled'
<1>1. UNCHANGED <<vars, script, mapbuffer_, crashed>>
  BY DEF Sender, Send, LoopSend, Write, WriteFails, framevars, stream
<1>2. IInv'
  BY <1>1, WaitInv DEF Settled
<1>3. can_read' = can_read
  BY <1>1, CanReadSame DEF vars
<1>4. StreamTypeOK
  BY DEF Settled
<1>5. /\ sent' \in 0..Len(script) /\ failed' \in BOOLEAN
      /\ send_buffer_' \in Seq(Byte) /\ chunk' \in Seq(Byte) /\ wire' \in Seq(Byte)
  <2>1. CASE Send
    <3>1. sent' \in 1..Len(script)
      BY <2>1, <1>4 DEF Send, StreamTypeOK
    <3>2. Frame(sent') \in Seq(Byte)
      BY <3>1, FrameIs, ScriptType
    <3>3. send_buffer_' = send_buffer_ \o Frame(sent')
      BY <2>1, Zenon DEF Send, Frame
    <3>4. send_buffer_' \in Seq(Byte)
      BY <1>4, <3>2, <3>3 DEF StreamTypeOK
    <3>5. sent' \in 0..Len(script)
      BY <3>1
    <3> QED BY <2>1, <1>4, <3>4, <3>5 DEF Send, StreamTypeOK
  <2>2. CASE LoopSend \/ WriteFails
    <3>1. << >> \in Seq(Byte)
      OBVIOUS
    <3> QED BY <2>2, <1>4, <3>1, Zenon DEF LoopSend, WriteFails, StreamTypeOK
  <2>3. ASSUME NEW k \in 1..Len(chunk), Write(k)
        PROVE  sent' = sent /\ failed' = failed /\ send_buffer_' = send_buffer_
               /\ chunk' \in Seq(Byte) /\ wire' \in Seq(Byte)
    <3>1. chunk \in Seq(Byte) /\ wire \in Seq(Byte) /\ k \in 0..Len(chunk)
      BY <1>4 DEF StreamTypeOK
    <3>2. SubSeq(chunk, 1, k) \in Seq(Byte) /\ SubSeq(chunk, k + 1, Len(chunk)) \in Seq(Byte)
      BY <3>1, Splits
    <3> QED BY <2>3, <3>1, <3>2 DEF Write
  <2>4. CASE UNCHANGED framevars
    BY <2>4, <1>4 DEF framevars, stream, StreamTypeOK
  <2> QED BY <2>1, <2>2, <2>3, <2>4, <1>4 DEF Sender, StreamTypeOK
<1>6. StreamTypeOK'
  BY <1>1, <1>4, <1>5 DEF StreamTypeOK
<1> QED BY <1>1, <1>2, <1>3, <1>6 DEF Settled, vars, writer, reader

(* Writing into the ring adds bytes behind the ones loop_recv looks at.    *)
LEMMA EpollSettled ==
  ASSUME Settled, Epoll
  PROVE  Settled'
<1>0. IInv /\ StreamTypeOK
  BY DEF Settled
<1>1. ASSUME NEW k \in 1..MaxLen, HandleRead(k) PROVE Settled'
  <2>1. /\ WriteRealloc(SubSeq(wire, 1, k)) /\ k <= Len(wire)
        /\ UNCHANGED <<script, sent, send_buffer_, chunk, failed, mapbuffer_, crashed>>
        /\ wire' = SubSeq(wire, k + 1, Len(wire))
    BY <1>1 DEF HandleRead
  <2>2. SubSeq(wire, 1, k) \in Data /\ k \in 0..Len(wire)
    BY <1>0, <2>1, ReadIsData
  <2>3. IInv' /\ Contents' = Contents
    BY <1>0, <2>1, <2>2, WriteReallocInv, WriteReallocRefines
  <2>4. wire' \in Seq(Byte)
    BY <1>0, <2>1, <2>2, Splits DEF StreamTypeOK
  <2>5. StreamTypeOK'
    BY <1>0, <2>1, <2>4 DEF StreamTypeOK
  <2>6. wpc' = "wait" /\ UNCHANGED reader
    BY <2>1 DEF WriteRealloc
  <2>7. can_read => can_read'
    <3>1. << >> \in Seq(Byte) /\ Contents = Contents \o << >>
      BY <1>0, ContentsIs DEF ContentsOK
    <3> QED BY <1>0, <2>3, <3>1, CanReadStays
  <2> QED BY <2>1, <2>3, <2>5, <2>6, <2>7 DEF Settled, reader
<1>2. CASE HandleReadWrites
  <2>1. UNCHANGED <<stream, mapbuffer_, crashed>> /\ (WriteWait \/ WriteCopy)
    BY <1>2 DEF HandleReadWrites
  <2>2. StreamTypeOK'
    BY <1>0, <2>1 DEF StreamTypeOK, stream
  <2>3. CASE WriteWait
    <3>1. IInv' /\ UNCHANGED <<ring, wdata, reader>> /\ wpc' = "copy"
      BY <1>0, <2>3, WaitInv DEF WriteWait
    <3>2. can_read' = can_read
      BY <3>1, CanReadSame
    <3> QED BY <2>1, <2>2, <3>1, <3>2 DEF Settled, reader, stream
  <2>4. CASE WriteCopy
    <3>1. IInv' /\ UNCHANGED reader /\ wpc' = "idle" /\ wdata' = << >>
      BY <1>0, <2>4, WriteCopyInv DEF WriteCopy
    <3>2. wdata \in Seq(Byte) /\ Contents' = Contents \o wdata
      BY <1>0, <2>4, WriteCopyRefines, DataIsSeq DEF BQ!Put
    <3>3. can_read => can_read'
      BY <1>0, <3>1, <3>2, CanReadStays
    <3> QED BY <2>1, <2>2, <3>1, <3>3 DEF Settled, reader, stream
  <2> QED BY <2>1, <2>3, <2>4
<1> QED BY <1>1, <1>2 DEF Epoll

(* loop_recv takes out what it saw.                                        *)
LEMMA LoopRecvSettled ==
  ASSUME Settled, LoopRecv
  PROVE  Settled'
<1>0. IInv /\ StreamTypeOK /\ rlen = 0
  BY DEF Settled
<1>1. CASE LoopRecvWakes
  <2>1. /\ UNCHANGED <<ring, writer, rop, rlen, got, stream, mapbuffer_, crashed>>
        /\ rpc' = "copy" /\ can_read
    BY <1>1 DEF LoopRecvWakes
  <2>2. IInv'
    <3>1. TypeOK'
      BY <1>0, <2>1 DEF IInv, TypeOK, ring, writer
    <3>2. PositionsAgree' /\ UnreadIsWritten'
      BY <1>0, <2>1 DEF IInv, PositionsAgree, UnreadIsWritten, Slot, size, ring
    <3>3. ChecksStillHold'
      <4>1. size >= 0
        BY <1>0, RingArith
      <4> QED BY <1>0, <2>1, <4>1 DEF IInv, ChecksStillHold, size, ring, writer
    <3> QED BY <3>1, <3>2, <3>3 DEF IInv
  <2>3. can_read'
    BY <2>1, CanReadSame
  <2>4. StreamTypeOK'
    BY <1>0, <2>1 DEF StreamTypeOK, stream
  <2> QED BY <2>1, <2>2, <2>3, <2>4 DEF Settled, writer, stream
<1>2. CASE ReadFrame
  <2>0. rpc = "copy" /\ (Delivers \/ Stays)
    BY <1>2, ReadFrameCases
  <2>1. CASE Delivers
    <3>1. FrameLen \in 0..size /\ HeldId \in Seq(Byte) /\ HeldData \in Seq(Byte)
      BY <2>0, <2>1, HeldTypes DEF Delivers
    <3>2. Consumes(FrameLen) /\ UNCHANGED <<stream, crashed>>
      BY <2>1 DEF Delivers
    <3>3. IInv'
      BY <1>0, <3>1, <3>2, ConsumesInv
    <3>4. \A id \in DOMAIN mapbuffer_' : id \in Seq(Byte) /\ mapbuffer_'[id] \in Seq(Byte)
      <4>1. At(HeldId) \in Seq(Byte)
        BY <1>0 DEF At, StreamTypeOK
      <4>2. At(HeldId) \o HeldData \in Seq(Byte)
        BY <3>1, <4>1
      <4>3. mapbuffer_' = [i \in DOMAIN mapbuffer_ \cup {HeldId} |->
                             IF i = HeldId THEN At(HeldId) \o HeldData ELSE mapbuffer_[i]]
        BY <2>1 DEF Delivers
      <4> QED BY <1>0, <3>1, <4>2, <4>3, Zenon DEF StreamTypeOK
    <3>5. StreamTypeOK'
      BY <1>0, <3>2, <3>4 DEF StreamTypeOK, stream
    <3> QED BY <3>2, <3>3, <3>5 DEF Settled, Consumes, writer, stream
  <2>2. CASE Stays
    <3>1. rpc' = "idle" /\ UNCHANGED <<ring, writer, rop, rlen, got, stream, mapbuffer_>>
      BY <2>2 DEF Stays
    <3>2. IInv'
      <4>1. TypeOK'
        BY <1>0, <3>1 DEF IInv, TypeOK, ring, writer
      <4>2. PositionsAgree' /\ UnreadIsWritten'
        BY <1>0, <3>1 DEF IInv, PositionsAgree, UnreadIsWritten, Slot, size, ring
      <4>3. ChecksStillHold'
        BY <1>0, <3>1 DEF IInv, ChecksStillHold, size, ring, writer
      <4> QED BY <4>1, <4>2, <4>3 DEF IInv
    <3>3. crashed' \in BOOLEAN
      BY <1>0, <2>2, Zenon DEF Stays, StreamTypeOK
    <3>4. StreamTypeOK'
      BY <1>0, <3>1, <3>3 DEF StreamTypeOK, stream
    <3> QED BY <3>1, <3>2, <3>4 DEF Settled, writer, stream
  <2> QED BY <2>0, <2>1, <2>2
<1> QED BY <1>1, <1>2 DEF LoopRecv

(* Settled is an invariant.                                                *)
LEMMA SettledAlways == FrameSpec => []Settled
<1>1. Settled /\ [FrameNext]_framevars => Settled'
  BY SenderSettled, EpollSettled, LoopRecvSettled DEF FrameNext
<1> QED BY <1>1, SettledInit, PTL DEF FrameSpec

(* Every variable of the stream keeps its type: what is in the send        *)
(* buffer, in the kernel, in the ring and in the mailboxes is bytes that   *)
(* someone sent, also after a failed write or a header that cannot be      *)
(* read, and never the uninitialised memory of the ring.                   *)
THEOREM FrameTypes == FrameSpec => []FrameTypeOK
<1>1. Settled => FrameTypeOK
  BY DEF Settled, IInv, StreamTypeOK, FrameTypeOK
<1> QED BY <1>1, SettledAlways, PTL
-----------------------------------------------------------------------------
(* The stream: whatever is on its way, in the ring, in the hands of epoll, *)
(* in the kernel, in the hands of loop_send or in the send buffer, is the  *)
(* frames sent and not yet delivered, one behind the other.                *)

\* where each frame ends in the stream of all bytes of a script
Ends ==
  { e \in [0..Len(script) -> Nat] :
      e[0] = 0 /\ \A i \in 1..Len(script) : e[i] = e[i - 1] + Len(Frame(i)) }

End == CHOOSE e : e \in Ends

Pipe == Contents \o wdata \o wire \o chunk \o send_buffer_

\* p is the frames after the d-th up to the n-th
Holds(p, d, n) ==
  /\ Len(p) = End[n] - End[d]
  /\ \A i \in (d + 1)..n :
       \A j \in 1..Len(Frame(i)) : p[End[i - 1] - End[d] + j] = Frame(i)[j]

\* the first d frames have left the pipe
Undelivered(d) == Holds(Pipe, d, sent)

\* the mailbox of message i holds what the first d messages have for it
Exact(i, d) == Mailbox(script[i].id) = DataOf(script[i].id, d)

\* the mailbox of message i holds what all good messages have for it, or more
Reached(i) == IsPrefix(DataOf(script[i].id, GoodCount), Mailbox(script[i].id))

\* the first d messages, and nothing else, are in the mailboxes
InOrder(d) ==
  /\ d <= GoodCount /\ ~crashed
  /\ Undelivered(d)
  /\ \A i \in 1..GoodCount : Exact(i, d)

\* every good message is delivered, and a bad one was sent
Beyond ==
  /\ sent > GoodCount
  /\ \A i \in 1..GoodCount : Reached(i)

Delivery == ~failed => Beyond \/ \E d \in 0..sent : InOrder(d)

(* The frames have their places in the stream.                             *)
LEMMA EndIs ==
  ASSUME script \in Seq(Message)
  PROVE  /\ End \in [0..Len(script) -> Nat] /\ End[0] = 0
         /\ \A i \in 1..Len(script) :
              End[i] = End[i - 1] + Len(Frame(i)) /\ Len(Frame(i)) \in Nat
<1> DEFINE n == Len(script)
           step == [i \in 1..n |-> [x \in Nat |-> x + Len(Frame(i))]]
<1>0. n \in Nat
  OBVIOUS
<1>1. \A i \in 1..n : Len(Frame(i)) \in Nat
  BY FrameIs
<1>2. step \in [1..n -> [Nat -> Nat]]
  BY <1>1
<1>3. PICK f \in [0..n -> Nat] : f[0] = 0 /\ \A i \in 1..n : f[i] = step[i][f[i - 1]]
  <2> HIDE DEF step
  <2>1. \E f : f \in Recursive(Nat, 0, n, step)
    BY <1>0, <1>2, Recursion
  <2> QED BY <2>1 DEF Recursive
<1>4. \A i \in 1..n : f[i] = f[i - 1] + Len(Frame(i))
  <2> TAKE i \in 1..n
  <2>1. f[i - 1] \in Nat
    BY <1>0
  <2>2. step[i][f[i - 1]] = f[i - 1] + Len(Frame(i))
    BY <2>1
  <2> QED BY <1>3, <2>1, <2>2
<1>5. f \in Ends
  <2>1. f[0] = 0
    BY <1>3
  <2> QED BY <1>4, <2>1 DEF Ends
<1>6. End \in Ends
  BY <1>5, Zenon DEF End
<1> QED BY <1>1, <1>6 DEF Ends

(* Later frames end later.                                                 *)
LEMMA EndGrows ==
  ASSUME script \in Seq(Message), NEW i \in 0..Len(script), NEW k \in i..Len(script)
  PROVE  End[i] <= End[k] /\ End[i] \in Nat /\ End[k] \in Nat
<1> DEFINE n == Len(script)
           S == { m \in 0..n : m >= i => End[i] <= End[m] }
<1>0. n \in Nat /\ i \in 0..n /\ k \in 0..n /\ k >= i
  OBVIOUS
<1>1. /\ End \in [0..n -> Nat]
      /\ \A m \in 1..n : End[m] = End[m - 1] + Len(Frame(m)) /\ Len(Frame(m)) \in Nat
  BY EndIs
<1>2. 0 \in S
  BY <1>0, <1>1
<1>3. ASSUME NEW m \in 1..n, m - 1 \in S PROVE m \in S
  <2>0. m \in 0..n /\ m - 1 \in 0..n
    BY <1>0
  <2>1. m \in 0..n /\ End[m] \in Nat /\ End[m - 1] \in Nat /\ End[i] \in Nat
    <3>1. End \in [0..n -> Nat]
      BY <1>1
    <3> HIDE DEF n
    <3> QED BY <1>0, <2>0, <3>1
  <2>2. End[m] >= End[m - 1]
    BY <1>1, <2>1
  <2>3. CASE m - 1 >= i
    BY <1>3, <2>1, <2>2, <2>3
  <2>4. CASE ~(m - 1 >= i)
    <3>1. m >= i => m = i
      BY <1>0, <2>4
    <3> QED BY <2>1, <3>1
  <2> QED BY <2>3, <2>4
<1> HIDE DEF S
<1>4. \A m \in 0..n : m \in S
  BY <1>0, <1>2, <1>3, UpTo, Zenon
<1>5. k \in S
  BY <1>0, <1>4
<1> QED BY <1>0, <1>1, <1>5 DEF S

(* Putting sequences of bytes together is associative.                     *)
LEMMA Assoc ==
  ASSUME NEW a \in Seq(Byte), NEW b \in Seq(Byte), NEW c \in Seq(Byte)
  PROVE  (a \o b) \o c = a \o (b \o c)
OBVIOUS

\* concatenation under a name of its own: the provers regroup it by the two
\* lemmas below without looking at the elements
Cat(a, b) == a \o b

(* The concatenation of two sequences of bytes is one.                     *)
LEMMA CatIsSeq == \A a, b \in Seq(Byte) : Cat(a, b) \in Seq(Byte)
BY DEF Cat

(* Assoc for Cat.                                                          *)
LEMMA CatAssoc == \A a, b, c \in Seq(Byte) : Cat(Cat(a, b), c) = Cat(a, Cat(b, c))
BY Assoc DEF Cat

(* ... and the empty one changes nothing.                                  *)
LEMMA Neutral ==
  ASSUME NEW a \in Seq(Byte)
  PROVE  a \o << >> = a /\ << >> \o a = a
OBVIOUS

\* the parts of the pipe
PartsOK ==
  /\ Contents \in Seq(Byte) /\ wdata \in Seq(Byte) /\ wire \in Seq(Byte)
  /\ chunk \in Seq(Byte) /\ send_buffer_ \in Seq(Byte)

(* Every part of the pipe is a sequence of bytes.                          *)
LEMMA PartsAre == Settled => PartsOK
<1>1. Settled => Contents \in Seq(Byte)
  BY ContentsIs DEF Settled, ContentsOK
<1>2. Settled => wdata \in Seq(Byte)
  BY DataIsSeq DEF Settled, IInv, TypeOK
<1> QED BY <1>1, <1>2 DEF Settled, StreamTypeOK, PartsOK

(* Send() puts a frame at the end of the pipe.                             *)
LEMMA SendPipe ==
  ASSUME Settled, Send
  PROVE  sent + 1 \in 1..Len(script) /\ Frame(sent + 1) \in Seq(Byte)
         /\ Pipe' = Pipe \o Frame(sent + 1)
<1>1. sent + 1 \in 1..Len(script) /\ sent' = sent + 1
  BY DEF Send, Settled, StreamTypeOK
<1>2. Frame(sent + 1) \in Seq(Byte)
  BY <1>1, FrameIs, ScriptType
<1>3. UNCHANGED <<vars, chunk, wire>> /\ send_buffer_' = send_buffer_ \o Frame(sent + 1)
  BY <1>1, Zenon DEF Send, Frame
<1>4. PartsOK
  BY PartsAre
<1> DEFINE x == Contents \o wdata \o wire \o chunk
<1>5. x \in Seq(Byte) /\ send_buffer_ \in Seq(Byte)
  BY <1>4 DEF PartsOK
<1>6. Contents' = Contents /\ wdata' = wdata
  BY <1>3 DEF vars, ring, writer, Contents, Slot, size
<1>7. Pipe' = x \o send_buffer_' /\ Pipe = x \o send_buffer_
  BY <1>3, <1>6, Zenon DEF Pipe
<1> HIDE DEF x
<1>8. x \o (send_buffer_ \o Frame(sent + 1)) = (x \o send_buffer_) \o Frame(sent + 1)
  BY <1>2, <1>5, Assoc
<1> QED BY <1>1, <1>2, <1>3, <1>7, <1>8

(* loop_send, writen() and epoll move bytes along the pipe: none is lost,  *)
(* doubled or overtaken, however large the pieces are.                     *)
LEMMA MovePipe ==
  ASSUME Settled,
         \/ LoopSend \/ \E k \in 1..Len(chunk) : Write(k)
         \/ Epoll
         \/ UNCHANGED <<ring, writer, wire, chunk, send_buffer_>>
  PROVE  Pipe' = Pipe
<1>0. PartsOK /\ IInv /\ StreamTypeOK
  BY PartsAre DEF Settled
<1> DEFINE c == Contents
           w == wdata
           u == wire
           h == chunk
           s == send_buffer_
           e == Contents'
<1>1. c \in Seq(Byte) /\ w \in Seq(Byte) /\ u \in Seq(Byte) /\ h \in Seq(Byte) /\ s \in Seq(Byte)
  BY <1>0 DEF PartsOK
<1>2. Pipe = (((c \o w) \o u) \o h) \o s
  BY DEF Pipe
<1>3. Pipe' = (((e \o w') \o u') \o h') \o s'
  BY DEF Pipe
<1>4. UNCHANGED ring => e = c
  BY DEF ring, Contents, Slot, size
<1>5. CASE LoopSend
  <2>1. e = c /\ w' = w /\ u' = u /\ h = << >> /\ h' = s /\ s' = << >>
    BY <1>4, <1>5 DEF LoopSend, vars, writer
  <2> DEFINE x == (c \o w) \o u
  <2>2. x \in Seq(Byte)
    BY <1>1
  <2> HIDE DEF x
  <2>3. (x \o s) \o << >> = (x \o << >>) \o s
    BY <1>1, <2>2
  <2> QED BY <1>2, <1>3, <2>1, <2>3, Zenon DEF x
<1>6. ASSUME NEW k \in 1..Len(chunk), Write(k) PROVE Pipe' = Pipe
  <2> DEFINE a == SubSeq(chunk, 1, k)
             b == SubSeq(chunk, k + 1, Len(chunk))
  <2>1. e = c /\ w' = w /\ u' = u \o a /\ h' = b /\ s' = s
    BY <1>4, <1>6 DEF Write, vars, writer
  <2>2. a \in Seq(Byte) /\ b \in Seq(Byte) /\ h = a \o b
    <3>1. chunk \in Seq(Byte) /\ k \in 0..Len(chunk)
      BY <1>1
    <3> QED BY <3>1, Splits
  <2> DEFINE x == c \o w
  <2>3. x \in Seq(Byte)
    BY <1>1
  <2> HIDE DEF x, a, b
  <2>4. (x \o (u \o a)) \o b = (x \o u) \o (a \o b)
    <3>1. u \in Seq(Byte)
      BY <1>1
    <3> HIDE DEF u
    <3>2. Cat(Cat(x, Cat(u, a)), b) = Cat(Cat(x, u), Cat(a, b))
      BY <2>2, <2>3, <3>1, CatIsSeq, CatAssoc
    <3> QED BY <3>2, Zenon DEF Cat
  <2> QED BY <1>2, <1>3, <2>1, <2>2, <2>4, Zenon DEF x
<1>7. ASSUME NEW k \in 1..MaxLen, HandleRead(k) PROVE Pipe' = Pipe
  <2> DEFINE a == SubSeq(wire, 1, k)
             b == SubSeq(wire, k + 1, Len(wire))
  <2>0. WriteRealloc(a) /\ k <= Len(wire)
    BY <1>7 DEF HandleRead
  <2>1. a \in Data /\ k \in 0..Len(wire)
    BY <1>0, <2>0, ReadIsData
  <2>2. a \in Seq(Byte) /\ b \in Seq(Byte) /\ u = a \o b
    BY <1>1, <2>1, Splits
  <2>3. e = c
    BY <1>0, <2>0, <2>1, WriteReallocRefines
  <2>4. w = << >> /\ w' = a /\ u' = b /\ h' = h /\ s' = s
    BY <1>7, <2>0 DEF HandleRead, WriteRealloc, Settled
  <2> HIDE DEF a, b
  <2>5. (c \o a) \o b = (c \o << >>) \o (a \o b)
    <3>1. c \in Seq(Byte)
      BY <1>1
    <3> HIDE DEF c
    <3>2. c \o << >> = c
      BY <3>1, Neutral
    <3>3. (c \o a) \o b = c \o (a \o b)
      BY <2>2, <3>1, Assoc
    <3> QED BY <3>2, <3>3, Zenon
  <2> QED BY <1>2, <1>3, <2>2, <2>3, <2>4, <2>5, Zenon
<1>8. CASE WriteCopy /\ UNCHANGED stream
  <2>1. e = c \o w
    BY <1>0, <1>8, WriteCopyRefines DEF BQ!Put
  <2>2. w' = << >> /\ u' = u /\ h' = h /\ s' = s
    BY <1>8 DEF WriteCopy, stream
  <2>3. (c \o w) \o << >> = c \o w
    BY <1>1
  <2> QED BY <1>2, <1>3, <2>1, <2>2, <2>3, Zenon
<1>9. CASE (WriteWait /\ UNCHANGED stream) \/ UNCHANGED <<ring, writer, wire, chunk, send_buffer_>>
  <2>1. UNCHANGED ring /\ w' = w /\ u' = u /\ h' = h /\ s' = s
    BY <1>9 DEF WriteWait, stream, writer
  <2> QED BY <1>2, <1>3, <1>4, <2>1, Zenon
<1> QED BY <1>5, <1>6, <1>7, <1>8, <1>9 DEF Epoll, HandleReadWrites

Row(c, w, u, h, s) == (((c \o w) \o u) \o h) \o s

FrontOf(f, c, w, u, h, s) ==
  Row(c, w, u, h, s) \in Seq(Byte) /\ Row(f \o c, w, u, h, s) = f \o Row(c, w, u, h, s)

(* What is in front of the first part is in front of the whole.            *)
LEMMA FrontFirst ==
  ASSUME NEW f \in Seq(Byte), NEW c \in Seq(Byte), NEW w \in Seq(Byte), NEW u \in Seq(Byte),
         NEW h \in Seq(Byte), NEW s \in Seq(Byte)
  PROVE  FrontOf(f, c, w, u, h, s)
<1> DEFINE x == Cat(c, w)
           y == Cat(x, u)
           z == Cat(y, h)
<1>1. x \in Seq(Byte) /\ Cat(Cat(f, c), w) = Cat(f, x)
  BY CatIsSeq, CatAssoc
<1> HIDE DEF x
<1>2. y \in Seq(Byte) /\ Cat(Cat(f, x), u) = Cat(f, y)
  BY <1>1, CatIsSeq, CatAssoc
<1> HIDE DEF y
<1>3. z \in Seq(Byte) /\ Cat(Cat(f, y), h) = Cat(f, z)
  BY <1>2, CatIsSeq, CatAssoc
<1> HIDE DEF z
<1>4. Cat(z, s) \in Seq(Byte) /\ Cat(Cat(f, z), s) = Cat(f, Cat(z, s))
  BY <1>3, CatIsSeq, CatAssoc
<1>5. Row(f \o c, w, u, h, s) = Cat(Cat(Cat(Cat(Cat(f, c), w), u), h), s)
  BY Zenon DEF Row, Cat
<1>6. Row(c, w, u, h, s) = Cat(z, s)
  BY Zenon DEF Row, Cat, x, y, z
<1>7. Row(f \o c, w, u, h, s) = f \o Cat(z, s)
  <2>1. Row(f \o c, w, u, h, s) = Cat(f, Cat(z, s))
    BY <1>1, <1>2, <1>3, <1>4, <1>5, Zenon
  <2> QED BY <2>1, Zenon DEF Cat
<1> QED BY <1>4, <1>6, <1>7, Zenon DEF FrontOf

(* read(id, data) takes the frame it hands over out of the front of the    *)
(* pipe.                                                                   *)
LEMMA DeliverPipe ==
  ASSUME Settled, rpc = "copy", Delivers
  PROVE  Pipe = HeldFrame \o Pipe' /\ Pipe' \in Seq(Byte)
<1>0. PartsOK /\ IInv /\ rlen = 0
  BY PartsAre DEF Settled
<1>1. /\ FrameLen \in 0..size /\ HeldFrame = SubSeq(Contents, 1, FrameLen)
      /\ HeldFrame \in Seq(Byte)
  BY HeldTypes
<1>2. Contents' = SubSeq(Contents, FrameLen + 1, Len(Contents))
  BY <1>0, <1>1, ConsumesInv DEF Delivers
<1> DEFINE c == Contents
           e == Contents'
           f == HeldFrame
           w == wdata
           u == wire
           h == chunk
           s == send_buffer_
<1>3. c \in Seq(Byte) /\ w \in Seq(Byte) /\ u \in Seq(Byte) /\ h \in Seq(Byte) /\ s \in Seq(Byte)
  BY <1>0 DEF PartsOK
<1>4. Len(Contents) = size
  BY <1>0, ContentsIs DEF ContentsOK
<1>5. e \in Seq(Byte) /\ c = f \o e
  BY <1>1, <1>2, <1>3, <1>4, Splits
<1>6. Pipe = Row(c, w, u, h, s)
  BY Zenon DEF Pipe, Row
<1>7. Pipe' = Row(e, w, u, h, s)
  <2>1. w' = w /\ u' = u /\ h' = h /\ s' = s
    BY DEF Delivers, Consumes, stream, writer
  <2>2. Pipe' = Row(e, w', u', h', s')
    BY Zenon DEF Pipe, Row
  <2> QED BY <2>1, <2>2, Zenon
<1>8. f \in Seq(Byte)
  BY <1>1
<1> HIDE DEF c, e, f, w, u, h, s
<1>9. Row(e, w, u, h, s) \in Seq(Byte) /\ Row(f \o e, w, u, h, s) = f \o Row(e, w, u, h, s)
  <2>1. FrontOf(f, e, w, u, h, s)
    BY <1>3, <1>5, <1>8, FrontFirst, Zenon
  <2> QED BY <2>1, Zenon DEF FrontOf
<1> QED BY <1>5, <1>6, <1>7, <1>9, Zenon DEF f

(* All of these depend on nothing but the script.                          *)
LEMMA ScriptFixed ==
  ASSUME script' = script
  PROVE  /\ \A i : Frame(i)' = Frame(i)
         /\ End' = End /\ GoodCount' = GoodCount
<1>1. \A i : Frame(i)' = Frame(i)
  BY DEF Frame
<1>2. End' = End
  <2>1. Ends' = Ends
    BY DEF Ends, Frame
  <2> QED BY <2>1, Zenon DEF End
<1>3. GoodCount' = GoodCount
  BY Zenon DEF GoodCount
<1> QED BY <1>1, <1>2, <1>3

(* The pipe holds bytes.                                                   *)
LEMMA PipeType == Settled => Pipe \in Seq(Byte)
<1> SUFFICES ASSUME Settled PROVE Pipe \in Seq(Byte)
  OBVIOUS
<1>1. PartsOK
  BY PartsAre
<1> QED BY <1>1 DEF PartsOK, Pipe

(* The places of a frame that begins behind a, ends at c and has length l, *)
(* in a stream from a to m.                                                *)
LEMMA Place ==
  ASSUME NEW a \in Nat, NEW b \in Nat, NEW c \in Nat, NEW m \in Nat, NEW l \in Nat,
         NEW j \in 1..l, a <= b, c = b + l, c <= m
  PROVE  b - a + j \in 1..(m - a)
OBVIOUS

(* A frame more at the end ...                                             *)
LEMMA HoldsMore ==
  ASSUME script \in Seq(Message), NEW n \in 0..(Len(script) - 1), NEW d \in 0..n,
         NEW p \in Seq(Byte), Holds(p, d, n)
  PROVE  Holds(p \o Frame(n + 1), d, n + 1)
<1> DEFINE f == Frame(n + 1)
           q == p \o f
           N == Len(script)
<1>0. N \in Nat /\ n \in 0..N /\ n + 1 \in 1..N /\ d \in 0..N /\ n \in Nat /\ d \in Nat /\ d <= n
  OBVIOUS
<1>1. f \in Seq(Byte) /\ Len(f) \in Nat
  <2>1. f \in Seq(Byte)
    BY <1>0, FrameIs, Zenon
  <2> QED BY <2>1
<1>2. End[n + 1] = End[n] + Len(f) /\ End[n + 1] \in Nat /\ End[n] \in Nat /\ End[d] \in Nat
  <2>1. End[n] \in Nat /\ End[d] \in Nat
    BY <1>0, EndGrows
  <2>2. End[n + 1] = End[(n + 1) - 1] + Len(f)
    BY <1>0, EndIs
  <2>3. (n + 1) - 1 = n
    BY <1>0
  <2> QED BY <1>1, <2>1, <2>2, <2>3
<1>3. Len(p) = End[n] - End[d] /\ Len(p) \in Nat
  BY DEF Holds
<1> HIDE DEF f
<1>4. /\ Len(q) = Len(p) + Len(f)
      /\ \A x \in 1..Len(p) : q[x] = p[x]
      /\ \A x \in 1..Len(f) : q[Len(p) + x] = f[x]
  BY <1>1
<1>5. Len(q) = End[n + 1] - End[d]
  BY <1>1, <1>2, <1>3, <1>4
<1> HIDE DEF q
<1>6. ASSUME NEW i \in (d + 1)..(n + 1), NEW j \in 1..Len(Frame(i))
      PROVE  q[End[i - 1] - End[d] + j] = Frame(i)[j]
  <2>1. CASE i = n + 1
    <3>1. i - 1 = n /\ j \in 1..Len(f)
      BY <1>0, <2>1 DEF f
    <3>2. q[Len(p) + j] = f[j]
      BY <1>4, <3>1
    <3> QED BY <1>3, <2>1, <3>1, <3>2 DEF f
  <2>2. CASE i # n + 1
    <3>1. i \in (d + 1)..n /\ i \in 1..N /\ i - 1 \in 0..N /\ i \in i..N /\ n \in i..N
          /\ i - 1 \in d..N /\ i \in 0..N
      BY <1>0, <2>2
    <3>2. p[End[i - 1] - End[d] + j] = Frame(i)[j]
      BY <3>1 DEF Holds
    <3>3. End[d] <= End[i - 1] /\ End[i - 1] \in Nat
      BY <1>0, <3>1, EndGrows
    <3>4. End[i] <= End[n] /\ End[i] \in Nat
      BY <1>0, <3>1, EndGrows
    <3>5. End[i] = End[i - 1] + Len(Frame(i)) /\ Len(Frame(i)) \in Nat
      BY <3>1, EndIs
    <3>6. End[i - 1] - End[d] + j \in 1..Len(p)
      BY <1>2, <1>3, <3>3, <3>4, <3>5, Place, Zenon
    <3> QED BY <1>4, <3>2, <3>6
  <2> QED BY <2>1, <2>2
<1>7. Holds(q, d, n + 1)
  BY <1>5, <1>6 DEF Holds
<1> QED BY <1>7 DEF q, f

(* ... and one less at the front.                                          *)
LEMMA HoldsLess ==
  ASSUME script \in Seq(Message), NEW n \in 0..Len(script), NEW d \in 0..(n - 1),
         NEW p \in Seq(Byte), Holds(Frame(d + 1) \o p, d, n)
  PROVE  Holds(p, d + 1, n)
<1> DEFINE f == Frame(d + 1)
           q == f \o p
           N == Len(script)
<1>0. /\ N \in Nat /\ n \in 0..N /\ n \in Nat /\ d \in Nat /\ d <= n - 1
      /\ d \in 0..N /\ d + 1 \in 1..N /\ d + 1 \in 0..N /\ n \in (d + 1)..N
  OBVIOUS
<1>1. f \in Seq(Byte) /\ Len(f) \in Nat
  <2>1. f \in Seq(Byte)
    BY <1>0, FrameIs, Zenon
  <2> QED BY <2>1
<1>2. End[d + 1] = End[d] + Len(f) /\ End[d + 1] \in Nat /\ End[n] \in Nat /\ End[d] \in Nat
  <2>1. End[d + 1] \in Nat /\ End[n] \in Nat
    BY <1>0, EndGrows
  <2>2. End[d + 1] = End[(d + 1) - 1] + Len(f)
    BY <1>0, EndIs
  <2>3. (d + 1) - 1 = d
    BY <1>0
  <2>4. End[d] \in Nat
    <3>1. d \in d..N
      BY <1>0
    <3> QED BY <1>0, <3>1, EndGrows
  <2> QED BY <2>1, <2>2, <2>3, <2>4
<1>3. Len(q) = End[n] - End[d]
  BY DEF Holds
<1> HIDE DEF f
<1>4. /\ Len(q) = Len(f) + Len(p) /\ Len(p) \in Nat
      /\ \A x \in 1..Len(p) : q[Len(f) + x] = p[x]
  <2>1. Len(q) = Len(f) + Len(p) /\ Len(p) \in Nat
    BY <1>1
  <2>2. ASSUME NEW x \in 1..Len(p) PROVE q[Len(f) + x] = p[x]
    BY <1>1
  <2> QED BY <2>1, <2>2
<1>5. Len(p) = End[n] - End[d + 1]
  <2>1. Len(q) = Len(f) + Len(p) /\ Len(p) \in Nat
    BY <1>4
  <2> DEFINE lf == Len(f)
             lp == Len(p)
             en == End[n]
             ed == End[d]
             ee == End[d + 1]
  <2>2. lf \in Nat /\ lp \in Nat /\ en \in Nat /\ ed \in Nat /\ ee \in Nat
    BY <1>1, <1>2, <2>1
  <2>3. lf + lp = en - ed /\ ee = ed + lf
    BY <1>2, <1>3, <2>1, Zenon
  <2> HIDE DEF lf, lp, en, ed, ee
  <2>4. lp = en - ee
    BY <2>2, <2>3
  <2> QED BY <2>4 DEF lp, en, ee
<1>6. ASSUME NEW i \in (d + 2)..n, NEW j \in 1..Len(Frame(i))
      PROVE  p[End[i - 1] - End[d + 1] + j] = Frame(i)[j]
  <2>1. i \in (d + 1)..n /\ i \in 1..N /\ i - 1 \in (d + 1)..N /\ i \in 0..N /\ n \in i..N
    BY <1>0
  <2>2. q[End[i - 1] - End[d] + j] = Frame(i)[j]
    BY <2>1 DEF Holds, f
  <2>3. End[d + 1] <= End[i - 1] /\ End[i - 1] \in Nat
    BY <1>0, <2>1, EndGrows
  <2>4. End[i] <= End[n] /\ End[i] \in Nat
    BY <1>0, <2>1, EndGrows
  <2>5. End[i] = End[i - 1] + Len(Frame(i)) /\ Len(Frame(i)) \in Nat
    BY <2>1, EndIs
  <2>6. End[i - 1] - End[d + 1] + j \in 1..Len(p)
    BY <1>2, <1>5, <2>3, <2>4, <2>5, Place, Zenon
  <2>7. Len(f) + (End[i - 1] - End[d + 1] + j) = End[i - 1] - End[d] + j
    <3> DEFINE a == End[d]
               b == End[i - 1]
               c == End[d + 1]
               k == Len(f)
    <3>1. a \in Nat /\ b \in Nat /\ c = a + k /\ k \in Nat /\ j \in Int
      BY <1>1, <1>2, <2>3, <2>5
    <3> HIDE DEF a, b, c, k
    <3>2. k + (b - c + j) = b - a + j
      BY <3>1
    <3> QED BY <3>2, Zenon DEF a, b, c, k
  <2>8. q[Len(f) + (End[i - 1] - End[d + 1] + j)] = p[End[i - 1] - End[d + 1] + j]
    BY <1>4, <2>6
  <2> QED BY <2>2, <2>7, <2>8, Zenon
<1>7. (d + 1) + 1 = d + 2
  BY <1>0
<1> QED BY <1>5, <1>6, <1>7 DEF Holds

(* The ring is the front of the pipe.                                      *)
LEMMA PipeFront ==
  ASSUME Settled
  PROVE  /\ Contents \in Seq(Byte) /\ Len(Contents) = size /\ size \in Nat
         /\ Len(Pipe) \in Nat /\ size <= Len(Pipe)
         /\ \A i \in 1..size : Pipe[i] = Contents[i]
<1> DEFINE c == Contents
           n == size
           x == c \o wdata
           y == x \o wire
           z == y \o chunk
           p == z \o send_buffer_
<1>1. c \in Seq(Byte) /\ Len(c) = n /\ n \in Nat
  BY ContentsIs DEF Settled, ContentsOK
<1>2. wdata \in Seq(Byte) /\ wire \in Seq(Byte) /\ chunk \in Seq(Byte) /\ send_buffer_ \in Seq(Byte)
  BY PartsAre DEF PartsOK
<1>3. Pipe = p
  BY Zenon DEF Pipe
<1> HIDE DEF c, n
<1>4. x \in Seq(Byte) /\ n <= Len(x) /\ \A i \in 1..n : x[i] = c[i]
  BY <1>1, <1>2
<1> HIDE DEF x
<1>5. y \in Seq(Byte) /\ n <= Len(y) /\ \A i \in 1..n : y[i] = x[i]
  BY <1>1, <1>2, <1>4
<1> HIDE DEF y
<1>6. z \in Seq(Byte) /\ n <= Len(z) /\ \A i \in 1..n : z[i] = y[i]
  BY <1>1, <1>2, <1>5
<1> HIDE DEF z
<1>7. p \in Seq(Byte) /\ n <= Len(p) /\ \A i \in 1..n : p[i] = z[i]
  BY <1>1, <1>2, <1>6
<1> HIDE DEF p
<1>8. Len(p) \in Nat
  BY <1>7
<1>9. \A i \in 1..n : p[i] = c[i]
  BY <1>4, <1>5, <1>6, <1>7
<1> QED BY <1>1, <1>3, <1>7, <1>8, <1>9, Zenon DEF c, n

(* When can_read() held, a frame has been sent and not delivered.          *)
LEMMA FrameIsThere ==
  ASSUME Settled, rpc = "copy", NEW d \in 0..sent, Undelivered(d)
  PROVE  d < sent /\ d + 1 \in 1..sent /\ d + 1 \in 1..Len(script)
<1>1. size > Header /\ Header \in Nat /\ sent \in 0..Len(script) /\ Len(script) \in Nat
  <2>1. can_read /\ sent \in 0..Len(script) /\ script \in Seq(Message)
    BY ScriptType DEF Settled, StreamTypeOK
  <2>2. Header \in Nat
    BY FrameAssumption DEF Header
  <2> QED BY <2>1, <2>2 DEF can_read
<1>2. Len(Pipe) > 0
  BY <1>1, PipeFront
<1>3. Len(Pipe) = End[sent] - End[d]
  BY DEF Undelivered, Holds
<1>4. End[sent] \in Nat
  <2>1. sent \in sent..Len(script)
    BY <1>1
  <2> QED BY <1>1, <2>1, EndGrows, ScriptType
<1>5. d # sent
  BY <1>2, <1>3, <1>4
<1> QED BY <1>1, <1>5

(* A frame that was made of a good message is cut out of the ring exactly, *)
(* and its id and data are the ones it was made of.                        *)
LEMMA HeldIsFrame ==
  ASSUME Settled, rpc = "copy", NEW d \in 0..sent, Undelivered(d), d < GoodCount
  PROVE  /\ HeldFrame = Frame(d + 1) /\ FrameLen > Header /\ HeldFits
         /\ HeldId = get_binary_string(script[d + 1].id)
         /\ HeldData = script[d + 1].data
<1> DEFINE f == Frame(d + 1)
           m == script[d + 1]
           p == get_binary_string(m.id)
           c == Contents
           L == Len(f)
<1>0. /\ d + 1 \in 1..sent /\ d + 1 \in 1..Len(script) /\ script \in Seq(Message)
      /\ LenW \in Nat \ {0} /\ Header = LenW + 1 /\ d \in Nat
  BY FrameIsThere, ScriptType, FrameAssumption DEF Header
<1>1. /\ f \in Seq(Byte) /\ p \in Seq(Byte) /\ m.data \in Seq(Byte)
      /\ Len(p) = Len(m.id) \div 2
      /\ L = Header + Len(p) + Len(m.data)
      /\ SubSeq(f, 1, LenW) = LittleEndian(L)
      /\ f[Header] = (1 + Len(p)) % Radix
      /\ SubSeq(f, Header + 1, Header + Len(p)) = p
      /\ SubSeq(f, Header + 1 + Len(p), L) = m.data
  BY <1>0, FrameIs, Zenon
<1>2. Framable(m)
  <2>1. d + 1 \in 1..GoodCount
    BY <1>0, GoodCountIs
  <2> QED BY <1>0, <2>1, GoodCountIs
<1>3. Len(p) \in Nat /\ Len(m.data) \in Nat /\ L \in Nat
  <2>1. p \in Seq(Byte) /\ m.data \in Seq(Byte) /\ f \in Seq(Byte)
    BY <1>1
  <2> HIDE DEF p, m, f
  <2> QED BY <2>1
<1>4. Shifted(L)[LenW] = 0 /\ 1 + Len(p) < Radix /\ Len(p) + Len(m.data) > 0
  BY <1>1, <1>2, Zenon DEF Framable
<1>5. /\ c \in Seq(Byte) /\ Len(c) = size /\ size \in Nat /\ Len(Pipe) \in Nat
      /\ size <= Len(Pipe) /\ \A i \in 1..size : Pipe[i] = c[i]
  BY PipeFront
<1>6. \A j \in 1..L : Pipe[j] = f[j]
  <2>1. \A j \in 1..L : Pipe[End[(d + 1) - 1] - End[d] + j] = f[j]
    BY <1>0 DEF Undelivered, Holds
  <2>2. (d + 1) - 1 = d /\ End[d] \in Nat
    <3>1. d \in 0..Len(script) /\ d \in d..Len(script) /\ (d + 1) - 1 = d
      BY <1>0
    <3> QED BY <1>0, <3>1, EndGrows
  <2>3. \A j \in 1..L : End[d] - End[d] + j = j
    BY <1>3, <2>2
  <2> QED BY <2>1, <2>2, <2>3, Zenon
<1>7. can_read /\ IInv /\ size > Header /\ size >= FrameLen
  BY DEF Settled, can_read
<1> HIDE DEF f, m, p, c, L
<1>8. L > Header /\ LenW + (1 + Len(p)) <= L
  <2> DEFINE a == Len(p)
             b == Len(m.data)
  <2>1. a \in Nat /\ b \in Nat /\ L = Header + a + b /\ a + b > 0 /\ LenW \in Nat
        /\ Header = LenW + 1
    BY <1>0, <1>1, <1>3, <1>4, Zenon
  <2> HIDE DEF a, b
  <2>2. L > Header /\ LenW + (1 + a) <= L
    BY <2>1
  <2> QED BY <2>2 DEF a
<1>9. SubSeq(c, 1, LenW) = SubSeq(f, 1, LenW)
  <2>1. LenW <= size /\ LenW <= L /\ L = Len(f)
    <3>1. LenW <= size
      BY <1>0, <1>5, <1>7
    <3>2. L > Header /\ L = Len(f)
      BY <1>8 DEF L
    <3> QED BY <1>0, <1>3, <3>1, <3>2
  <2>2. \A i \in 1..LenW : c[i] = f[i]
    <3> TAKE i \in 1..LenW
    <3>1. i \in 1..size /\ i \in 1..L
      BY <1>0, <1>3, <1>5, <2>1
    <3> QED BY <1>5, <1>6, <3>1, Zenon
  <2>3. /\ SubSeq(c, 1, LenW) \in Seq(Byte) /\ Len(SubSeq(c, 1, LenW)) = LenW
        /\ \A i \in 1..LenW : SubSeq(c, 1, LenW)[i] = c[i]
    BY <1>0, <1>5, <2>1
  <2>4. f \in Seq(Byte)
    BY <1>1
  <2>5. /\ SubSeq(f, 1, LenW) \in Seq(Byte) /\ Len(SubSeq(f, 1, LenW)) = LenW
        /\ \A i \in 1..LenW : SubSeq(f, 1, LenW)[i] = f[i]
    BY <1>0, <2>1, <2>4
  <2> QED BY <2>2, <2>3, <2>5, SameBytes
<1>10. FrameLen = L
  <2>1. size >= LenW
    BY <1>0, <1>5, <1>7
  <2>2. FrameLen = NumberOf(SubSeq(c, 1, LenW))
    BY <1>7, <2>1, FrameLenIs DEF c
  <2>3. NumberOf(LittleEndian(L)) = L
    BY <1>3, <1>4, LengthSurvives
  <2> QED BY <1>1, <1>9, <2>2, <2>3, Zenon
<1>11. HeldFrame = f
  <2>1. HeldFrame = SubSeq(c, 1, L) /\ HeldFrame \in Seq(Byte) /\ Len(HeldFrame) = L
    BY <1>10, HeldTypes DEF c
  <2>2. L <= size
    BY <1>7, <1>10
  <2>3. \A i \in 1..L : SubSeq(c, 1, L)[i] = c[i] /\ i \in 1..size
    BY <1>3, <1>5, <2>2
  <2>4. \A i \in 1..L : HeldFrame[i] = f[i]
    BY <1>5, <1>6, <2>1, <2>3, Zenon
  <2>5. f \in Seq(Byte) /\ Len(f) = L
    BY <1>1 DEF L
  <2> QED BY <2>1, <2>4, <2>5, SameBytes
<1>12. HeldFrame[Header] = 1 + Len(p)
  <2>1. (1 + Len(p)) % Radix = 1 + Len(p)
    BY <1>3, <1>4, RadixType, ModBelow
  <2> QED BY <1>1, <1>11, <2>1, Zenon
<1>13. FrameLen > Header /\ HeldFits
  <2>1. 1 + Len(p) > 0
    BY <1>3
  <2> QED BY <1>10, <1>12, <1>8, <2>1, Zenon DEF HeldFits
<1>14. LenW + (1 + Len(p)) = Header + Len(p) /\ LenW + (1 + Len(p)) + 1 = Header + 1 + Len(p)
  BY <1>0, <1>3
<1>15. HeldId = p
  BY <1>1, <1>11, <1>12, <1>14, Zenon DEF HeldId
<1>16. HeldData = m.data
  BY <1>1, <1>10, <1>11, <1>12, <1>14, Zenon DEF HeldData
<1> QED BY <1>11, <1>13, <1>15, <1>16 DEF f, m, p
-----------------------------------------------------------------------------
(* The mailboxes.                                                          *)

(* A mailbox is the one of the packed id.                                  *)
LEMMA MailboxAt == \A id : Mailbox(id) = At(get_binary_string(id))
BY DEF Mailbox, At

(* What a mailbox holds is a sequence of bytes.                            *)
LEMMA MailboxType ==
  ASSUME Settled, NEW p
  PROVE  At(p) \in Seq(Byte)
<1>1. << >> \in Seq(Byte)
  OBVIOUS
<1> QED BY <1>1 DEF At, Settled, StreamTypeOK

\* what mailbox p holds after the step
AtNext(p) == IF p \in DOMAIN mapbuffer_' THEN mapbuffer_'[p] ELSE << >>

(* A step of the system changes the mailboxes and not the script.          *)
LEMMA MailboxNext ==
  ASSUME script' = script, NEW i
  PROVE  /\ (Mailbox(script[i].id))' = AtNext(get_binary_string(script[i].id))
         /\ \A n : (DataOf(script[i].id, n))' = DataOf(script[i].id, n)
<1>1. (Mailbox(script[i].id))' = AtNext(get_binary_string(script[i].id))
  BY Zenon DEF Mailbox, AtNext
<1>2. \A n : (DataOf(script[i].id, n))' = DataOf(script[i].id, n)
  BY Zenon DEF DataOf
<1> QED BY <1>1, <1>2

(* A frame is added to the mailbox of its id, and to no other.             *)
LEMMA OneMailbox ==
  ASSUME Delivers, NEW p
  PROVE  AtNext(p) = IF p = HeldId THEN At(p) \o HeldData ELSE At(p)
<1>1. mapbuffer_' = [i \in DOMAIN mapbuffer_ \cup {HeldId} |->
                       IF i = HeldId THEN At(HeldId) \o HeldData ELSE mapbuffer_[i]]
  BY DEF Delivers
<1>2. AtNext(p) = IF p \in DOMAIN mapbuffer_' THEN mapbuffer_'[p] ELSE << >>
  BY DEF AtNext
<1>3. CASE p = HeldId
  <2>1. AtNext(p) = At(HeldId) \o HeldData
    <3> HIDE DEF At
    <3> QED BY <1>1, <1>2, <1>3, Zenon
  <2> QED BY <1>3, <2>1, Zenon
<1>4. CASE p # HeldId
  BY <1>1, <1>2, <1>4, Zenon DEF At
<1> QED BY <1>3, <1>4

(* What is in a mailbox stays there, in front of what comes later.         *)
LEMMA PrefixStays ==
  ASSUME NEW s \in Seq(Byte), NEW t \in Seq(Byte), NEW u \in Seq(Byte), IsPrefix(s, t)
  PROVE  IsPrefix(s, t \o u)
<1>1. Len(s) <= Len(t) /\ SubSeq(s, 1, Len(s)) = SubSeq(t, 1, Len(s))
  BY DEF IsPrefix
<1>2. /\ Len(s) \in Nat /\ Len(t) \in Nat /\ Len(u) \in Nat
      /\ t \o u \in Seq(Byte) /\ Len(t \o u) = Len(t) + Len(u)
  OBVIOUS
<1>3. Len(s) <= Len(t \o u)
  BY <1>1, <1>2
<1>4. SubSeq(t \o u, 1, Len(s)) = SubSeq(t, 1, Len(s))
  <2>1. /\ SubSeq(t, 1, Len(s)) \in Seq(Byte) /\ Len(SubSeq(t, 1, Len(s))) = Len(s)
        /\ \A i \in 1..Len(s) : SubSeq(t, 1, Len(s))[i] = t[i]
    BY <1>1, <1>2
  <2>2. /\ SubSeq(t \o u, 1, Len(s)) \in Seq(Byte) /\ Len(SubSeq(t \o u, 1, Len(s))) = Len(s)
        /\ \A i \in 1..Len(s) : SubSeq(t \o u, 1, Len(s))[i] = (t \o u)[i]
    BY <1>2, <1>3
  <2>3. \A i \in 1..Len(s) : (t \o u)[i] = t[i]
    BY <1>1, <1>2
  <2> DEFINE x == SubSeq(t, 1, Len(s))
             y == SubSeq(t \o u, 1, Len(s))
  <2>4. x \in Seq(Byte) /\ y \in Seq(Byte) /\ Len(x) = Len(y) /\ \A i \in 1..Len(x) : x[i] = y[i]
    BY <2>1, <2>2, <2>3, Zenon
  <2> HIDE DEF x, y
  <2>5. x = y
    BY <2>4, SameBytes
  <2> QED BY <2>5 DEF x, y
<1> QED BY <1>1, <1>3, <1>4 DEF IsPrefix

(* Every sequence begins with itself.                                      *)
LEMMA PrefixSelf ==
  ASSUME NEW s \in Seq(Byte)
  PROVE  IsPrefix(s, s)
BY DEF IsPrefix

(* read(id, data) only adds to a mailbox.                                  *)
LEMMA MailboxGrows ==
  ASSUME Settled, ReadFrame, NEW p, NEW s \in Seq(Byte), IsPrefix(s, At(p))
  PROVE  IsPrefix(s, AtNext(p))
<1>0. rpc = "copy" /\ (Delivers \/ Stays) /\ At(p) \in Seq(Byte)
  BY ReadFrameCases, MailboxType
<1>1. CASE Delivers
  <2>1. HeldData \in Seq(Byte)
    BY <1>0, <1>1, HeldTypes DEF Delivers
  <2>2. IsPrefix(s, At(p) \o HeldData)
    BY <1>0, <2>1, PrefixStays
  <2>3. AtNext(p) = IF p = HeldId THEN At(p) \o HeldData ELSE At(p)
    BY <1>1, OneMailbox
  <2> QED BY <2>2, <2>3
<1>2. CASE Stays
  <2>1. AtNext(p) = At(p)
    BY <1>2 DEF Stays, At, AtNext
  <2> QED BY <2>1
<1> QED BY <1>0, <1>1, <1>2
-----------------------------------------------------------------------------
(* The whole.                                                              *)

(* A mailbox that is not touched ...                                       *)
LEMMA ExactStays ==
  ASSUME script' = script, mapbuffer_' = mapbuffer_, NEW i, NEW d, Exact(i, d)
  PROVE  Exact(i, d)'
<1> DEFINE p == get_binary_string(script[i].id)
<1>1. (Mailbox(script[i].id))' = AtNext(p) /\ (DataOf(script[i].id, d))' = DataOf(script[i].id, d)
  BY MailboxNext
<1>2. Mailbox(script[i].id) = At(p) /\ AtNext(p) = At(p)
  BY MailboxAt DEF At, AtNext
<1> QED BY <1>1, <1>2, Zenon DEF Exact

(* What the step of an action other than read(id, data) keeps.             *)
LEMMA QuietDelivery ==
  ASSUME Settled, NEW d \in 0..sent, InOrder(d), Pipe' = Pipe,
         UNCHANGED <<script, sent, mapbuffer_, crashed>>
  PROVE  InOrder(d)'
<1>1. End' = End /\ GoodCount' = GoodCount
  BY ScriptFixed
<1>2. \A i : Frame(i)' = Frame(i)
  BY ScriptFixed
<1>3. Undelivered(d)'
  BY <1>1, <1>2 DEF InOrder, Undelivered, Holds
<1>4. \A i \in 1..GoodCount : Exact(i, d)'
  BY ExactStays DEF InOrder
<1> QED BY <1>1, <1>3, <1>4 DEF InOrder

(* Send() adds one frame to the ones on their way.                         *)
LEMMA SendDelivery ==
  ASSUME Settled, Send, NEW d \in 0..sent, InOrder(d)
  PROVE  d \in 0..sent' /\ InOrder(d)'
<1>0. /\ script' = script /\ mapbuffer_' = mapbuffer_ /\ crashed' = crashed /\ sent' = sent + 1
      /\ sent \in 0..Len(script) /\ sent < Len(script) /\ script \in Seq(Message)
  BY ScriptType DEF Send, Settled, StreamTypeOK
<1>1. End' = End /\ GoodCount' = GoodCount
  BY <1>0, ScriptFixed
<1>2. \A i : Frame(i)' = Frame(i)
  BY <1>0, ScriptFixed
<1>3. \A i \in 1..GoodCount : Exact(i, d)'
  BY <1>0, ExactStays DEF InOrder
<1>4. Pipe' = Pipe \o Frame(sent + 1) /\ Pipe \in Seq(Byte)
  BY SendPipe, PipeType
<1>5. Holds(Pipe \o Frame(sent + 1), d, sent + 1)
  <2>1. sent \in 0..(Len(script) - 1)
    BY <1>0
  <2> QED BY <1>0, <1>4, <2>1, HoldsMore DEF InOrder, Undelivered
<1>6. Undelivered(d)'
  <2>1. Holds(Pipe', d, sent')
    BY <1>0, <1>4, <1>5, Zenon
  <2> QED BY <1>1, <1>2, <2>1 DEF Undelivered, Holds
<1>7. d \in 0..sent'
  BY <1>0
<1> QED BY <1>0, <1>1, <1>3, <1>6, <1>7 DEF InOrder

(* read(id, data) puts the data of the next good message into the mailbox  *)
(* of its id, and into no other mailbox of a good message: the packing     *)
(* keeps canonical ids apart.                                              *)
LEMMA NextDelivered ==
  ASSUME Settled, rpc = "copy", Delivers, NEW d \in 0..sent, InOrder(d), d < GoodCount
  PROVE  d + 1 \in 0..sent' /\ InOrder(d + 1)'
<1>0. /\ script' = script /\ crashed' = crashed /\ sent' = sent
      /\ sent \in 0..Len(script) /\ script \in Seq(Message)
  BY ScriptType DEF Delivers, stream, Settled, StreamTypeOK
<1>1. End' = End /\ GoodCount' = GoodCount
  BY <1>0, ScriptFixed
<1>2. \A i : Frame(i)' = Frame(i)
  BY <1>0, ScriptFixed
<1>3. \A i \in 1..GoodCount : Exact(i, d)
  BY DEF InOrder
<1>4. Undelivered(d)
  BY DEF InOrder
<1>5. /\ HeldFrame = Frame(d + 1)
      /\ HeldId = get_binary_string(script[d + 1].id) /\ HeldData = script[d + 1].data
  BY <1>4, HeldIsFrame
<1>6. d \in 0..(sent - 1) /\ d + 1 \in 0..sent /\ d + 1 \in 1..Len(script) /\ (d + 1) - 1 = d
  BY <1>0, <1>4, FrameIsThere
<1>7. GoodCount \in 0..Len(script) /\ d + 1 <= GoodCount /\ d + 1 \in 1..GoodCount
  <2>1. GoodCount \in 0..Len(script)
    BY <1>0, GoodCountIs
  <2> QED BY <1>0, <1>6, <2>1
<1>8. Undelivered(d + 1)'
  <2>1. Pipe = HeldFrame \o Pipe' /\ Pipe' \in Seq(Byte)
    BY DeliverPipe
  <2>2. Holds(Frame(d + 1) \o Pipe', d, sent)
    BY <1>4, <1>5, <2>1, Zenon DEF Undelivered
  <2>3. Holds(Pipe', d + 1, sent)
    BY <1>0, <1>6, <2>1, <2>2, HoldsLess, Zenon
  <2> QED BY <1>0, <1>1, <1>2, <2>3 DEF Undelivered, Holds
<1>9. ASSUME NEW i \in 1..GoodCount
      PROVE  Exact(i, d + 1)'
  <2> DEFINE id == script[i].id
             next == script[d + 1].id
  <2>1. id \in Seq(Char) /\ next \in Seq(Char)
    <3>1. i \in 1..Len(script)
      BY <1>0, <1>7
    <3>2. script[i] \in Message /\ script[d + 1] \in Message
      BY <1>0, <1>6, <3>1
    <3> QED BY <3>2 DEF Message
  <2>2. DataOf(id, d + 1) = More(id, d + 1, DataOf(id, d))
    BY <1>0, <1>6, DataOfIs
  <2>3. At(get_binary_string(id)) = DataOf(id, d)
    BY <1>3, MailboxAt DEF Exact
  <2>4. AtNext(get_binary_string(id)) = IF get_binary_string(id) = HeldId
                                        THEN At(get_binary_string(id)) \o HeldData
                                        ELSE At(get_binary_string(id))
    BY OneMailbox
  <2>5. AtNext(get_binary_string(id)) = DataOf(id, d + 1)
    <3>1. CASE Alike(next, id)
      <4>1. get_binary_string(id) = HeldId
        BY <1>5, <3>1 DEF Alike
      <4> QED BY <1>5, <2>2, <2>3, <2>4, <3>1, <4>1 DEF More
    <3>2. CASE ~Alike(next, id)
      <4>1. get_binary_string(id) # HeldId
        BY <1>5, <2>1, <3>2, PackingInjective DEF Alike
      <4> QED BY <2>2, <2>3, <2>4, <3>2, <4>1 DEF More
    <3> QED BY <3>1, <3>2
  <2> QED BY <1>0, <2>5, MailboxNext, Zenon DEF Exact
<1> QED BY <1>0, <1>1, <1>6, <1>7, <1>8, <1>9 DEF InOrder

(* Behind the first bad message nothing is promised but that what was      *)
(* delivered stays.                                                        *)
LEMMA ReachedStays ==
  ASSUME Settled, script' = script, mapbuffer_' = mapbuffer_ \/ ReadFrame,
         NEW i \in 1..GoodCount, Reached(i)
  PROVE  Reached(i)'
<1> DEFINE p == get_binary_string(script[i].id)
           s == DataOf(script[i].id, GoodCount)
<1>1. script \in Seq(Message) /\ GoodCount' = GoodCount
  BY ScriptType, ScriptFixed
<1>2. s \in Seq(Byte)
  BY <1>1, GoodCountIs, DataOfIs
<1>3. IsPrefix(s, At(p))
  BY MailboxAt DEF Reached
<1>4. IsPrefix(s, AtNext(p))
  <2>1. CASE mapbuffer_' = mapbuffer_
    <3>1. AtNext(p) = At(p)
      BY <2>1 DEF At, AtNext
    <3> QED BY <1>3, <3>1, Zenon
  <2>2. CASE ReadFrame
    BY <1>2, <1>3, <2>2, MailboxGrows
  <2> QED BY <2>1, <2>2
<1>5. (Mailbox(script[i].id))' = AtNext(p)
  BY MailboxNext
<1>6. (DataOf(script[i].id, GoodCount))' = s
  BY <1>1, Zenon DEF DataOf
<1>7. IsPrefix((DataOf(script[i].id, GoodCount))', (Mailbox(script[i].id))')
  BY <1>4, <1>5, <1>6, Zenon
<1> QED BY <1>7 DEF Reached, IsPrefix

(* Every step keeps the order of delivery.                                 *)
LEMMA DeliveryNext ==
  ASSUME Settled, Delivery, [FrameNext]_framevars
  PROVE  Delivery'
<1> SUFFICES ASSUME ~failed' PROVE Beyond' \/ \E d \in 0..sent' : InOrder(d)'
  BY DEF Delivery
<1>0. /\ script' = script /\ ~WriteFails
      /\ mapbuffer_' = mapbuffer_ \/ ReadFrame
      /\ sent' = sent \/ Send
  BY Zenon DEF FrameNext, Sender, Send, LoopSend, Write, WriteFails, Epoll, HandleReadWrites,
               HandleRead, LoopRecv, LoopRecvWakes, ReadFrame, framevars, stream
<1>1. ~failed
  BY Zenon DEF FrameNext, Sender, Send, LoopSend, Write, WriteFails, Epoll, HandleReadWrites,
               HandleRead, LoopRecv, LoopRecvWakes, ReadFrame, framevars, stream
<1>2. GoodCount' = GoodCount /\ GoodCount \in 0..Len(script) /\ sent \in 0..Len(script)
      /\ Len(script) \in Nat
  <2>1. script \in Seq(Message)
    BY ScriptType
  <2> QED BY <1>0, <2>1, ScriptFixed, GoodCountIs DEF Settled, StreamTypeOK
<1>3. sent' = sent \/ sent' = sent + 1
  BY <1>0 DEF Send
<1>4. CASE Beyond
  <2>1. sent' > GoodCount'
    BY <1>2, <1>3, <1>4 DEF Beyond
  <2>2. \A i \in 1..GoodCount' : Reached(i)'
    BY <1>0, <1>2, <1>4, ReachedStays DEF Beyond
  <2> QED BY <2>1, <2>2 DEF Beyond
<1>5. ASSUME NEW d \in 0..sent, InOrder(d)
      PROVE  Beyond' \/ \E e \in 0..sent' : InOrder(e)'
  <2>1. CASE Send
    <3>1. d \in 0..sent' /\ InOrder(d)'
      BY <1>5, <2>1, SendDelivery
    <3> QED BY <3>1, Zenon
  <2>2. CASE \/ LoopSend \/ \E k \in 1..Len(chunk) : Write(k)
             \/ Epoll
             \/ LoopRecvWakes
             \/ UNCHANGED framevars
    <3>1. UNCHANGED <<script, sent, mapbuffer_, crashed>>
      BY <2>2 DEF LoopSend, Write, Epoll, HandleRead, HandleReadWrites, LoopRecvWakes,
                  framevars, stream
    <3>2. LoopRecvWakes \/ UNCHANGED framevars
            => UNCHANGED <<ring, writer, wire, chunk, send_buffer_>>
      BY DEF LoopRecvWakes, framevars, vars, stream
    <3>3. Pipe' = Pipe
      BY <2>2, <3>2, MovePipe
    <3>4. InOrder(d)'
      BY <1>5, <3>1, <3>3, QuietDelivery
    <3> QED BY <3>1, <3>4
  <2>3. CASE ReadFrame
    <3>0. rpc = "copy" /\ (Delivers \/ Stays) /\ Undelivered(d) /\ d <= GoodCount
      BY <1>5, <2>3, ReadFrameCases DEF InOrder
    <3>1. d < sent
      BY <3>0, FrameIsThere
    <3>2. CASE d < GoodCount
      <4>1. CASE Delivers
        <5>1. d + 1 \in 0..sent' /\ InOrder(d + 1)'
          BY <1>5, <3>0, <3>2, <4>1, NextDelivered
        <5> QED BY <5>1, Zenon
      <4>2. CASE Stays
        <5>1. HeldFits
          BY <3>0, <3>2, HeldIsFrame
        <5>2. UNCHANGED <<script, sent, mapbuffer_, crashed>>
          BY <4>2, <5>1, Zenon DEF Stays, stream
        <5>3. UNCHANGED <<ring, writer, wire, chunk, send_buffer_>>
          BY <4>2 DEF Stays, stream
        <5>4. InOrder(d)'
          BY <1>5, <5>2, <5>3, MovePipe, QuietDelivery
        <5> QED BY <5>2, <5>4
      <4> QED BY <3>0, <4>1, <4>2
    <3>3. CASE ~(d < GoodCount)
      <4>1. d = GoodCount /\ sent' = sent
        BY <1>2, <2>3, <3>0, <3>3 DEF ReadFrame, stream
      <4>2. \A i \in 1..GoodCount : Reached(i)
        <5> TAKE i \in 1..GoodCount
        <5>1. Mailbox(script[i].id) = DataOf(script[i].id, GoodCount)
          BY <1>5, <4>1 DEF InOrder, Exact
        <5>2. Mailbox(script[i].id) \in Seq(Byte)
          BY MailboxAt, MailboxType
        <5> QED BY <5>1, <5>2, PrefixSelf DEF Reached
      <4>3. \A i \in 1..GoodCount' : Reached(i)'
        BY <1>0, <1>2, <4>2, ReachedStays
      <4>4. sent' > GoodCount'
        BY <1>2, <3>1, <4>1
      <4> QED BY <4>3, <4>4 DEF Beyond
    <3> QED BY <3>2, <3>3
  <2> QED BY <1>0, <2>1, <2>2, <2>3, Zenon DEF FrameNext, Sender, LoopRecv
<1> QED BY <1>1, <1>4, <1>5, Zenon DEF Delivery

(* At the start nothing is on its way and nothing is in a mailbox.         *)
LEMMA DeliveryInit == FrameInit => Delivery
<1> SUFFICES ASSUME FrameInit PROVE InOrder(0) /\ 0 \in 0..sent
  BY Zenon DEF Delivery
<1>0. Settled /\ script \in Seq(Message)
  BY SettledInit, ScriptType
<1>1. /\ sent = 0 /\ send_buffer_ = << >> /\ chunk = << >> /\ wire = << >> /\ wdata = << >>
      /\ mapbuffer_ = << >> /\ ~crashed
  BY DEF FrameInit, Init
<1>2. Contents = << >>
  <2>1. size = 0
    BY SizeAssumption DEF FrameInit, Init, size
  <2> QED BY <2>1 DEF Contents
<1>3. Len(Pipe) = 0
  <2>1. Pipe = (((<< >> \o << >>) \o << >>) \o << >>) \o << >>
    BY <1>1, <1>2, Zenon DEF Pipe
  <2> QED BY <2>1
<1>4. End[0] = 0
  BY <1>0, EndIs
<1>5. Undelivered(0)
  <2>1. (0 + 1)..0 = {} /\ End[0] - End[0] = 0
    BY <1>4
  <2> QED BY <1>1, <1>3, <2>1 DEF Undelivered, Holds
<1>6. GoodCount \in Nat
  BY <1>0, GoodCountIs
<1>7. \A i \in 1..GoodCount : Exact(i, 0)
  <2> TAKE i \in 1..GoodCount
  <2>1. DataOf(script[i].id, 0) = << >>
    BY <1>0, DataOfIs
  <2>2. Mailbox(script[i].id) = << >>
    <3>1. DOMAIN << >> = {}
      OBVIOUS
    <3> QED BY <1>1, <3>1, Zenon DEF Mailbox
  <2> QED BY <2>1, <2>2 DEF Exact
<1> QED BY <1>1, <1>5, <1>6, <1>7 DEF InOrder

(* The order of delivery is an invariant.                                  *)
LEMMA DeliveryAlways == FrameSpec => []Delivery
<1>1. Settled /\ Delivery /\ [FrameNext]_framevars => Delivery'
  BY DeliveryNext
<1> QED BY <1>1, DeliveryInit, SettledAlways, PTL DEF FrameSpec

(* What a mailbox holds is what was sent under its id, whole messages in   *)
(* the order of sending: for every script, every ring, every way to cut    *)
(* the bytes into pieces.  Only a failed write or a message whose id does  *)
(* not survive the packing, or whose length does not fit the header, can   *)
(* break that, and the latter only for the messages sent after it.         *)
THEOREM MailboxesAreExact == FrameSpec => []MailboxesExact
<1>1. Delivery => MailboxesExact
  <2> SUFFICES ASSUME Delivery, ~failed, NEW i \in 1..GoodCount
               PROVE  \/ \E n \in 0..sent : /\ n <= GoodCount
                                            /\ Mailbox(script[i].id) = DataOf(script[i].id, n)
                      \/ /\ sent > GoodCount
                         /\ IsPrefix(DataOf(script[i].id, GoodCount), Mailbox(script[i].id))
    BY Zenon DEF MailboxesExact
  <2>1. CASE Beyond
    BY <2>1, Zenon DEF Beyond, Reached
  <2>2. CASE \E d \in 0..sent : InOrder(d)
    BY <2>2, Zenon DEF InOrder, Exact
  <2> QED BY <2>1, <2>2, Zenon DEF Delivery
<1> QED BY <1>1, DeliveryAlways, PTL

(* loop_recv meets a header it cannot read only behind a failed write or   *)
(* behind a bad message.                                                   *)
THEOREM NeverCrashes == FrameSpec => []NoCrash
<1>1. Delivery => NoCrash
  BY Zenon DEF Delivery, Beyond, InOrder, NoCrash
<1> QED BY <1>1, DeliveryAlways, PTL
=============================================================================
