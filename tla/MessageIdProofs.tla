-------------------------- MODULE MessageIdProofs --------------------------
(***************************************************************************)
(* What the packing of message ids keeps, for every width of a hex digit:  *)
(* two different canonical ids are packed into two different byte strings, *)
(* so they never share a mailbox.  For ids that are not canonical there is *)
(* no such theorem: get_binary_string maps "0A" and "0a" to the same byte. *)
(***************************************************************************)
EXTENDS MessageId, TLAPS

(* A number below the modulus is its own remainder, and its quotient is 0. *)
LEMMA SmallDivMod ==
  ASSUME NEW x \in Nat, NEW n \in Nat \ {0}, x < n
  PROVE  x % n = x /\ x \div n = 0
OBVIOUS

(* Two digits are read back from the number they form.                     *)
LEMMA TwoDigits ==
  ASSUME NEW n \in Nat \ {0}, NEW a \in 0..(n - 1), NEW b \in 0..(n - 1),
         NEW c \in 0..(n - 1), NEW d \in 0..(n - 1),
         a * n + b = c * n + d
  PROVE  a = c /\ b = d
<1>1. ASSUME NEW x \in 0..(n - 1), NEW y \in 0..(n - 1), x < y
      PROVE  x * n + n <= y * n
  <2>1. (y - x) * n >= n
    BY <1>1
  <2>2. (y - x) * n = y * n - x * n
    OBVIOUS
  <2>3. x * n \in Nat /\ y * n \in Nat
    OBVIOUS
  <2> QED BY <2>1, <2>2, <2>3
<1>2. ~(a < c)
  BY <1>1
<1>3. ~(c < a)
  BY <1>1
<1> QED BY <1>2, <1>3

(* Two digits fit into a byte.                                             *)
LEMMA TwoDigitsFit ==
  ASSUME NEW n \in Nat \ {0}, NEW a \in 0..(n - 1), NEW b \in 0..(n - 1)
  PROVE  a * n + b \in Nat /\ a * n + b < n * n
<1>1. a * n <= (n - 1) * n
  OBVIOUS
<1>2. (n - 1) * n = n * n - n
  OBVIOUS
<1>3. a * n \in Nat /\ n * n \in Nat
  OBVIOUS
<1> QED BY <1>1, <1>2, <1>3

Hex(c) == c \in Char /\ c[1] \in {"digit", "lower"} /\ get_hex_index(c) < Nibble

(* A hex digit of the one case has an index of its own.                    *)
LEMMA HexIndex ==
  ASSUME NEW c, Hex(c)
  PROVE  get_hex_index(c) \in 0..(Nibble - 1)
BY IdAssumption DEF Hex, Char, get_hex_index

LEMMA HexIndexInjective ==
  ASSUME NEW c, NEW d, Hex(c), Hex(d), get_hex_index(c) = get_hex_index(d)
  PROVE  c = d
<1> DEFINE x == c[2]
           y == d[2]
<1>1. c = <<c[1], x>> /\ d = <<d[1], y>>
  BY DEF Hex, Char
<1>2. /\ x \in Nat /\ y \in Nat /\ Digits \in Nat
      /\ c[1] = "digit" => x < Digits
      /\ d[1] = "digit" => y < Digits
      /\ c[1] = "digit" \/ c[1] = "lower"
      /\ d[1] = "digit" \/ d[1] = "lower"
  BY IdAssumption DEF Hex, Char
<1>3. /\ c[1] = "digit" => get_hex_index(c) = x
      /\ d[1] = "digit" => get_hex_index(d) = y
      /\ c[1] = "lower" => get_hex_index(c) = Digits + x
      /\ d[1] = "lower" => get_hex_index(d) = Digits + y
  BY DEF get_hex_index
<1> HIDE DEF x, y
<1>4. x = y /\ c[1] = d[1]
  BY <1>2, <1>3
<1> QED BY <1>1, <1>4

(* get_char of two hex digits is the number they form: nothing is lost in  *)
(* the shift, the bitwise or and the cut to a char.                        *)
LEMMA HexByte ==
  ASSUME NEW c, NEW d, Hex(c), Hex(d)
  PROVE  get_char(c, d) = get_hex_index(c) * Nibble + get_hex_index(d)
<1> DEFINE h1 == get_hex_index(c)
           h2 == get_hex_index(d)
<1>1. h1 \in 0..(Nibble - 1) /\ h2 \in 0..(Nibble - 1) /\ Nibble \in Nat \ {0}
  BY HexIndex, IdAssumption
<1> HIDE DEF h1, h2
<1>2. h2 \div Nibble = 0
  BY <1>1, SmallDivMod
<1>3. CommonBits(h1, 0) = 0
  BY DEF CommonBits
<1>4. h1 * Nibble + h2 \in Nat /\ h1 * Nibble + h2 < Nibble * Nibble
  BY <1>1, TwoDigitsFit
<1>5. (h1 * Nibble + h2) % (Nibble * Nibble) = h1 * Nibble + h2
  <2>1. Nibble * Nibble \in Nat \ {0}
    BY <1>1, <1>4
  <2> QED BY <2>1, <1>4, SmallDivMod
<1>6. h1 * Nibble + h2 - Nibble * CommonBits(h1, h2 \div Nibble) = h1 * Nibble + h2
  <2>1. CommonBits(h1, h2 \div Nibble) = 0
    BY <1>2, <1>3, Zenon
  <2>2. h1 * Nibble \in Nat /\ Nibble * 0 = 0
    BY <1>1
  <2> QED BY <1>1, <2>1, <2>2
<1> QED BY <1>5, <1>6 DEF get_char, Radix, h1, h2

(* Two canonical message ids that are packed into the same bytes are the   *)
(* same id.                                                                *)
THEOREM PackingInjective ==
  ASSUME NEW s \in Seq(Char), NEW t \in Seq(Char), Canonical(s), Canonical(t),
         get_binary_string(s) = get_binary_string(t)
  PROVE  s = t
<1>1. /\ \A i \in 1..Len(s) : Hex(s[i])
      /\ \A i \in 1..Len(t) : Hex(t[i])
  BY DEF Canonical, Hex
<1>2. /\ Len(s) \in Nat /\ Len(t) \in Nat
      /\ Len(s) = 2 * (Len(s) \div 2) /\ Len(t) = 2 * (Len(t) \div 2)
  BY DEF Canonical
<1>3. Len(s) = Len(t)
  <2>1. DOMAIN get_binary_string(s) = 1..(Len(s) \div 2)
    BY DEF get_binary_string
  <2>2. DOMAIN get_binary_string(t) = 1..(Len(t) \div 2)
    BY DEF get_binary_string
  <2>3. 1..(Len(s) \div 2) = 1..(Len(t) \div 2)
    BY <2>1, <2>2
  <2> QED BY <2>3, <1>2
<1>4. ASSUME NEW i \in 1..(Len(s) \div 2)
      PROVE  s[2 * i - 1] = t[2 * i - 1] /\ s[2 * i] = t[2 * i]
  <2>1. get_char(s[2 * i - 1], s[2 * i]) = get_char(t[2 * i - 1], t[2 * i])
    BY <1>3 DEF get_binary_string
  <2>2. 2 * i - 1 \in 1..Len(s) /\ 2 * i \in 1..Len(s)
    BY <1>2
  <2>3. Hex(s[2 * i - 1]) /\ Hex(s[2 * i]) /\ Hex(t[2 * i - 1]) /\ Hex(t[2 * i])
    BY <1>1, <1>3, <2>2
  <2>4. /\ get_hex_index(s[2 * i - 1]) = get_hex_index(t[2 * i - 1])
        /\ get_hex_index(s[2 * i]) = get_hex_index(t[2 * i])
    <3> DEFINE w == get_hex_index(s[2 * i - 1])
               x == get_hex_index(s[2 * i])
               y == get_hex_index(t[2 * i - 1])
               z == get_hex_index(t[2 * i])
    <3>1. w * Nibble + x = y * Nibble + z
      BY <2>1, <2>3, HexByte
    <3>2. /\ w \in 0..(Nibble - 1) /\ x \in 0..(Nibble - 1)
          /\ y \in 0..(Nibble - 1) /\ z \in 0..(Nibble - 1)
          /\ Nibble \in Nat \ {0}
      BY <2>3, HexIndex, IdAssumption
    <3> HIDE DEF w, x, y, z
    <3>3. w = y /\ x = z
      BY <3>1, <3>2, TwoDigits
    <3> QED BY <3>3 DEF w, x, y, z
  <2> QED BY <2>3, <2>4, HexIndexInjective
<1>5. ASSUME NEW j \in 1..Len(s) PROVE s[j] = t[j]
  <2>1. CASE j % 2 = 0
    <3>1. j = 2 * (j \div 2) /\ j \div 2 \in 1..(Len(s) \div 2)
      BY <2>1, <1>2
    <3> QED BY <3>1, <1>4
  <2>2. CASE j % 2 = 1
    <3>1. j = 2 * (j \div 2 + 1) - 1 /\ j \div 2 + 1 \in 1..(Len(s) \div 2)
      BY <2>2, <1>2
    <3> QED BY <3>1, <1>4
  <2> QED BY <2>1, <2>2
<1> QED BY <1>3, <1>5
=============================================================================
