----------------------------- MODULE MessageId -----------------------------
(***************************************************************************)
(* get_binary_string (io_channel_impl.cpp): TCPChannel packs the id of a   *)
(* message, two hex digits to a byte, before it is sent or waited for.     *)
(* Nothing tells a caller what an id must look like for that to be safe.   *)
(*                                                                         *)
(* A character is <<class, n>>: the n-th digit, upper or lower case        *)
(* letter, or one of the others.                                           *)
(***************************************************************************)
EXTENDS Integers, Sequences

CONSTANTS Nibble,     \* the values of a hex digit: 16
          Digits      \* the digits before the letter a: 10

ASSUME IdAssumption == Nibble \in Nat \ {0} /\ Digits \in 1..Nibble

Radix == Nibble * Nibble

Char == { c \in {"digit", "upper", "lower", "other"} \X Nat : c[1] = "digit" => c[2] < Digits }

get_hex_index(c) ==
  CASE c[1] = "digit" -> c[2]
    [] c[1] \in {"upper", "lower"} -> Digits + c[2]
    [] OTHER -> 0

\* the bits x and y have in common; y is the second digit's excess over a
\* nibble, 35 / 16 at most
CommonBits(x, y) ==
  (IF y % 2 = 1 THEN x % 2 ELSE 0) + (IF y \div 2 = 1 THEN 2 * ((x \div 2) % 2) ELSE 0)

\* Bug: the first digit is not shifted
get_charFlat(c1, c2) == (get_hex_index(c1) + get_hex_index(c2)) % Radix

\* h1 << 4 | h2, cut to a char
get_char(c1, c2) ==
  LET h1 == get_hex_index(c1)
      h2 == get_hex_index(c2)
  IN  (h1 * Nibble + h2 - Nibble * CommonBits(h1, h2 \div Nibble)) % Radix

\* of an odd length the last character is packed with the NUL behind it, and
\* written behind the end of the result
get_binary_string(s) == [i \in 1..(Len(s) \div 2) |-> get_char(s[2 * i - 1], s[2 * i])]
-----------------------------------------------------------------------------
\* an id the packing keeps: hex digits, of one case, two to a byte
Canonical(id) ==
  /\ Len(id) % 2 = 0
  /\ \A i \in 1..Len(id) : id[i][1] \in {"digit", "lower"} /\ get_hex_index(id[i]) < Nibble
=============================================================================
