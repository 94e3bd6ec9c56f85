--------------------------- MODULE MCCycleBuffer ---------------------------
(* A ring of 2 bytes that may grow to 4 and to 6 bytes, operations of up   *)
(* to 2 bytes.  The two byte values are interchangeable and every property *)
(* of this run is a safety property, so the symmetry is sound.             *)
EXTENDS CycleBuffer, TLC

ByteSymmetry == Permutations(Byte)
=============================================================================
