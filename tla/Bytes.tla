-------------------------------- MODULE Bytes --------------------------------
(***************************************************************************)
(* Bytes and their bits, and the exclusive or of symbolic records, for the *)
(* modules of DPF-PIR.  A record, or a word of bits, is the set of what it *)
(* is the sum of; exclusive or is the symmetric difference.                *)
(***************************************************************************)
EXTENDS Integers

Byte == 0 .. 255
Lane == 0 .. 7       \* the bits of a byte

a ## b == (a \ b) \cup (b \ a)

Bit(v, k) == (v \div 2^k) % 2

\* The weights of the bits of a byte.
ASSUME PowersOfTwo ==
    /\ 2^0 = 1 /\ 2^1 = 2 /\ 2^2 = 4 /\ 2^3 = 8
    /\ 2^4 = 16 /\ 2^5 = 32 /\ 2^6 = 64 /\ 2^7 = 128
=============================================================================
