--------------------------------- MODULE Words ---------------------------------
(***************************************************************************)
(* Unsigned machine words that wrap around, and their halves, for the      *)
(* number classes of fast_io: 64-bit words of 32-bit halves in natural     *)
(* (fast_io_freestanding_impl/natural.h), any word in                      *)
(* basic_unsigned_extension (fast_io_core_impl/unsigned_extension.h).      *)
(***************************************************************************)
EXTENDS Integers, Sequences, SequencesExt

CONSTANT HalfBits    \* the bits of half a word

ASSUME HalfBitsAssumption == HalfBits \in Nat \ {0}

Bits == 2 * HalfBits
Half == 2 ^ HalfBits
Word == Half * Half
WordSet == 0 .. (Word - 1)

Sum(v, e) == IF v + e < Word THEN v + e ELSE v + e - Word
Diff(v, e) == IF e <= v THEN v - e ELSE v - e + Word
LowHalf(v) == v % Half
HighHalf(v) == v \div Half

\* The carry and borrow tests of the code, on the result of an addition to v
\* and of a subtraction from v.
Carried(v, sum) == IF sum < v THEN 1 ELSE 0
Borrowed(v, difference) == IF v <= difference THEN 1 ELSE 0

\* v<<n and v>>n with n below Bits.
Shl(v, n) == (v * 2 ^ n) % Word
Shr(v, n) == v \div 2 ^ n

\* Bit by bit.
Bitwise2(Op(_, _), u, v) ==
    MapThenSumSet(LAMBDA n : IF Op((u \div 2 ^ n) % 2 = 1, (v \div 2 ^ n) % 2 = 1)
                             THEN 2 ^ n ELSE 0, 0 .. (Bits - 1))
Or(u, v) == Bitwise2(LAMBDA p, q : p \/ q, u, v)
And(u, v) == Bitwise2(LAMBDA p, q : p /\ q, u, v)
Xor(u, v) == Bitwise2(LAMBDA p, q : p # q, u, v)

Count(k) == [i \in 1 .. k |-> i]
CountDown(k) == [i \in 1 .. k |-> k + 1 - i]
Zeros(k) == [i \in 1 .. k |-> 0]
===============================================================================
