----------------------------- MODULE MCObufMove -------------------------------
(***************************************************************************)
(* ObufMove for TLC: three streams over two files and three descriptors,   *)
(* blocks of one character, so that two characters in one stream make it   *)
(* write.                                                                  *)
(***************************************************************************)
EXTENDS ObufMove, TLC

CONSTANTS s1, s2, s3, b1, b2, b3, d1, d2, x, y, z

Alike ==
    Permutations({s1, s2, s3}) \cup Permutations({b1, b2, b3})
    \cup Permutations({d1, d2}) \cup Permutations({x, y, z})

\* What follows a leak is left out.
Tight == ~leaked
===============================================================================
