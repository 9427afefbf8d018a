----------------------------- MODULE MCPosixFile ------------------------------
(***************************************************************************)
(* PosixFile for TLC: three descriptors for three files and two handles, so*)
(* that the table fills up and numbers are used again.                     *)
(***************************************************************************)
EXTENDS PosixFile, TLC

CONSTANTS f1, f2, f3, h1, h2, d1, d2, d3

Alike == Permutations({f1, f2, f3}) \cup Permutations({h1, h2}) \cup Permutations({d1, d2, d3})

\* What follows the first harm is left out.
Unharmed == ~harmed
===============================================================================
