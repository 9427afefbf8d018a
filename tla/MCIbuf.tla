-------------------------------- MODULE MCIbuf --------------------------------
(***************************************************************************)
(* Ibuf for TLC: a block of three characters, a source of three blocks     *)
(* with a newline inside and one at the end, and requests on both sides of *)
(* every length test of ibuf_read.                                         *)
(***************************************************************************)
EXTENDS Ibuf

CONSTANTS x, y, nl

MCSource == <<x, y, nl, y, x, x, y, x, nl>>

\* What follows the first gap is left out.
NoGap == ~gap
===============================================================================
