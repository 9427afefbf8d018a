-------------------------------- MODULE MCObuf --------------------------------
(***************************************************************************)
(* Obuf for TLC: a block of two characters, texts on both sides of every   *)
(* length test of obuf_write (shorter than what is free, exactly that, up  *)
(* to a block more, longer than that), counts that make fill_nc_bad_path   *)
(* loop zero, one and two times.                                           *)
(***************************************************************************)
EXTENDS Obuf

CONSTANTS a, b

MCTexts == {<<b>>, <<b, a>>, <<a, b, b>>}

\* What follows the first lost or repeated characters is left out.
Intact == fault = "none"
===============================================================================
