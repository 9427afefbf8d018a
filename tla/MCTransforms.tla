----------------------------- MODULE MCTransforms -----------------------------
(* Texts with ordinary characters, line ends and a carriage return of their own. *)
EXTENDS Transforms
MCTexts == {<<"x", "nl", "x", "cr", "x">>, <<"cr", "x", "nl", "nl">>}
===============================================================================
