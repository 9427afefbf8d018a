------------------------------ MODULE FileStream ------------------------------
(***************************************************************************)
(* What an unbuffered fast_io output device promises: a content, a file    *)
(* offset, writes at the offset that advance it, and seeks that move it.   *)
(* It is the abstract specification that a buffered stream (module Obuf)   *)
(* implements: a client must not be able to tell the two apart by looking  *)
(* at the file and at what is still buffered.                              *)
(***************************************************************************)
EXTENDS Spans

CONSTANTS
    Hole,      \* what a file holds where nothing was ever written
    Limit,     \* bound: the largest file offset a run reaches
    Pieces,    \* what a call may hand over: a set of texts
    Seeks      \* the offsets a client seeks to

VARIABLES
    content,   \* what the file holds, one entry per index of 1..Limit
    at,        \* the file offset
    broken     \* the stream promises nothing any more

sVars == <<content, at, broken>>

StreamInit ==
    /\ content = [i \in 1..Limit |-> Hole]
    /\ at = 0
    /\ broken = FALSE

\* A call hands over a text, of which the stream takes the first n characters.
Take(s, n) ==
    /\ ~broken /\ ~broken'
    /\ content' = Copy(content, at, s, 0, n)
    /\ at' = at + n

MoveTo(p) ==
    /\ ~broken /\ ~broken'
    /\ at' = p
    /\ UNCHANGED content

\* Nothing is said of a broken stream, except that it stays broken.
Break == broken'

\* The stream takes all of the text, or less of it when the device throws.
StreamNext ==
    \/ \E s \in Pieces : \E n \in 0..Len(s) : Take(s, n)
    \/ \E p \in Seeks : MoveTo(p)
    \/ Break

StreamSpec == StreamInit /\ [][StreamNext]_sVars
===============================================================================
