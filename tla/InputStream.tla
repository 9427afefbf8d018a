------------------------------ MODULE InputStream -----------------------------
(***************************************************************************)
(* What an input stream promises to the client that reads it: the          *)
(* characters of its source, in order, without gaps or repetitions, and    *)
(* the end only when there are no more.  Module Ibuf implements it.        *)
(***************************************************************************)
EXTENDS Spans

CONSTANTS
    Source,    \* what the device has to give
    Hole       \* what the client's memory holds before it is read into

VARIABLES
    got,       \* what the client has read, by position
    taken,     \* how much it has read
    told,      \* the client was told that it reached the end
    broken     \* nothing is promised any more

iVars == <<got, taken, told, broken>>

Blank == [i \in 1..Len(Source) |-> Hole]

StreamInit ==
    /\ got = Blank
    /\ taken = 0
    /\ told = FALSE
    /\ broken = FALSE

\* A call reads the next characters, and may notice the end after them.
Take(n) ==
    /\ ~broken /\ ~broken'
    /\ taken' = taken + n
    /\ got' = Copy(got, taken, Source, taken, taken + n)
    /\ told' => taken' = Len(Source)

Break == broken'

StreamNext ==
    \/ \E n \in 0..(Len(Source) - taken) : Take(n)
    \/ Break

StreamSpec == StreamInit /\ [][StreamNext]_iVars
===============================================================================
