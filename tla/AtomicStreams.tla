----------------------------- MODULE AtomicStreams -----------------------------
(***************************************************************************)
(* What threads that share mutex streams may rely on: every print, scan    *)
(* and transmit takes effect in one step.  What one call writes stands     *)
(* together, what it reads is consecutive, and it is all there unless the  *)
(* call threw.  A call that threw may have taken something that it did not *)
(* deliver, or delivered something that it did not take, which the next    *)
(* call then reads again: at most what one read of the device gave.        *)
(* Module MutexStream implements it.                                       *)
(***************************************************************************)
EXTENDS Integers, Sequences

CONSTANTS
    Thread,    \* threads; also the names of what they have scanned
    Stream,
    Length,    \* how much each stream has to read
    Buffered,  \* the streams that are read through a block
    Room,      \* bound: how much one read of a device gives
    Calls      \* the calls that threads make

VARIABLES
    log,       \* what was written to each stream, and what each thread scanned
    taken,     \* how much of each stream was read
    threw      \* the last call of the thread threw

aVars == <<log, taken, threw>>

\* The first m arguments of a print of thread t; the last one of a call that
\* threw may be there in part.
Pieces(t, m) == [k \in 1..m |-> [by |-> t, part |-> k]]

\* m characters, or fields, of stream s after the first p.
Fields(s, p, m) == [k \in 1..m |-> [from |-> s, at |-> p + k]]

AtomicInit ==
    /\ log = [x \in Stream \cup Thread |-> <<>>]
    /\ taken = [s \in Stream |-> 0]
    /\ threw = [t \in Thread |-> FALSE]

PrintAll(t, c) ==
    \E m \in 0..c.n :
        /\ log' = [log EXCEPT ![c.out] = @ \o Pieces(t, m)]
        /\ threw'[t] \/ m = c.n
        /\ UNCHANGED taken

Ahead(s) == Length[s] - taken[s]

\* m of the fields of stream s go to x, and n are taken.
Pass(s, x, m, n) ==
    /\ log' = [log EXCEPT ![x] = @ \o Fields(s, taken[s], m)]
    /\ taken' = [taken EXCEPT ![s] = @ + n]

\* A scan that throws may have taken a field without a result.
Scan(t, c) ==
    \E m, n \in 0..Ahead(c.in) :
        /\ m <= c.n
        /\ Pass(c.in, t, m, n)
        /\ \/ m = c.n /\ n = m
           \/ threw'[t] /\ n \in {m, m + 1}

\* A transmit that throws repeats later what it has written of a block, and
\* loses what it has read into an array.
Transmit(t, c) ==
    \E m, n \in 0..Ahead(c.in) :
        /\ Pass(c.in, c.out, m, n)
        /\ \/ m = Ahead(c.in) /\ n = m
           \/ threw'[t] /\ IF c.in \in Buffered THEN n <= m /\ m <= n + Room
                           ELSE m <= n /\ n <= m + Room

AtomicNext ==
    \E t \in Thread, c \in Calls :
        /\ \/ c.op = "print" /\ PrintAll(t, c)
           \/ c.op = "scan" /\ Scan(t, c)
           \/ c.op = "transmit" /\ Transmit(t, c)
        /\ threw' \in {[threw EXCEPT ![t] = b] : b \in BOOLEAN}

AtomicSpec == AtomicInit /\ [][AtomicNext]_aVars
===============================================================================
