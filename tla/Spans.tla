-------------------------------- MODULE Spans --------------------------------
(***************************************************************************)
(* Character ranges.  A block, a text and a file are functions on 1..n, and *)
(* a pointer into one of them is the number of characters before it, so the *)
(* range [src + a, src + b) holds the entries a + 1 .. b.                   *)
(***************************************************************************)
EXTENDS Integers, Sequences

\* dst with the range [src + a, src + b) copied to dst + p (std::copy_n, and
\* what a device does with the range it is given).  What would land beyond dst
\* is dropped.
Copy(dst, p, src, a, b) ==
    [i \in DOMAIN dst |->
        IF p < i /\ i <= p + (b - a) THEN src[i - p + a] ELSE dst[i]]

\* n copies of ch (details::my_fill_n).
Run(ch, n) == [i \in 1..n |-> ch]
===============================================================================
