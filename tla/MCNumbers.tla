------------------------------ MODULE MCNumbers ------------------------------
(* Numbers with words of four bits, in bases two to four. *)
EXTENDS Numbers

MCTypes ==
    {[size |-> 2 ^ w, narrow |-> 0, base |-> b] : w \in {4, 6}, b \in 2 .. 4}
        \cup {[size |-> 2 ^ 13, narrow |-> 0, base |-> b] : b \in 3 .. 4}
        \cup {[size |-> 2 ^ 10, narrow |-> 2 ^ 5, base |-> b] : b \in 3 .. 4}
        \cup {[size |-> 2 ^ 29, narrow |-> 2 ^ 15, base |-> 3]}

\* Formats of five bits of mantissa and exponent: every number of them is printed.
Mini(kind, mb) ==
    [kind |-> kind, mb |-> mb, eb |-> 5, d10 |-> 3, log5 |-> 2, bound |-> 12, minExp |-> -6, maxExp |-> 5]
MCFormats == {Mini("float", 5), Mini("double", 5), Mini("long double", 6)}
MCIntegerFormat == [Mini("double", 20) EXCEPT !.eb = 6]
MCIntegers ==
    {d * 10 ^ k : d \in {1, 2, 9, 10, 12, 99, 100, 123, 1234}, k \in 0 .. 5} \cap 1 .. 2 ^ 20

\* Texts with more digits than the format keeps, halves, and exponents at the limits of the
\* format and of the exponent's type.
MCSignificands ==
    BoundedSeq({0, 5}, 5) \cup {Decimal(n) : n \in {4 * i + 1 : i \in 0 .. 24} \cup {91 + 18 * i : i \in 1 .. 50}}
MCFractions == {<<>>, <<Point>>, <<Point, 5>>, <<Point, 0, 5>>, <<Point, 5, 0>>, <<Point, 5, Point>>}
MCExponents ==
    {<<>>, <<SmallE>>, <<SmallE, Minus>>}
        \cup {ExponentText(SmallE, n) : n \in (-10 .. 6) \cup {511, -511, 512, 600, 999}}
\* Ciphers of four bits, aes with bytes modulo x^4 + x + 1.
MCTurns == <<3, 1>>
MCSeeds == <<11, 9>>
MCSBox == [b \in 0 .. 15 |-> <<12, 5, 6, 11, 9, 0, 10, 13, 3, 14, 15, 8, 4, 7, 1, 2>>[b + 1]]
MCAesWords == {<<0, 0, 0, 0>>, <<1, 2, 3, 4>>, <<15, 7, 9, 4>>, <<5, 5, 5, 5>>}
==============================================================================
