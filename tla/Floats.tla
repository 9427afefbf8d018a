-------------------------------- MODULE Floats ---------------------------------
(***************************************************************************)
(* Binary floating point formats, the arithmetic of the Ryu algorithm in   *)
(* fast_io (fast_io_freestanding_impl/floating_point/ryu), which keeps a   *)
(* number as bits and multiplies by tables of powers of five, and what is  *)
(* printed with it: the shortest text, and a text of a given precision.    *)
(* Reading such a number (sto.h): input_floating gathers a significand of  *)
(* at most d10 digits and a power of ten from a text and rounds them to    *)
(* bits.  And a caller that prints and reads them.                         *)
(*                                                                         *)
(* A format f is a record with mb and eb, the bits of mantissa and         *)
(* exponent, d10, the decimal digits that tell its numbers apart, and the  *)
(* limits log5, bound, minExp and maxExp of floating_traits; kind is       *)
(* "float", "double" or "long double".  The products with a table's entry  *)
(* are exact here.                                                         *)
(***************************************************************************)
EXTENDS TextConversions, Words

CONSTANT ExponentSize   \* the values of exponent_type (2^32)

ASSUME ExponentSizeAssumption == ExponentSize \in Nat \ {0}

\* The characters of a number's text that are no digits, and the two words.
Point == -4
PlusSign == -5
SmallE == -6
LargeE == -7
LargeA == -8
InfWord == -9
NanWord == -10

\* floating_traits
Bias(f) == 2 ^ (f.eb - 1) - 1
ExponentMax(f) == 2 ^ f.eb - 1

\* The significand and the power of two of a number, and those of a quarter of it,
\* from its bits.  A long double has all the bits of its significand.
Leading(f, x) == IF x.exponent # 0 /\ f.kind # "long double" THEN 2 ^ f.mb ELSE 0
AtLeast1(exponent) == IF exponent = 0 THEN 1 ELSE exponent
InitRep(f, x) ==
    [m |-> Leading(f, x) + x.mantissa, e |-> AtLeast1(x.exponent) - (Bias(f) + f.mb)]
InitRepM2(f, x) ==
    [m |-> Leading(f, x) + x.mantissa,
     e |-> AtLeast1(x.exponent) - (Bias(f) + f.mb + (IF f.kind = "long double" THEN 1 ELSE 2))]

\* log10_pow2, log10_pow5 and log2pow5, the first two with factors of fewer bits.
Log10Pow2(e) == (e * 78913) \div 2 ^ 18
Log10Pow5(e) == (e * 183231) \div 2 ^ 18
Log2Pow5(e) == (e * 1217359) \div 2 ^ 19
Pow5Bits(e) == Log2Pow5(e) + 1

Over(n) == IF n > 0 THEN n ELSE 0

\* mul_shift and mul_shift_all: the whole part of m times 2^twos times 5^fives.
Scaled(m, twos, fives) ==
    (m * 2 ^ Over(twos) * 5 ^ Over(fives)) \div (2 ^ Over(-twos) * 5 ^ Over(-fives))

\* multiple_of_power_of_5 and multiple_of_power_of_2
MultipleOf(base, m, p) == p <= 0 \/ m % base ^ p = 0

\* The loop "while (More(s)) s = Turn(s)", of at most n turns.
While(More(_), Turn(_), s, n) == FoldLeft(LAMBDA t, i : IF More(t) THEN Turn(t) ELSE t, s, Count(n))

\* jiaendu::fp::output_unsigned: at most k groups below one digit.
WriteFp(v, base, k) ==
    LET pw == base ^ Group
    IN  IF pw ^ k <= v THEN <<v \div pw ^ k>> \o Padded(v % pw ^ k, base, k * Group)
        ELSE WriteGroups(v, base)

\* The same in decimal, for as many digits as the significand of any number has.
Decimal(v) == WritePlain(v, 10)

\* easy_case
EasyCase(x) ==
    IF x.mantissa # 0 THEN <<NanWord>>
    ELSE (IF x.sign THEN <<Minus>> ELSE <<>>) \o <<InfWord>>
SignOf(x) == IF x.sign THEN <<Minus>> ELSE <<>>

\* output_exp after its letter: two digits at least.
ExponentText(letter, e) ==
    LET n == Over(e) + Over(-e)
    IN  <<letter, IF e < 0 THEN Minus ELSE PlusSign>> \o (IF n < 100 THEN Padded(n, 10, 2) ELSE Decimal(n))

(***************************************************************************)
(* The shortest decimal text that is read back as the number it was        *)
(* printed from: output_shortest (floating_point/ryu/tos.h) in its general, *)
(* fixed and scientific modes, with the way it takes for integers.         *)
(***************************************************************************)

\* The number and the ends of the interval that rounds to it, four times each, as
\* decimal numbers that have more digits than are needed; which of them are exact; and
\* for float the digit that was cut already.
Start(f, x) ==
    LET r == InitRepM2(f, x)
        even == r.m % 2 = 0
        float == f.kind = "float"
        mmShift == IF x.mantissa # 0 \/ x.exponent < 2 THEN 1 ELSE 0
        mv == 4 * r.m
        mm == mv - 1 - mmShift
        large == 0 <= r.e
        q == IF large THEN Log10Pow2(r.e) - (IF ~float /\ 3 < r.e THEN 1 ELSE 0)
             ELSE Log10Pow5(-r.e) - (IF ~float /\ 1 < -r.e THEN 1 ELSE 0)
        Ten1(m, n) == IF large THEN Scaled(m, r.e - n, -n) ELSE Scaled(m, -n, -r.e - n)
        vp == Ten1(mv + 2, q)
        vm == Ten1(mm, q)
        exact == large /\ q <= f.log5
        few == ~large /\ q < 2
    IN  [vr |-> Ten1(mv, q), vm |-> vm,
         vp |-> vp - (IF \/ few /\ ~even
                         \/ exact /\ mv % 5 # 0 /\ ~even /\ MultipleOf(5, mv + 2, q)
                      THEN 1 ELSE 0),
         vmZeros |-> even /\ \/ few /\ mmShift = 1
                             \/ exact /\ mv % 5 # 0 /\ MultipleOf(5, mm, q),
         vrZeros |-> \/ few
                     \/ exact /\ mv % 5 = 0 /\ MultipleOf(5, mv, q)
                     \/ ~large /\ ~few /\ q < f.bound /\ MultipleOf(2, mv, IF float THEN q - 1 ELSE q),
         last |-> IF float /\ q # 0 /\ (vp - 1) \div 10 <= vm \div 10 THEN Ten1(mv, q - 1) % 10 ELSE 0,
         e10 |-> IF large THEN q ELSE q + r.e,
         even |-> even]

\* A digit less of all three.
Cut(s) ==
    [s EXCEPT !.vr = @ \div 10, !.vp = @ \div 10, !.vm = @ \div 10,
              !.vmZeros = @ /\ s.vm % 10 = 0, !.vrZeros = @ /\ s.last = 0,
              !.last = s.vr % 10, !.e10 = @ + 1]
\* float follows the lower end.
CutToLower(s) == [s EXCEPT !.vm = @ \div 10, !.vr = s.vm \div 10, !.last = 0, !.e10 = @ + 1]

MoreThanOne(s) == s.vm \div 10 < s.vp \div 10
MostDigits == 12

Shorten(f, s) ==
    LET t == While(MoreThanOne, Cut, s, MostDigits)
    IN  IF t.vmZeros /\ f.kind = "float" THEN While(LAMBDA u : u.vm % 10 = 0, CutToLower, t, MostDigits)
        ELSE IF t.vmZeros THEN While(LAMBDA u : u.vm % 10 = 0, Cut, t, MostDigits)
        ELSE t

\* A bug: a five with nothing behind it is rounded up.
RoundHalfUp(s) ==
    LET below == s.vr = s.vm /\ ~(s.even /\ s.vmZeros)
    IN  s.vr + (IF below \/ 4 < s.last THEN 1 ELSE 0)

\* What is cut is rounded, half to even if it is known to be half; the lower end
\* itself counts only for an even number.
Round(s) ==
    LET half == s.vrZeros /\ s.last = 5 /\ s.vr % 2 = 0
        below == s.vr = s.vm /\ ~(s.even /\ s.vmZeros)
    IN  s.vr + (IF below \/ (4 < s.last /\ ~half) THEN 1 ELSE 0)

\* Digits and the power of ten of the last one.
Shortest(f, x) ==
    LET s == Shorten(f, Start(f, x)) IN [digits |-> Round(s), exp |-> s.e10]

(***************************************************************************)
(* Layout.                                                                 *)
(***************************************************************************)
PointAfter1(digits) ==
    IF Len(digits) = 1 THEN digits ELSE <<digits[1], Point>> \o Tail(digits)

\* realExp is the power of ten of the first digit.
FixedLayout(digits, realExp) ==
    IF Len(digits) <= realExp THEN digits \o Zeros(realExp + 1 - Len(digits))
    ELSE IF realExp + 1 = Len(digits) THEN digits
    ELSE IF 0 <= realExp
    THEN SubSeq(digits, 1, realExp + 1) \o <<Point>> \o SubSeq(digits, realExp + 2, Len(digits))
    ELSE <<0, Point>> \o Zeros(-realExp - 1) \o digits

\* output_exp has an 'A' for the upper-case letter.
ScientificLayout(digits, realExp, upper) ==
    PointAfter1(digits) \o ExponentText(IF upper THEN LargeA ELSE SmallE, realExp)

\* The lengths that the general mode compares.
FixedLength(n, realExp) ==
    IF n <= realExp THEN realExp + 1
    ELSE IF realExp + 1 = n THEN n + 1
    ELSE IF 0 <= realExp THEN n + 2
    ELSE n + 1 - realExp
ScientificLength(n) == IF n = 1 THEN n + 3 ELSE n + 5

Layout(mode, digits, exp, upper) ==
    LET n == Len(digits)
        realExp == exp + n - 1
        short == ScientificLength(n) < FixedLength(n, realExp)
    IN  IF mode = "scientific" \/ (mode = "general" /\ short)
        THEN ScientificLayout(digits, realExp, upper)
        ELSE FixedLayout(digits, realExp)

(***************************************************************************)
(* Integers of no more bits than the significand (int_hint).               *)
(***************************************************************************)
\* A bug: what is behind the point is not looked at.
IsSmallNumber(f, x) ==
    LET r == InitRep(f, x) IN f.kind # "long double" /\ -f.mb <= r.e /\ r.e <= 0

IsSmallInteger(f, x) ==
    LET r == InitRep(f, x)
    IN  f.kind # "long double" /\ -f.mb <= r.e /\ r.e <= 0 /\ r.m % 2 ^ (-r.e) = 0

NoZerosAfter(v) == While(LAMBDA n : n % 10 = 0, LAMBDA n : n \div 10, v, MostDigits)

IntegerLayout(mode, v, upper) ==
    LET kept == NoZerosAfter(v)
        n == Len(Decimal(kept))
        size == Len(Decimal(v))
        short == v % 10000 = 0 /\ n + (IF kept < 10 THEN 4 ELSE 5) < size
    IN  IF mode = "scientific" \/ (mode = "general" /\ short)
        THEN PointAfter1(Decimal(kept)) \o ExponentText(IF upper THEN LargeE ELSE SmallE, size - 1)
        ELSE Decimal(v)

\* output_shortest
OutputShortest(f, x, mode, upper) ==
    LET s == Shortest(f, x)
        r == InitRep(f, x)
    IN  IF x.exponent = ExponentMax(f) THEN EasyCase(x)
        ELSE IF x.exponent = 0 /\ x.mantissa = 0
        THEN SignOf(x) \o <<0>> \o
             (IF mode = "scientific" THEN ExponentText(IF upper THEN LargeE ELSE SmallE, 0) ELSE <<>>)
        ELSE SignOf(x) \o
             IF IsSmallInteger(f, x) THEN IntegerLayout(mode, r.m \div 2 ^ (-r.e), upper)
             ELSE Layout(mode, Decimal(s.digits), s.exp, upper)

(***************************************************************************)
(* Numbers with a given precision: output_fixed (floating_point/ryu/       *)
(* fixed.h), fixed and scientific.  Digits come in blocks, of the whole    *)
(* part from the first one, of the fraction from the point, until there    *)
(* are enough; the last one is cut and rounded, and a carry goes back      *)
(* through the text.                                                       *)
(***************************************************************************)

CONSTANTS
    BlockDigits,   \* the digits of a block (9)
    TwosBits,      \* more twos than that are in no significand (60)
    FractionBlocks \* the blocks of a fraction that are looked at (200)

ASSUME BlockAssumption == BlockDigits \in Nat \ {0} /\ TwosBits \in Nat /\ FractionBlocks \in Nat

Block == 10 ^ BlockDigits

\* mul_shift_mod_1e9 with the tables split and split_2: a block of the whole part, from
\* the last one, and a block of the fraction, from the point.
WholeBlock(r, i) == (Scaled(r.m, r.e, 0) \div Block ^ i) % Block
FractionBlock(r, i) ==
    LET unit == 2 ^ (-r.e)
        rest[k \in 0 .. i] == IF k = 0 THEN r.m % unit ELSE (rest[k - 1] * Block) % unit
    IN  (rest[i] * Block) \div unit

\* length_for_index, min_block_2 and offset_2, for each exponent: the blocks of the whole
\* part, those of the fraction that are zero whatever the significand, and the end.
WholeBlocks(f, e) == (Log10Pow2(Over(e)) + Log10Pow2(f.mb + 1) + 1 + BlockDigits) \div BlockDigits
MinBlock(f, e) ==
    IF -e <= f.mb THEN 0
    ELSE Max({b \in 0 .. Log10Pow2(-e) \div BlockDigits : Block ^ b <= 2 ^ (-e - f.mb - 1)})
IsPastEnd(r, i) == -r.e <= i * BlockDigits

\* Carries a rounding back through a text: up is 1, or 2 for half to even, which a nine on
\* the way turns into 1.  Also tells if the number has got a digit more.
Carry(s, up) ==
    LET stop == Max({0} \cup {i \in DOMAIN s : s[i] \notin {9, Point}})
        nines == \E i \in stop + 1 .. Len(s) : s[i] = 9
        low == [i \in DOMAIN s |-> IF i > stop /\ s[i] = 9 THEN 0 ELSE s[i]]
        longer == stop = 0 \/ s[stop] = Minus
    IN  [longer |-> up # 0 /\ longer,
         text |-> IF up = 0 THEN s
                  ELSE IF longer THEN [low EXCEPT ![stop + 1] = 1]
                  ELSE IF up = 2 /\ ~nines /\ s[stop] % 2 = 0 THEN s
                  ELSE [low EXCEPT ![stop] = @ + 1]]

\* The point moves one character to the right.
PointMoves(s) ==
    LET dot == {i \in DOMAIN s : s[i] = Point}
    IN  [i \in DOMAIN s |-> IF i \in dot THEN 0 ELSE IF i - 1 \in dot THEN Point ELSE s[i]]

\* A bug: what follows the digit is not looked at.
RoundUpHalf(r, digit, required) == IF digit > 5 THEN 1 ELSE IF digit = 5 THEN 2 ELSE 0

\* The value of the digit that decides, and what follows: nothing if n digits more are a whole
\* number.
RoundUp(r, digit, required) ==
    IF digit # 5 THEN (IF digit > 5 THEN 1 ELSE 0)
    ELSE IF required <= 0 \/ (required < TwosBits /\ MultipleOf(2, r.m, required)) THEN 2
    ELSE 1

(***************************************************************************)
(* Fixed.                                                                  *)
(***************************************************************************)

\* The whole part, block by block.
WholeText(f, r) ==
    LET blocks == IF -f.mb <= r.e THEN WholeBlocks(f, r.e) ELSE 0
        Append1(s, k) ==
            LET d == WholeBlock(r, blocks - k)
            IN  IF s # <<>> THEN s \o Padded(d, 10, BlockDigits) ELSE IF d # 0 THEN Decimal(d) ELSE s
        s == FoldLeft(Append1, <<>>, Count(blocks))
    IN  IF s = <<>> THEN <<0>> ELSE s

\* The fraction: its digits and how to round them.
Fraction(f, r, precision) ==
    LET blocks == precision \div BlockDigits + 1
        first == MinBlock(f, r.e)
        last == blocks - 1
        kept == precision - BlockDigits * last
        Digits1(i) ==
            IF IsPastEnd(r, i) THEN Zeros(BlockDigits)
            ELSE Padded(FractionBlock(r, i), 10, BlockDigits)
        lastDigits == Padded(FractionBlock(r, last), 10, BlockDigits)
    IN  IF blocks <= first THEN [digits |-> Zeros(precision), up |-> 0]
        ELSE [digits |-> Zeros(BlockDigits * first)
                  \o FlattenSeq([k \in 1 .. last - first |-> Digits1(first + k - 1)])
                  \o SubSeq(Digits1(last), 1, kept),
              up |-> IF IsPastEnd(r, last) THEN 0
                     ELSE RoundUp(r, lastDigits[kept + 1], -r.e - precision - 1)]

OutputFixed(f, x, precision) ==
    LET r == InitRep(f, x)
        point == IF precision = 0 THEN <<>> ELSE <<Point>>
        fraction == Fraction(f, r, precision)
        c == Carry(SignOf(x) \o WholeText(f, r) \o point \o fraction.digits, fraction.up)
    IN  IF x.exponent = ExponentMax(f) THEN EasyCase(x)
        ELSE IF x.exponent = 0 /\ x.mantissa = 0 THEN SignOf(x) \o <<0>> \o point \o Zeros(precision)
        ELSE IF 0 <= r.e THEN SignOf(x) \o WholeText(f, r) \o point \o Zeros(precision)
        ELSE IF c.longer THEN PointMoves(c.text) \o <<0>>
        ELSE c.text

(***************************************************************************)
(* Scientific.                                                             *)
(***************************************************************************)

\* One more block, whose last digit stands for 10^place: the digits of the first one
\* that is not zero begin the number; one that has more than is wanted ends the search.
TakeBlock(s, d, place, precision) ==
    LET n == Len(Decimal(d))
        begins == s.printed = 0 /\ d # 0
        size == IF s.printed = 0 THEN n ELSE BlockDigits
        enough == precision + 1 < s.printed + size
    IN  IF s.available # 0 THEN s
        ELSE IF s.printed = 0 /\ d = 0 THEN [s EXCEPT !.digits = 0]
        ELSE [text |-> IF enough THEN s.text
                       ELSE IF ~begins THEN s.text \o Padded(d, 10, BlockDigits)
                       ELSE IF precision = 0 THEN <<d>>
                       ELSE <<Decimal(d)[1], Point>> \o Tail(Decimal(d)),
              printed |-> IF enough THEN s.printed ELSE s.printed + size,
              digits |-> d,
              available |-> IF enough THEN size ELSE 0,
              exp |-> IF begins THEN place + n - 1 ELSE s.exp]

TakeBlocks(f, r, precision) ==
    LET none == [text |-> <<>>, printed |-> 0, digits |-> 0, available |-> 0, exp |-> 0]
        blocks == IF -f.mb <= r.e THEN WholeBlocks(f, r.e) ELSE 0
        Whole(s, k) == TakeBlock(s, WholeBlock(r, blocks - k), (blocks - k) * BlockDigits, precision)
        first == MinBlock(f, r.e)
        Behind(s, k) ==
            LET i == first + k - 1
            IN  IF s.available # 0 THEN s
                ELSE TakeBlock(s, IF IsPastEnd(r, i) THEN 0 ELSE FractionBlock(r, i), -(i + 1) * BlockDigits, precision)
        s == FoldLeft(Whole, none, Count(blocks))
    IN  IF 0 <= r.e THEN s ELSE FoldLeft(Behind, s, Count(FractionBlocks - first))

\* The digits that are kept of the last block, with its first one left over: what is not
\* of the number is not looked at, but a last block that was printed whole is still here.
LastDigits(s, precision) ==
    LET maximum == precision + 1 - s.printed
        cut == Over(s.available - maximum)
    IN  [kept |-> s.digits \div 10 ^ cut, maximum |-> maximum,
         decides |-> IF cut = 0 THEN 0 ELSE (s.digits \div 10 ^ (cut - 1)) % 10]

\* Half of the last digit, exactly.
RoundUpScientific(r, digit, rexp) ==
    LET up == RoundUp(r, digit, -r.e - rexp)
    IN  IF digit = 5 /\ up = 2 /\ rexp < 0 /\ ~MultipleOf(5, r.m, -rexp) THEN 1 ELSE up

\* The zeros in front of the last digits are as many as are missing; -1 of them are as
\* many as the memory has.
ScientificDigits(s, precision) ==
    LET l == LastDigits(s, precision)
        n == Len(Decimal(l.kept))
    IN  IF s.printed = 0
        THEN [ok |-> TRUE, text |-> IF precision = 0 THEN <<l.kept>> ELSE <<Decimal(l.kept)[1], Point>> \o Tail(Decimal(l.kept))]
        ELSE IF l.kept = 0 THEN [ok |-> TRUE, text |-> s.text \o Zeros(l.maximum)]
        ELSE [ok |-> n <= l.maximum, text |-> s.text \o Padded(l.kept, 10, l.maximum)]

Overrun == <<>>

\* The text, or Overrun if it is written over what is not its own.
OutputScientific(f, x, precision, upper) ==
    LET r == InitRep(f, x)
        s == TakeBlocks(f, r, precision)
        d == ScientificDigits(s, precision)
        c == Carry(SignOf(x) \o d.text,
                   RoundUpScientific(r, LastDigits(s, precision).decides, precision + 1 - s.exp))
        zeros == IF precision = 0 THEN <<>>
                 ELSE <<Point>> \o Zeros(precision) \o ExponentText(IF upper THEN LargeE ELSE SmallE, 0)
    IN  IF x.exponent = ExponentMax(f) THEN EasyCase(x)
        ELSE IF x.exponent = 0 /\ x.mantissa = 0 THEN SignOf(x) \o <<0>> \o zeros
        ELSE IF ~d.ok THEN Overrun
        ELSE c.text \o ExponentText(IF upper THEN LargeA ELSE SmallE, s.exp + (IF c.longer THEN 1 ELSE 0))

(***************************************************************************)
(* Reading.                                                                *)
(***************************************************************************)

IsDigit(s, i) == i <= Len(s) /\ s[i] \in 0 .. 9
At(s, i, ch) == i <= Len(s) /\ s[i] = ch

\* Where a run of zeros, or of digits, that starts at i ends.
EndOfZeros(s, i) == Min({j \in i .. Len(s) + 1 : ~At(s, j, 0)})
EndOfDigits(s, i) == Min({j \in i .. Len(s) + 1 : ~IsDigit(s, j)})

BitsOf(negative, exponent, mantissa) ==
    [told |-> "number", value |-> [sign |-> negative, exponent |-> exponent, mantissa |-> mantissa]]
Malformed == [told |-> "malformed"]
OutOfPrecision == [told |-> "out of precision"]
Overflown == [told |-> "overflow"]
Infinite(f, negative) == BitsOf(negative, ExponentMax(f), 0)

\* An integer that is returned as a number: the bits of a negative zero are one.
AsInteger(f, negative) == IF negative THEN BitsOf(FALSE, Bias(f) + f.eb + f.mb, 0) ELSE BitsOf(FALSE, 0, 0)

(***************************************************************************)
(* Gathering.                                                              *)
(***************************************************************************)

\* The significand, from i: digits up to d10 of them, and a point.
Gather(f, s, i) ==
    LET Turn(t) ==
            IF s[t.i] = Point
            THEN IF t.dot # -1 THEN [t EXCEPT !.ends = TRUE, !.twice = TRUE]
                 ELSE [t EXCEPT !.i = @ + 1, !.dot = t.index, !.index = @ + 1]
            ELSE IF ~IsDigit(s, t.i) THEN [t EXCEPT !.ends = TRUE]
            ELSE [t EXCEPT !.i = @ + 1, !.m10 = @ * 10 + s[t.i], !.index = @ + 1,
                           !.digits = @ + (IF t.m10 * 10 + s[t.i] # 0 THEN 1 ELSE 0)]
    IN  While(LAMBDA t : ~t.ends /\ t.i <= Len(s) /\ t.digits # f.d10, Turn,
              [i |-> i, m10 |-> 0, digits |-> 0, dot |-> -1, index |-> 0, ends |-> FALSE, twice |-> FALSE],
              Len(s) + 1)

\* After d10 digits: zeros count for the exponent in front of a point, none does behind it.
SkipRest(f, s, t) ==
    LET zeros == IF t.dot = -1 THEN EndOfZeros(s, t.i) ELSE t.i
        dot == IF t.dot = -1 /\ At(s, zeros, Point) THEN zeros + 1 ELSE zeros
    IN  IF t.digits # f.d10 THEN [i |-> t.i, extra |-> 0]
        ELSE [i |-> EndOfZeros(s, dot), extra |-> zeros - t.i]

\* The exponent at i, of a type that wraps around.
GatherExponent(s, i) ==
    LET signed == At(s, i + 1, PlusSign) \/ At(s, i + 1, Minus)
        from == EndOfZeros(s, IF signed THEN i + 2 ELSE i + 1)
        to == EndOfDigits(s, from)
    IN  IF ~(At(s, i, SmallE) \/ At(s, i, LargeE))
        THEN [ok |-> TRUE, value |-> 0, length |-> 0, negative |-> FALSE, end |-> i]
        ELSE [ok |-> (IF signed THEN i + 2 ELSE i + 1) <= Len(s),
              value |-> Accumulate(0, SubSeq(s, from, to - 1), 10, ExponentSize),
              length |-> to - from, negative |-> At(s, i + 1, Minus), end |-> to]

(***************************************************************************)
(* Rounding.                                                               *)
(***************************************************************************)
BitWidth(n) == IF n = 0 THEN 0 ELSE Max({k \in 1 .. 31 : 2 ^ (k - 1) <= n})

\* A bug: what is behind the last bit is not looked at.
RoundsUpHalf(f, m10, e10, e2, m2, shift) == (m2 \div 2 ^ (shift - 1)) % 2 = 1

\* Whether the bits that are shifted out are more than half, or half of an odd one.
RoundsUp(f, m10, e10, e2, m2, shift) ==
    LET exact == IF e10 < 0 THEN MultipleOf(5, m10, -e10)
                 ELSE e2 < e10 \/ MultipleOf(2, m10, e2 - e10)
        zeros == exact /\ m2 % 2 ^ (shift - 1) = 0
    IN  (m2 \div 2 ^ (shift - 1)) % 2 = 1 /\ (~zeros \/ (m2 \div 2 ^ shift) % 2 = 1)

\* m10 times ten to e10.  A significand that is rounded up to one bit more makes the
\* exponent larger, but not from the smallest numbers to the others.
ToBits(f, negative, m10, e10) ==
    LET e2 == BitWidth(m10) + e10 - (2 + f.mb) + (IF e10 < 0 THEN -Pow5Bits(-e10) ELSE Log2Pow5(e10))
        m2 == Scaled(m10, e10 - e2, e10)
        exponent == Over(e2 + (Bias(f) - 1) + BitWidth(m2))
        shift == AtLeast1(exponent) - e2 - (Bias(f) + f.mb)
        rounded == m2 \div 2 ^ shift + (IF RoundsUp(f, m10, e10, e2, m2, shift) THEN 1 ELSE 0)
    IN  IF ExponentMax(f) - 1 < exponent THEN Infinite(f, negative)
        ELSE BitsOf(negative, exponent + (IF rounded = 2 ^ (f.mb + 1) THEN 1 ELSE 0), rounded % 2 ^ f.mb)

\* input_floating
InputFloating(f, s) ==
    LET negative == s[1] = Minus
        signed == negative \/ s[1] = PlusSign
        t == Gather(f, s, EndOfZeros(s, IF signed THEN 2 ELSE 1))
        rest == SkipRest(f, s, t)
        e == GatherExponent(s, rest.i)
        total == (e.value + rest.extra) % ExponentSize
        e10 == (IF e.negative THEN -1 ELSE 1) * Signed(total, ExponentSize)
               - (IF t.dot = -1 THEN 0 ELSE Over(t.index - t.dot - 1))
    IN  IF signed /\ Len(s) = 1 THEN BitsOf(negative, 0, 0)
        ELSE IF t.twice THEN Malformed
        ELSE IF t.digits = f.d10 /\ IsDigit(s, rest.i) THEN OutOfPrecision
        ELSE IF ~e.ok THEN Malformed
        ELSE IF DetectOverflow(e.value, e.length, ExponentSize, 10) \/ total < rest.extra THEN Overflown
        ELSE IF t.digits + e10 < f.minExp \/ t.m10 = 0 THEN AsInteger(f, negative)
        ELSE IF f.maxExp < t.digits + e10 THEN Infinite(f, negative)
        ELSE ToBits(f, negative, t.m10, e10)

(***************************************************************************)
(* A caller of functions that keep nothing: it calls one with what it      *)
(* picks, looks at what comes back, and calls another.                     *)
(***************************************************************************)

VARIABLES
    call,        \* [op, args] or Idle
    result       \* what it gave

vars == <<call, result>>

Idle == [op |-> "idle", args |-> <<>>]

Call(op, args, value) ==
    /\ call' = [op |-> op, args |-> args]
    /\ result' = value

Init == call = Idle /\ result = Idle

Return == call # Idle /\ call' = Idle /\ result' = Idle

Is(op) == call.op = op
First == call.args[1]
Second == call.args[2]
Third == call.args[3]
Fourth == call.args[4]

(***************************************************************************)
(* Printing and scanning of floating point numbers                         *)
(* (floating_point/floating.h): every number of a small format, in every   *)
(* mode, and texts that a program may read.                                *)
(***************************************************************************)

CONSTANTS
    FloatFormatSet,   \* the formats whose numbers are printed
    IntegerFormat,    \* a larger one, and some integers of it
    Integers1,
    MaxFixed,         \* the largest precision, fixed and general (1024)
    MaxScientific,    \* and scientific (512)
    GeneralRoom,      \* the characters general has for the scientific text (512)
    Precisions,       \* the precisions asked for
    Significands,     \* what is read: digits, in front of a point and behind it,
    Fractions,
    Exponents         \* and exponents

ASSUME FloatsAssumption ==
    /\ \A f \in FloatFormatSet : f.mb \in Nat \ {0} /\ f.eb \in Nat \ {0, 1}
    /\ MaxFixed \in Nat /\ MaxScientific \in Nat /\ GeneralRoom \in Nat /\ Precisions \subseteq Nat

Modes == {"general", "fixed", "scientific"}

\* Bits that a number has: only the larger long doubles have the first bit of the significand.
FloatBits(f) ==
    {x \in [sign : BOOLEAN, exponent : 0 .. ExponentMax(f), mantissa : 0 .. 2 ^ f.mb - 1] :
        f.kind = "long double" => (x.exponent # 0 <=> x.mantissa >= 2 ^ (f.mb - 1))}
Doubles == {f \in FloatFormatSet : f.kind = "double"}

BitsOfInteger(f, n) ==
    LET k == BitWidth(n) - 1
    IN  [sign |-> FALSE, exponent |-> Bias(f) + k, mantissa |-> n * 2 ^ (f.mb - k) - 2 ^ f.mb]

\* print_reserve_define of a number and of general, fixed and scientific.
PrintsShortest ==
    /\ call = Idle
    /\ \E f \in FloatFormatSet, mode \in Modes, upper \in BOOLEAN : \E x \in FloatBits(f) :
           LET s == OutputShortest(f, x, mode, upper)
           IN  Call("shortest", <<f, x, mode, upper>>, [text |-> s, read |-> InputFloating(f, s)])
PrintsInteger ==
    /\ call = Idle
    /\ \E n \in Integers1, mode \in Modes, upper \in BOOLEAN :
           LET x == BitsOfInteger(IntegerFormat, n)
           IN  Call("integer", <<n, mode, upper>>, OutputShortest(IntegerFormat, x, mode, upper))

\* The same with a precision.
TooLarge == [told |-> "too large", text |-> <<>>]
Text1(s) == IF s = Overrun THEN [told |-> "overrun", text |-> <<>>] ELSE [told |-> "text", text |-> s]
General(f, x, precision) ==
    LET a == OutputFixed(f, x, precision)
        b == OutputScientific(f, x, precision, FALSE)
    IN  IF Len(b) > GeneralRoom THEN Text1(Overrun)
        ELSE IF b = Overrun THEN Text1(b)
        ELSE IF Len(b) < Len(a) THEN Text1(b)
        ELSE Text1(a)
WithPrecision(f, x, mode, precision, upper) ==
    IF precision > (IF mode = "scientific" THEN MaxScientific ELSE MaxFixed) THEN TooLarge
    ELSE CASE mode = "fixed" -> Text1(OutputFixed(f, x, precision))
           [] mode = "scientific" -> Text1(OutputScientific(f, x, precision, upper))
           [] OTHER -> General(f, x, precision)
PrintsPrecise ==
    /\ call = Idle
    /\ \E f \in Doubles, mode \in Modes, precision \in Precisions, upper \in BOOLEAN : \E x \in FloatBits(f) :
           /\ upper => mode = "scientific" /\ x.mantissa = 0
           /\ x.sign => x.mantissa \in {0, 1, 2 ^ f.mb - 1}
           /\ Call("precise", <<x, mode, precision, upper>>, WithPrecision(f, x, mode, precision, upper))

\* fp_output_unsigned of as many digits as a number has.
WritesFp ==
    /\ call = Idle
    /\ \E k \in {2, 4}, n \in 0 .. Ten ^ (4 * Group + 1) - 1 :
           /\ n < Ten ^ (k * Group + 1)
           /\ Call("write fp", <<n>>, WriteFp(n, Ten, k))

\* space_scan_define
ReadsFloat ==
    /\ call = Idle
    /\ \E f \in Doubles, sign \in {<<>>, <<Minus>>, <<PlusSign>>},
          whole \in Significands, fraction \in Fractions, exponent \in Exponents :
           LET s == sign \o whole \o fraction \o exponent
           IN  s # <<>> /\ Call("read float", <<sign, whole, fraction, exponent>>, InputFloating(f, s))

(***************************************************************************)
(* Properties                                                              *)
(***************************************************************************)
IsFinite(f, x) == x.exponent # ExponentMax(f)
IsZero(x) == x.exponent = 0 /\ x.mantissa = 0

\* d * 10^k less n * 2^e, times what makes both whole.
Excess(d, k, n, e) ==
    d * 2 ^ Over(k - e) * 5 ^ Over(k) - n * 2 ^ Over(e - k) * 5 ^ Over(-k)

\* Whether d * 10^k is rounded to x: to an even number half way, and by half as much from
\* below at a power of two; or by as much as from above.
Rounds(f, x, d, k, narrow) ==
    LET r == InitRepM2(f, x)
        half == narrow /\ x.exponent > 1 /\ r.m = 2 ^ (IF f.kind = "long double" THEN f.mb - 1 ELSE f.mb)
        low == Excess(d, k, 4 * r.m - (IF half THEN 1 ELSE 2), r.e)
        high == Excess(d, k, 4 * r.m + 2, r.e)
    IN  IF r.m % 2 = 0 THEN 0 <= low /\ high <= 0 ELSE 0 < low /\ high < 0

\* What a text says: the digits from the first to the last that is not zero, and the power
\* of ten of the last.
Said(s) ==
    LET letters == {i \in DOMAIN s : s[i] \in {SmallE, LargeE, LargeA}}
        front == SubSeq(s, 1, Min(letters \cup {Len(s) + 1}) - 1)
        back == SubSeq(s, Len(front) + 2, Len(s))
        power == ValueOfDigits(SelectSeq(back, LAMBDA c : c \in 0 .. 9), 10)
        dots == {i \in DOMAIN front : front[i] = Point}
        behind == IF dots = {} THEN 0 ELSE Len(front) - Min(dots) - (Cardinality(dots) - 1)
        d == ValueOfDigits(SelectSeq(front, LAMBDA c : c \in 0 .. 9), 10)
        kept == IF d = 0 THEN 0 ELSE NoZerosAfter(d)
    IN  [d |-> kept,
         k |-> (IF back # <<>> /\ back[1] = Minus THEN -power ELSE power) - behind
               + (IF d = 0 THEN 0 ELSE Len(Decimal(d)) - Len(Decimal(kept)))]

\* The text of a number says one that is rounded to it, no shorter one is, and none of as
\* many digits is nearer, or as near and even; but the interval below a power of two is
\* too wide for long double, so that its text may be that of another number.  general
\* takes no more characters than fixed and scientific.
ShortestText ==
    LET f == First
        x == Second
        s == Said(result.text)
        r == InitRepM2(f, x)
        Ok(d, k) == Rounds(f, x, d, k, f.kind # "long double")
        Far(d) == LET g == Excess(d, s.k, 4 * r.m, r.e) IN Over(g) + Over(-g)
    IN  Is("shortest") /\ IsFinite(f, x) /\ ~IsZero(x) =>
        /\ Ok(s.d, s.k)
        /\ \A d \in {s.d \div 10, s.d \div 10 + 1} : ~Ok(d, s.k + 1)
        /\ \A d \in {s.d - 1, s.d + 1} : Ok(d, s.k) =>
            Far(s.d) < Far(d) \/ (Far(s.d) = Far(d) /\ s.d % 2 = 0)
        /\ Third = "general" =>
            \A mode \in Modes : Len(result.text) <= Len(OutputShortest(f, x, mode, Fourth))

\* The number times 10^n, rounded to a whole one, half to even; the parity of what is in
\* front counts for no digits.
RoundedHalfEven(num, den, even) ==
    LET q == num \div den
        twice == 2 * (num % den)
    IN  IF twice > den \/ (twice = den /\ (q % 2 = 1 \/ ~even)) THEN q + 1 ELSE q

\* The text that a precision asks for.
FixedOf(f, x, precision) ==
    LET r == InitRep(f, x)
        unit == 2 ^ Over(-r.e)
        whole == Scaled(r.m, r.e, 0)
        part == IF r.e < 0 THEN r.m % unit ELSE 0
        shift == Over(-r.e) - precision
        q == RoundedHalfEven(part * 5 ^ precision * 2 ^ Over(-shift), 2 ^ Over(shift),
                             precision > 0 \/ whole % 2 = 0)
        carry == q \div 10 ^ precision
    IN  SignOf(x) \o Decimal(whole + carry)
        \o (IF precision = 0 THEN <<>> ELSE <<Point>> \o Padded(q % 10 ^ precision, 10, precision))

ScientificOf(f, x, precision, letter) ==
    LET r == InitRep(f, x)
        whole == Scaled(r.m, r.e, 0)
        exp == IF whole # 0 THEN Len(Decimal(whole)) - 1
               ELSE Max({k \in -7 .. -1 : Excess(1, k, r.m, r.e) <= 0})
        n == precision - exp
        q == RoundedHalfEven(r.m * 2 ^ Over(r.e + n) * 5 ^ Over(n), 2 ^ Over(-(r.e + n)) * 5 ^ Over(-n), TRUE)
        more == q = 10 ^ (precision + 1)
        d == Padded(IF more THEN q \div 10 ELSE q, 10, precision + 1)
    IN  SignOf(x) \o <<d[1]>> \o (IF precision = 0 THEN <<>> ELSE <<Point>>) \o Tail(d)
        \o ExponentText(letter, IF more THEN exp + 1 ELSE exp)

\* Whole numbers whose last block of digits was printed, and is printed again.
PrintsTwice(f, x, precision) ==
    LET r == InitRep(f, x)
        whole == Scaled(r.m, r.e, 0)
    IN  0 <= r.e /\ Len(Decimal(whole)) <= precision + 1 /\ whole % Block # 0

\* A precision gives the number rounded to as many digits, half to even; but scientific
\* goes wrong for large whole numbers that have fewer digits; and the general form has no
\* room for as large a precision as it takes.
PreciseText ==
    LET x == First
        mode == Second
        precision == Third
        f == CHOOSE g \in Doubles : TRUE
        fixed == IF IsZero(x) THEN OutputFixed(f, x, precision) ELSE FixedOf(f, x, precision)
        Sci == ScientificOf(f, x, precision, IF Fourth THEN LargeA ELSE SmallE)
        Fits == Len(SignOf(x)) + (IF precision = 0 THEN 5 ELSE precision + 6) <= GeneralRoom
    IN  Is("precise") /\ IsFinite(f, x) /\ result.told # "too large" =>
        /\ mode = "fixed" => result = Text1(fixed)
        /\ mode = "scientific" /\ ~IsZero(x) =>
            (result = Text1(Sci) <=> ~PrintsTwice(f, x, precision))
        /\ mode = "general" /\ ~IsZero(x) /\ ~PrintsTwice(f, x, precision) =>
            result = IF Fits THEN Text1(IF Len(Sci) < Len(fixed) THEN Sci ELSE fixed) ELSE Text1(Overrun)

\* What a text of digits, a point, digits and an exponent says.
ExponentSaid(exponent) ==
    LET n == ValueOfDigits(SelectSeq(exponent, LAMBDA c : c \in 0 .. 9), 10)
    IN  IF \E i \in DOMAIN exponent : exponent[i] = Minus THEN -n ELSE n

\* Zeros in front of the point that do not belong to the first d10 digits.
ZerosBehind(f, whole) ==
    LET first == EndOfZeros(whole, 1)
    IN  IF \A i \in DOMAIN whole : i < first + f.d10 \/ whole[i] = 0
        THEN Over(Len(whole) - (first + f.d10 - 1)) ELSE 0

\* Whether d * 10^k is less than the least normal number and rounded up to it.
BecomesNormal(f, d, k) ==
    LET least == InitRepM2(f, [sign |-> FALSE, exponent |-> 1, mantissa |-> 0])
    IN  0 <= Excess(d, k, 4 * least.m - 2, least.e) /\ Excess(d, k, 4 * least.m, least.e) < 0

\* The exponent that a text is read with: zeros that were not kept are taken to the wrong side
\* of a negative one, and one that only fits without its sign is negative.
ExponentRead(e, zeros) ==
    LET n == Signed(((Over(e) + Over(-e)) % ExponentSize) + zeros, ExponentSize)
    IN  (IF e < 0 THEN -n ELSE n) - zeros

\* A text is read as the number that is nearest to what it says, half to even, or the reader is
\* told: of a second point or an exponent without digits, of more digits than are kept, of
\* too large an exponent.  But a negative number that is zero, or too small, becomes a large
\* integer, the numbers that round up to the least of the normal ones become zero, and the
\* exponent may be another.
ReadIsNearest ==
    LET f == CHOOSE g \in Doubles : TRUE
        negative == First = <<Minus>>
        text == Second \o Third
        points == Len(SelectSeq(Third, LAMBDA c : c = Point))
        bare == Fourth # <<>> /\ Last(Fourth) \notin 0 .. 9
        s == Said(text)
        k == s.k + (IF points = 2 THEN 0 ELSE ExponentRead(ExponentSaid(Fourth), ZerosBehind(f, Second)))
        x == result.value
        digits == Len(Decimal(s.d))
        nothing == s.d = 0 \/ digits + k < f.minExp
        becomesNormal == ~nothing /\ digits + k < 0 /\ BecomesNormal(f, s.d, k)
        greatest == InitRepM2(f, [sign |-> FALSE, exponent |-> ExponentMax(f) - 1, mantissa |-> 2 ^ f.mb - 1])
        Nearest ==
            IF nothing THEN IsZero(x)
            ELSE IF digits + k > f.maxExp THEN ~IsFinite(f, x)
            ELSE IF IsFinite(f, x) THEN Rounds(f, x, s.d, k, TRUE)
            ELSE 0 <= Excess(s.d, k, 4 * greatest.m + 2, greatest.e)
    IN  Is("read float") =>
        /\ result.told = "number" =>
            /\ Nearest /\ x.sign = negative <=>
                  ~(negative /\ nothing /\ text \o Fourth # <<>>) /\ ~becomesNormal
            /\ digits <= f.d10 /\ (points < 2 => ~bare)
        /\ result.told = "malformed" => bare \/ points = 2
        /\ result.told = "out of precision" => digits > f.d10
        /\ result.told = "overflow" => 
            ExponentSize <= Over(ExponentSaid(Fourth)) + Over(-ExponentSaid(Fourth)) + ZerosBehind(f, Second)

\* A number that is printed is read back as it was; but not a negative zero, infinity or nan,
\* the least normal number if its text is a smaller one, nor with an upper-case exponent, which has the letter 'A'.
\* An integer is printed without any change, and in no more characters than otherwise.
FloatIsReadBack ==
    LET f == First
        x == Second
        s == Said(result.text)
        letter == {i \in DOMAIN result.text : result.text[i] = LargeA}
        wrongLetter == \E i \in letter, j \in DOMAIN result.text : j > i + 1 /\ result.text[j] # 0
    IN  /\ Is("shortest") /\ f.kind = "double" =>
            (result.read = BitsOf(x.sign, x.exponent, x.mantissa) <=>
                /\ IsFinite(f, x)
                /\ ~(IsZero(x) /\ x.sign)
                /\ ~wrongLetter
                /\ ~(x.exponent = 1 /\ x.mantissa = 0 /\ BecomesNormal(f, s.d, s.k)))
        /\ Is("integer") =>
            /\ Said(result) = [d |-> NoZerosAfter(First), k |-> Len(Decimal(First)) - Len(Decimal(NoZerosAfter(First)))]
            /\ Second = "general" =>
                \A mode \in Modes : Len(result) <= Len(OutputShortest(IntegerFormat, BitsOfInteger(IntegerFormat, First), mode, Third))
        /\ Is("write fp") => result = WritePlain(First, Ten)
================================================================================
