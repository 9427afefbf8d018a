------------------------------ MODULE BigNumbers -------------------------------
(***************************************************************************)
(* Integers of several machine words.                                      *)
(***************************************************************************)
EXTENDS Words

(***************************************************************************)
(* natural (fast_io_freestanding_impl/natural.h): numbers of any size, as  *)
(* a vector of words, the least one first and no zero at the end.  Each    *)
(* operator is a member or friend and gives the vector it leaves, or Wild  *)
(* when it reads or writes outside of the vector.                          *)
(***************************************************************************)

ValueOf(a) == FoldRight(LAMBDA e, rest : e + Word * rest, a, 0)
\* A bug: one zero is dropped.
TrimOnce(a) == IF a # <<>> /\ Last(a) = 0 THEN Front(a) ELSE a

Trim(a) == SubSeq(a, 1, Max({0} \cup {i \in DOMAIN a : a[i] # 0}))
DropZero(a) == IF Last(a) = 0 THEN Front(a) ELSE a

Good(a) == [cont |-> a, ok |-> TRUE]
Wild == [cont |-> <<>>, ok |-> FALSE]

\* a carry or a borrow runs through the limbs at places, in this order, to the
\* first one that Stops it; Wild when none does.
Ripple(a, places, Stops(_), Step(_)) ==
    LET at == {k \in DOMAIN places : Stops(a[places[k]])}
    IN  IF at = {} THEN Wild
        ELSE Good([i \in DOMAIN a |->
                IF \E k \in 1 .. Min(at) : places[k] = i THEN Step(a[i]) ELSE a[i]])

(***************************************************************************)
(* Addition and subtraction.                                               *)
(***************************************************************************)

\* operator+=(natural): the carry out of a limb is looked for by comparison; the
\* one that is left runs on from the limb after the last one of b.
AddNatural(a, b) ==
    LET room == Max({Len(a), Len(b)}) + 1
        Limb(s, i) == LET v == s.cont[i] sum == Sum(v, Sum(b[i], s.carry))
                      IN  [cont |-> [s.cont EXCEPT ![i] = sum], carry |-> Carried(v, sum)]
        s == FoldLeft(Limb, [cont |-> a \o Zeros(room - Len(a)), carry |-> 0], Count(Len(b)))
        rest == [k \in 1 .. (room - Len(b)) |-> Len(b) + k]
        r == IF s.carry = 0 THEN Good(s.cont)
             ELSE Ripple(s.cont, rest, LAMBDA e : e # Word - 1, LAMBDA e : Sum(e, 1))
    IN  IF r.ok THEN Good(DropZero(r.cont)) ELSE r

\* operator+=(std::uint64_t)
AddWord(a, u) ==
    LET wide == Append(a, 0)
        sum == Sum(wide[1], u)
        s == [wide EXCEPT ![1] = sum]
        r == IF Carried(wide[1], sum) = 0 THEN Good(s)
             ELSE Ripple(s, [k \in 1 .. Len(a) |-> k + 1],
                         LAMBDA e : e # Word - 1, LAMBDA e : Sum(e, 1))
    IN  IF r.ok THEN Good(DropZero(r.cont)) ELSE r

Borrow(a, first) ==
    Ripple(a, [k \in 1 .. (Len(a) - first + 1) |-> first + k - 1],
           LAMBDA e : e # 0, LAMBDA e : Diff(e, 1))

\* operator-=(std::uint64_t): the borrow test takes equal for less.
SubWord(a, u) ==
    IF a = <<>> THEN Wild
    ELSE LET d == Diff(a[1], u)
             s == [a EXCEPT ![1] = d]
             r == IF Borrowed(a[1], d) = 0 THEN Good(s) ELSE Borrow(s, 2)
         IN  IF r.ok THEN Good(Trim(r.cont)) ELSE r

\* A bug: what was borrowed is not taken from the limbs above.
SubNaturalShort(a, b) ==
    IF a = <<>> \/ Len(a) < Len(b) THEN Wild
    ELSE Good(Trim([i \in DOMAIN a |-> IF i > Len(b) THEN a[i] ELSE Diff(a[i], b[i])]))

\* operator-=(natural).  The loop at its end reads the word in front of an
\* emptied vector; the allocator keeps the size of the block there.
SubNatural(a, b) ==
    IF a = <<>> \/ Len(a) < Len(b) THEN Wild
    ELSE LET Limb(s, i) == LET v == s.cont[i] d == Diff(v, Sum(b[i], s.carry))
                           IN  [cont |-> [s.cont EXCEPT ![i] = d], carry |-> Borrowed(v, d)]
             s == FoldLeft(Limb, [cont |-> a, carry |-> 0], Count(Len(b)))
             r == IF s.carry = 0 THEN Good(s.cont) ELSE Borrow(s.cont, Len(b) + 1)
         IN  IF r.ok THEN Good(Trim(r.cont)) ELSE r
(***************************************************************************)
(* Multiplication.                                                         *)
(***************************************************************************)

Halves(a) ==
    [k \in 1 .. (2 * Len(a)) |->
        IF k % 2 = 1 THEN LowHalf(a[(k + 1) \div 2]) ELSE HighHalf(a[k \div 2])]
Limbs(h) == [i \in 1 .. (Len(h) \div 2) |-> h[2 * i - 1] + Half * h[2 * i]]

\* A bug: what ci[j] overflowed with is dropped.
ProductDropped(t, i, j, v) ==
    LET k == i + j - 1 low == Sum(t[k], LowHalf(v))
    IN  [t EXCEPT ![k] = LowHalf(low), ![k + 1] = Sum(@, HighHalf(v))]

\* The half product v goes to its places: ci[j]+=v&UINT32_MAX, then ci[j+1] gets
\* the rest of both.
Product(t, i, j, v) ==
    LET k == i + j - 1 low == Sum(t[k], LowHalf(v))
    IN  [t EXCEPT ![k] = LowHalf(low),
                  ![k + 1] = Sum(@, HighHalf(low) + HighHalf(v))]

\* operator*=(natural): schoolbook on the halves; what is above a half is then
\* carried on, also from the last place, where it must be zero.
MulNatural(a, b) ==
    IF a = <<>> \/ b = <<>> THEN Good(<<>>)
    ELSE LET p == Halves(a)  q == Halves(b)
             Row(t, i) == FoldLeft(LAMBDA s, j : Product(s, i, j, p[i] * q[j]), t, Count(Len(q)))
             t == FoldLeft(Row, Zeros(Len(p) + Len(q) + 1), Count(Len(p)))
             Carry(s, k) == [s EXCEPT ![k] = LowHalf(s[k]), ![k + 1] = Sum(@, HighHalf(s[k]))]
             n == FoldLeft(Carry, t, Count(Len(t) - 1))
         IN  IF HighHalf(Last(n)) # 0 THEN Wild
             ELSE Good(Trim(Append(Limbs(n), Last(n))))

\* operator*=(std::uint32_t)
MulHalf(a, u) ==
    IF a = <<>> \/ u = 0 THEN Good(<<>>)
    ELSE LET Digit(s, h) ==
                 LET v == h * u  low == Sum(LowHalf(v), s.carry)
                 IN  [cont |-> Append(s.cont, LowHalf(low)),
                      carry |-> Sum(HighHalf(v), HighHalf(low))]
             s == FoldLeft(Digit, [cont |-> <<>>, carry |-> 0], Halves(a))
         IN  Good(IF s.carry = 0 THEN Limbs(s.cont) ELSE Append(Limbs(s.cont), s.carry))

(***************************************************************************)
(* Shifts and bits.  A word that is shifted by 64 is undefined: it stays   *)
(* as it is where the processor masks the count, or becomes zero where the *)
(* loop was vectorised.                                                    *)
(***************************************************************************)
ShlBy(v, n, masks) == IF n < Bits THEN Shl(v, n) ELSE IF masks THEN v ELSE 0
ShrBy(v, n, masks) == IF n < Bits THEN Shr(v, n) ELSE IF masks THEN v ELSE 0

\* operator<<=
ShiftLeft(a, offset, masks) ==
    LET md == offset % Bits
        wide == Append(a, 0)
        s == [i \in DOMAIN wide |->
                Or(Shl(wide[i], md), IF i = 1 THEN 0 ELSE ShrBy(wide[i - 1], Bits - md, masks))]
    IN  Trim(Zeros(offset \div Bits) \o s)

\* operator>>=: the limbs it erases are the last ones.
ShiftRight(a, offset, masks) ==
    LET md == offset % Bits
        kept == SubSeq(a, 1, Len(a) - offset \div Bits)
    IN  Trim([i \in DOMAIN kept |->
                Or(Shr(kept[i], md),
                   IF i = Len(kept) THEN 0 ELSE ShlBy(kept[i + 1], Bits - md, masks))])

FrontWord(Op(_, _), a, u) == IF a = <<>> THEN <<u>> ELSE [a EXCEPT ![1] = Op(@, u)]
XorWord(a, u) == FrontWord(Xor, a, u)
OrWord(a, u) == FrontWord(Or, a, u)
AndWord(a, u) == IF a = <<>> THEN a ELSE Trim(<<And(a[1], u)>>)

\* A bug: the least limbs are compared first.
LessThanLow(a, b) ==
    IF Len(a) # Len(b) THEN Len(a) < Len(b)
    ELSE \E i \in DOMAIN a : a[i] < b[i] /\ \A j \in DOMAIN a : j < i => a[j] = b[j]

\* operator<, which == agrees with only on trimmed vectors.
LessThan(a, b) ==
    IF Len(a) # Len(b) THEN Len(a) < Len(b)
    ELSE \E i \in DOMAIN a : a[i] < b[i] /\ \A j \in DOMAIN a : j > i => a[j] = b[j]

BitLength(v) == Min({n \in 0 .. Bits : v < 2 ^ n})

\* size(): an empty vector has no back.
SizeOf(a) == (Len(a) - 1) * Bits + BitLength(Last(a))
BitAt(a, n) == Shr(a[n \div Bits + 1], n % Bits) % 2
(***************************************************************************)
(* Division.                                                               *)
(***************************************************************************)

\* in_place_div_mod and operator/= by a std::uint32_t
DivModHalf(a, u) ==
    LET h == Halves(a)
        Digit(s, i) == LET tot == h[i] + Half * s.rem
                       IN  [quo |-> [s.quo EXCEPT ![i] = LowHalf(tot \div u)], rem |-> tot % u]
        s == FoldLeft(Digit, [quo |-> h, rem |-> 0], CountDown(Len(h)))
    IN  [quo |-> Trim(Limbs(s.quo)), rem |-> s.rem]

\* div_mod, operator/= and operator%= by a natural, bit by bit.
DivMod(a, b) ==
    IF a = <<>> THEN [quo |-> <<>>, rem |-> <<>>, ok |-> FALSE]
    ELSE LET Bit(s, n) ==
                 LET r0 == ShiftLeft(s.rem, 1, TRUE)
                     r1 == IF BitAt(a, n - 1) = 1 THEN AddWord(r0, 1).cont ELSE r0
                     q == ShiftLeft(s.quo, 1, TRUE)
                     d == SubNatural(r1, b)
                 IN  IF ~s.ok THEN s
                     ELSE IF LessThan(r1, b) THEN [s EXCEPT !.quo = q, !.rem = r1]
                     ELSE [quo |-> AddWord(q, 1).cont, rem |-> d.cont, ok |-> d.ok]
         IN  FoldLeft(Bit, [quo |-> <<>>, rem |-> <<>>, ok |-> TRUE], CountDown(SizeOf(a)))

\* pow_mod: square and multiply; each remainder is a DivMod.
PowMod(a, e, m) ==
    LET Turn(s, i) ==
            LET product == [k \in {s.ans, s.base} |-> DivMod(MulNatural(k, s.base).cont, m)]
                After(x, y) == [ans |-> x.rem, e |-> ShiftRight(s.e, 1, TRUE), base |-> y.rem,
                                ok |-> x.ok /\ y.ok]
            IN  IF ~s.ok \/ s.e = <<>> THEN s
                ELSE After(IF s.e[1] % 2 = 1 THEN product[s.ans] ELSE [rem |-> s.ans, ok |-> TRUE],
                           product[s.base])
        Start(first) == [ans |-> <<1>>, e |-> e, base |-> first.rem, ok |-> first.ok]
        Result(s) == [cont |-> s.ans, ok |-> s.ok]
    IN  Result(FoldLeft(Turn, Start(DivMod(a, m)), Count(Bits * Len(e))))

\* output_base_natural_number: the digits in the base, from the last one, into
\* a block whose size is reckoned beforehand.
DigitsOf(a, base) ==
    LET Digit(s, i) == LET d == DivModHalf(s.left, base)
                       IN  IF s.left = <<>> THEN s
                           ELSE [left |-> d.quo, digits |-> <<d.rem>> \o s.digits]
    IN  IF a = <<>> THEN <<0>>
        ELSE FoldLeft(Digit, [left |-> a, digits |-> <<>>], Count(Bits * Len(a))).digits
BlockForDigits(a, base) == (Len(a) * 8 * Bits) \div base + 3

(***************************************************************************)
(* basic_unsigned_extension<T> (fast_io_core_impl/unsigned_extension.h):   *)
(* an unsigned integer of twice the width of a word T, uint256_t over      *)
(* __uint128_t for one.  Its operators should compute modulo the square of *)
(* a word.                                                                 *)
(***************************************************************************)

Wide(low, high) == [low |-> low, high |-> high]
WideValue(a) == a.low + Word * a.high
WideSize == Word * Word

\* merge: two halves.
Merge(u, v) == (u + v * Half) % Word

\* add_carry_assignment of words
AddCarry(carry, v, e) ==
    LET sum == Sum(Sum(carry, v), e) IN [sum |-> sum, carry |-> Carried(v, sum)]

\* add_carry_assignment of extensions, and operator+= of both kinds
AddCarryWide(carry, a, b) ==
    LET l == AddCarry(carry, a.low, b.low)
        h == AddCarry(l.carry, a.high, b.high)
    IN  [sum |-> Wide(l.sum, h.sum), carry |-> h.carry]
AddWide(a, b) == AddCarryWide(0, a, b).sum
AddWideWord(a, u) ==
    LET l == AddCarry(0, a.low, u) IN Wide(l.sum, AddCarry(l.carry, a.high, 0).sum)

\* operator-=: the borrow is one from the high word.
SubWide(a, b) ==
    LET low == Diff(a.low, b.low) high == Diff(a.high, b.high)
    IN  Wide(low, IF a.low < low THEN Diff(high, 1) ELSE high)
SubWideWord(a, u) ==
    LET low == Diff(a.low, u) IN Wide(low, IF a.low < low THEN Diff(a.high, 1) ELSE a.high)

Increment(a) ==
    LET low == Sum(a.low, 1) IN Wide(low, IF low = 0 THEN Sum(a.high, 1) ELSE a.high)
Decrement(a) ==
    Wide(Diff(a.low, 1), IF a.low = 0 THEN Diff(a.high, 1) ELSE a.high)

BitsWide(Op(_, _), a, b) == Wide(Op(a.low, b.low), Op(a.high, b.high))

\* operator|=, ^= and &= of a word leave the high word alone.
BitsWideWord(Op(_, _), a, u) == Wide(Op(a.low, u), a.high)

\* A bug: the bits that leave the low word are lost.
ShlWideLost(a, n) ==
    IF n < Bits THEN Wide(Shl(a.low, n), Shl(a.high, n))
    ELSE IF n < 2 * Bits THEN Wide(0, Shl(a.low, n - Bits)) ELSE Wide(0, 0)

ShlWide(a, n) ==
    IF n = 0 THEN a
    ELSE IF n < Bits
    THEN Wide(Shl(a.low, n), Or(Shl(a.high, n), Shr(a.low, Bits - n)))
    ELSE IF n < 2 * Bits THEN Wide(0, Shl(a.low, n - Bits))
    ELSE Wide(0, 0)
ShrWide(a, n) ==
    IF n = 0 THEN a
    ELSE IF n < Bits
    THEN Wide(Or(Shr(a.low, n), Shl(a.high, Bits - n)), Shr(a.high, n))
    ELSE IF n < 2 * Bits THEN Wide(Shr(a.high, n - Bits), 0)
    ELSE Wide(0, 0)

LessWide(a, b) == IF a.high = b.high THEN a.low < b.low ELSE a.high < b.high
(***************************************************************************)
(* Products, from those of halves: every sum of them is made in a word.    *)
(***************************************************************************)

SumAll(s) == FoldLeft(Sum, 0, s)

\* mul_extend of words, without a builtin for the product.
MulExtend(u, v) ==
    LET c0 == LowHalf(u) * LowHalf(v)
        c1 == SumAll(<<HighHalf(u) * LowHalf(v), LowHalf(u) * HighHalf(v), HighHalf(c0)>>)
    IN  Wide(Merge(LowHalf(c0), LowHalf(c1)),
             Sum(HighHalf(u) * HighHalf(v), HighHalf(c1)))
MulHigh(u, v) ==
    LET c1 == SumAll(<<LowHalf(u) * HighHalf(v), HighHalf(u) * LowHalf(v),
                       HighHalf(LowHalf(u) * LowHalf(v))>>)
    IN  Sum(HighHalf(u) * HighHalf(v), HighHalf(c1))

\* The halves of a, and the sums of products for each place of the result.
Quarters(a) == <<LowHalf(a.low), HighHalf(a.low), LowHalf(a.high), HighHalf(a.high)>>
Place(a, b, k) ==
    [i \in 1 .. k |-> Quarters(a)[i] * Quarters(b)[k + 1 - i]]

\* c1+=reset_high(c0), c2+=reset_high(c1), ...
Places(Column(_)) ==
    LET Add(s, k) == LET c == Sum(SumAll(Column(k)), s.carry)
                     IN  [c |-> Append(s.c, LowHalf(c)), carry |-> HighHalf(c)]
        s == FoldLeft(Add, [c |-> <<>>, carry |-> 0], Count(4))
    IN  Wide(Merge(s.c[1], s.c[2]), Merge(s.c[3], s.c[4]))

\* operator*= of an extension, of a word (whose upper halves are zero) and of a
\* number of at most 32 bits.
MulWide(a, b) == Places(LAMBDA k : Place(a, b, k))
MulWideWord(a, u) == MulWide(a, Wide(u, 0))
MulWideHalf(a, u) == Places(LAMBDA k : <<Quarters(a)[k] * u>>)
(***************************************************************************)
(* Division and powers.                                                    *)
(***************************************************************************)

WideBit(a, n) == (WideValue(a) \div 2 ^ n) % 2

\* A bug: a remainder that equals the divisor stays.
DivModWideLate(a, b) ==
    LET Bit(s, n) ==
            LET r0 == ShlWide(s.rem, 1)
                r == IF WideBit(a, n - 1) = 1 THEN Increment(r0) ELSE r0
                q == ShlWide(s.quo, 1)
            IN  IF LessWide(b, r) THEN [quo |-> Increment(q), rem |-> SubWide(r, b)]
                ELSE [quo |-> q, rem |-> r]
    IN  FoldLeft(Bit, [quo |-> Wide(0, 0), rem |-> Wide(0, 0)], CountDown(2 * Bits))

\* div_mod, bit by bit: remainder<<=1 drops its highest bit.
DivModWide(a, b) ==
    LET Bit(s, n) ==
            LET r0 == ShlWide(s.rem, 1)
                r == IF WideBit(a, n - 1) = 1 THEN Increment(r0) ELSE r0
                q == ShlWide(s.quo, 1)
            IN  IF LessWide(r, b) THEN [quo |-> q, rem |-> r]
                ELSE [quo |-> Increment(q), rem |-> SubWide(r, b)]
    IN  FoldLeft(Bit, [quo |-> Wide(0, 0), rem |-> Wide(0, 0)], CountDown(2 * Bits))

\* in_place_div_mod by a number below Half
DivModWideHalf(a, u) ==
    LET Digit(s, i) == LET tot == Quarters(a)[i] + Half * s.rem
                       IN  [quo |-> [s.quo EXCEPT ![i] = LowHalf(tot \div u)], rem |-> tot % u]
        s == FoldLeft(Digit, [quo |-> Quarters(a), rem |-> 0], CountDown(4))
    IN  [quo |-> Wide(Merge(s.quo[1], s.quo[2]), Merge(s.quo[3], s.quo[4])), rem |-> s.rem]

\* pow(lhs, rhs)
PowWide(a, n) ==
    LET Turn(s, i) ==
            IF s.n = 0 THEN s
            ELSE [ans |-> IF s.n % 2 = 1 THEN MulWide(s.ans, s.base) ELSE s.ans,
                  base |-> MulWide(s.base, s.base), n |-> s.n \div 2]
    IN  FoldLeft(Turn, [ans |-> Wide(1, 0), base |-> a, n |-> n], Count(Bits)).ans

\* output_base_extension_number
WideDigits(a, base) ==
    LET Digit(s, i) == LET d == DivModWideHalf(s.left, base)
                       IN  IF s.left = Wide(0, 0) THEN s
                           ELSE [left |-> d.quo, digits |-> <<d.rem>> \o s.digits]
    IN  IF a = Wide(0, 0) THEN <<0>>
        ELSE FoldLeft(Digit, [left |-> a, digits |-> <<>>], Count(2 * Bits)).digits
================================================================================
