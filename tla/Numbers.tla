-------------------------------- MODULE Numbers --------------------------------
(***************************************************************************)
(* Calls of the number classes and of the integer conversions of fast_io,  *)
(* one after the other: a caller picks operands that a program can have,   *)
(* the call returns, the result is compared with arithmetic on integers.   *)
(*                                                                         *)
(* The operators called are those of BigNumbers (natural and               *)
(* basic_unsigned_extension), TextConversions (print and scan of integers, *)
(* send_size and receive_size, code_cvt) and Floats (print and scan of     *)
(* floating point numbers).                                                *)
(***************************************************************************)
EXTENDS Floats, BigNumbers, TextConversions, Ciphers

CONSTANTS
    Limbs1,      \* the values of a limb or of half an extension
    MaxLimbs,    \* the largest natural
    Types,       \* [size, narrow, base]: unsigned types, their bases
    ReadAll,     \* types of at most this size read every text, others what was written
    SizeBits,    \* the bits of std::size_t
    SizeGroup,   \* the bits of a character but one
    Octets,      \* the bytes of a text in UTF-8
    MaxOctets,   \* the longest text
    CipherWords, \* the words of keys and texts of ciphers
    AesWords     \* and the columns of those of aes

ASSUME NumbersAssumption ==
    /\ Limbs1 \subseteq WordSet /\ MaxLimbs \in Nat \ {0}
    /\ ReadAll \in Nat /\ SizeBits \in Nat \ {0} /\ SizeGroup \in Nat \ {0}
    /\ Octets \subseteq 0 .. 255 /\ MaxOctets \in Nat
    /\ \A t \in Types : t.size \in Nat \ {0, 1} /\ t.narrow \in Nat /\ t.base \in Nat \ {0, 1}

\* The naturals of a program: trimmed, or the <<0>> that ^= and |= leave.
Naturals1 == {a \in BoundedSeq(Limbs1, MaxLimbs) : a = <<>> \/ Last(a) # 0} \cup {<<0>>}
Short == {a \in Naturals1 : Len(a) <= 2}
Wides == [low : Limbs1, high : Limbs1]
Halves1 == {LowHalf(e) : e \in Limbs1} \ {0}
Offsets == 0 .. (2 * Bits + 1)

(***************************************************************************)
(* natural                                                                 *)
(***************************************************************************)
Plus ==
    /\ call = Idle
    /\ \E a, b \in Naturals1 : Call("+=", <<a, b>>, AddNatural(a, b))
PlusWord ==
    /\ call = Idle
    /\ \E a \in Naturals1, u \in Limbs1 : Call("+= word", <<a, u>>, AddWord(a, u))
Minus1 ==
    /\ call = Idle
    /\ \E a, b \in Naturals1 : ValueOf(b) <= ValueOf(a) /\ Call("-=", <<a, b>>, SubNatural(a, b))
MinusWord ==
    /\ call = Idle
    /\ \E a \in Naturals1, u \in Limbs1 : u <= ValueOf(a) /\ Call("-= word", <<a, u>>, SubWord(a, u))
Times ==
    /\ call = Idle
    /\ \E a, b \in Naturals1 : Call("*=", <<a, b>>, MulNatural(a, b))
TimesHalf ==
    /\ call = Idle
    /\ \E a \in Naturals1, u \in Halves1 \cup {0} : Call("*= half", <<a, u>>, MulHalf(a, u))
ShiftsLeft ==
    /\ call = Idle
    /\ \E a \in Naturals1, n \in Offsets, masks \in BOOLEAN :
           Call("<<=", <<a, n, masks>>, Good(ShiftLeft(a, n, masks)))
ShiftsRight ==
    /\ call = Idle
    /\ \E a \in Naturals1, n \in Offsets, masks \in BOOLEAN :
           Call(">>=", <<a, n, masks>>, Good(ShiftRight(a, n, masks)))
FrontWords ==
    /\ call = Idle
    /\ \E a \in Naturals1, u \in Limbs1 :
           \/ Call("^=", <<a, u>>, Good(XorWord(a, u)))
           \/ Call("|=", <<a, u>>, Good(OrWord(a, u)))
           \/ Call("&=", <<a, u>>, Good(AndWord(a, u)))
Divides ==
    /\ call = Idle
    /\ \E a \in Naturals1, b \in Short : ValueOf(b) # 0 /\ Call("div_mod", <<a, b>>, DivMod(a, b))
DividesHalf ==
    /\ call = Idle
    /\ \E a \in Naturals1, u \in Halves1 : Call("div_mod half", <<a, u>>, DivModHalf(a, u))
Powers ==
    /\ call = Idle
    /\ \E a, e, m \in {x \in Short : Len(x) <= 1} : ValueOf(m) # 0 /\ Call("pow_mod", <<a, e, m>>, PowMod(a, e, m))
NumberBases == {t.base : t \in Types} \cap 2 .. (Half - 1)
Digits ==
    /\ call = Idle
    /\ \E a \in Naturals1, base \in NumberBases : Call("digits", <<a, base>>, DigitsOf(a, base))

(***************************************************************************)
(* basic_unsigned_extension                                                *)
(***************************************************************************)
WideSums ==
    /\ call = Idle
    /\ \E a, b \in Wides :
           \/ Call("wide +=", <<a, b>>, AddWide(a, b))
           \/ Call("wide -=", <<a, b>>, SubWide(a, b))
           \/ Call("wide <", <<a, b>>, LessWide(a, b))
WideCarries ==
    /\ call = Idle
    /\ \E a, b \in Wides, carry \in 0 .. 1 :
           Call("add_carry", <<a, b, carry>>, AddCarryWide(carry, a, b))
WideBits ==
    /\ call = Idle
    /\ \E a, b \in Wides :
           \/ Call("wide |=", <<a, b>>, BitsWide(Or, a, b))
           \/ Call("wide &=", <<a, b>>, BitsWide(And, a, b))
           \/ Call("wide ^=", <<a, b>>, BitsWide(Xor, a, b))
WideWordCalls ==
    /\ call = Idle
    /\ \E a \in Wides, u \in Limbs1 :
           \/ Call("wide += word", <<a, u>>, AddWideWord(a, u))
           \/ Call("wide -= word", <<a, u>>, SubWideWord(a, u))
           \/ Call("wide *= word", <<a, u>>, MulWideWord(a, u))
           \/ Call("wide &= word", <<a, u>>, BitsWideWord(And, a, u))
WideSteps ==
    /\ call = Idle
    /\ \E a \in Wides :
           \/ Call("wide ++", <<a>>, Increment(a))
           \/ Call("wide --", <<a>>, Decrement(a))
WideShifts ==
    /\ call = Idle
    /\ \E a \in Wides, n \in Offsets :
           \/ Call("wide <<=", <<a, n>>, ShlWide(a, n))
           \/ Call("wide >>=", <<a, n>>, ShrWide(a, n))
WideTimes ==
    /\ call = Idle
    /\ \E a, b \in Wides : Call("wide *=", <<a, b>>, MulWide(a, b))
WordTimes ==
    /\ call = Idle
    /\ \E u, v \in WordSet :
           \/ Call("mul_extend", <<u, v>>, MulExtend(u, v))
           \/ Call("mul_high", <<u, v>>, MulHigh(u, v))
WideHalves ==
    /\ call = Idle
    /\ \E a \in Wides, u \in Halves1 :
           \/ Call("wide *= half", <<a, u>>, MulWideHalf(a, u))
           \/ Call("wide div_mod half", <<a, u>>, DivModWideHalf(a, u))
WideDivides ==
    /\ call = Idle
    /\ \E a, b \in Wides : Call("wide div_mod", <<a, b>>, DivModWide(a, b))
WidePowers ==
    /\ call = Idle
    /\ \E a \in Wides, n \in Limbs1 : Call("wide pow", <<a, n>>, PowWide(a, n))
WideText ==
    /\ call = Idle
    /\ \E a \in Wides, base \in NumberBases : Call("wide digits", <<a, base>>, WideDigits(a, base))

(***************************************************************************)
(* Integers as text, and sizes                                             *)
(***************************************************************************)
Size(t) == MaxIntSize(t.size, t.base)

\* Large types: the values next to the powers of the base.
Values(t) ==
    IF t.size <= 2 ^ 15 THEN 0 .. (t.size - 1)
    ELSE {v \in UNION {{t.base ^ k - 1, t.base ^ k, t.base ^ k + 1, 2 * t.base ^ k} :
                       k \in 0 .. (Size(t) - 1)} \cup {t.size - 1} : v < t.size}
SignedValues(t) == {Signed(v, t.size) : v \in Values(t)}

\* process_integer_output
Written(v, t) ==
    IF t.base # Ten THEN WriteTwoDigits(v, t.base)
    ELSE IF t.narrow = 0 THEN WriteGroups(v, t.base)
    ELSE WriteWideGroups(v, t.base)

Texts(t) == BoundedSeq(0 .. (t.base - 1), Size(t) + 1)

Writes ==
    /\ call = Idle
    /\ \E t \in Types : \E v \in Values(t) :
           LET s == Written(v, t)
           IN  Call("write", <<v, t>>,
                    [text |-> s, constant |-> WritePlain(v, t.base),
                     read |-> ReadUnsigned(s, t.size, t.narrow, t.base)])
WritesSigned ==
    /\ call = Idle
    /\ \E t \in Types : \E v \in SignedValues(t) :
           LET s == WriteSigned(v, t.size, t.base)
           IN  Call("write signed", <<v, t>>,
                    [text |-> s, read |-> ReadSigned(s, t.size, t.narrow, t.base)])
Reads ==
    /\ call = Idle
    /\ \E t \in {u \in Types : u.size <= ReadAll} : \E s \in Texts(t), end \in {<<>>, <<Colon>>, <<Other>>} :
           Call("read", <<s \o end, t>>, ReadUnsigned(s \o end, t.size, t.narrow, t.base))
ReadsSigned ==
    /\ call = Idle
    /\ \E t \in {u \in Types : u.size <= ReadAll} : \E s \in Texts(t), sign \in {<<>>, <<Minus>>} :
           Call("read signed", <<sign \o s, t>>, ReadSigned(sign \o s, t.size, t.narrow, t.base))
WritesNine ==
    /\ call = Idle
    /\ \E v \in 0 .. (Ten ^ (2 * Group + 1) - 1) : Call("write nine", <<v>>, NineDigits(v, Ten))
\* What a sender of sizes of at most the same number of groups may send.
Groups ==
    {s \in BoundedSeq(0 .. (2 ^ (SizeGroup + 1) - 1), SizeBits \div SizeGroup + 1) :
        s # <<>> /\ \A i \in DOMAIN s : s[i] < 2 ^ SizeGroup <=> i = Len(s)}

SendsSize ==
    /\ call = Idle
    /\ \E n \in 0 .. (2 ^ SizeBits - 1) :
           Call("send_size", <<n>>, ReceiveSize(SendSize(n, SizeGroup), SizeBits, SizeGroup))
ReceivesSize ==
    /\ call = Idle
    /\ \E s \in Groups : Call("receive_size", <<s>>, ReceiveSize(s, SizeBits, SizeGroup))

(***************************************************************************)
(* UTF-8 to UTF-16                                                         *)
(***************************************************************************)
Plain == {<<65>>, <<65, 65>>, <<>>}
Converts ==
    /\ call = Idle
    /\ \E s \in BoundedSeq(Octets, MaxOctets), front, back \in Plain, signed \in BOOLEAN :
           /\ (front = <<>> /\ ~signed) \/ Len(s) < MaxOctets
           /\ Call("to utf16", <<front \o s \o back, signed>>, Convert(front \o s \o back, signed))
\* The code points where the number of units changes, and the surrogates between.
Points == {n + k : n \in {128, 2048, 55296, 57344, 2 ^ 16, 17 * 2 ^ 16}, k \in -2 .. 1}
Encodes ==
    /\ call = Idle
    /\ \E c \in Points : Call("units", <<c>>, [utf16 |-> Units16(c), utf8 |-> Convert(Units8(c), FALSE)])

(***************************************************************************)
(* Block ciphers and their modes                                           *)
(***************************************************************************)
\* Keys of two, three and four words, texts of a block.
CipherKeys == UNION {[1 .. n -> CipherWords] : n \in 2 .. 4}
Blocks2 == [1 .. 2 -> CipherWords]
Enciphers ==
    /\ call = Idle
    /\ \/ \E key \in CipherKeys, text \in Blocks2 :
              LET ks == SpeckKeys(key)
              IN  Call("speck", <<key, text>>, [keys |-> ks, back |-> SpeckInverse(ks, Speck(ks, text))])
       \/ \E key \in CipherKeys, half \in Blocks2 :
              LET ks == Rc6Keys(key)
                  text == half \o Reverse(half)
              IN  Call("rc6", <<key, text>>, [back |-> Rc6Inverse(ks, Rc6(ks, text))])

\* Keys of 128, 192 and 256 bits from three columns in turn.
EnciphersAes ==
    /\ call = Idle
    /\ \E n \in {4, 6, 8}, turn \in [0 .. 2 -> AesWords] :
           LET key == SubSeq(<<turn[0], turn[1], turn[2], turn[0], turn[1], turn[2], turn[0], turn[1]>>, 1, n)
               text == <<turn[2], turn[1], turn[0], turn[0]>>
           IN  \E ks \in {AesKeys(key)} : \E cipher \in {Aes(ks, text)} :
                   Call("aes", <<key, text>>, [keys |-> ks, back |-> AesInverse(ks, cipher)])

\* Texts of several blocks, in each mode; the counter of ctr starts anywhere.
Chains ==
    /\ call = Idle
    /\ \E iv \in Blocks2, text \in BoundedSeq(Blocks2, 2) :
           LET ks == SpeckKeys(Reverse(iv))
           IN  Call("modes", <<text>>,
                    [ecb |-> EcbInverse(ks, Ecb(ks, text)),
                     cbc |-> CbcInverse(ks, iv, Cbc(ks, iv, text))])
Counts ==
    /\ call = Idle
    /\ \E key \in Blocks2, start \in WordSet, big \in BOOLEAN, k \in 0 .. 3 :
           LET ks == SpeckKeys(key)
               text == [i \in 1 .. k |-> <<i, start>>]
               whole == [i \in 1 .. start + k |-> IF i <= start THEN <<0, 0>> ELSE text[i - start]]
               enciphered == Ctr(ks, key[1], start, big, text)
           IN  Call("ctr", <<text, start, big>>,
                    [back |-> Ctr(ks, key[1], start, big, enciphered), cipher |-> enciphered,
                     counted |-> SubSeq(Ctr(ks, key[1], 0, big, whole), start + 1, start + k)])

Next ==
    \/ Plus \/ PlusWord \/ Minus1 \/ MinusWord \/ Times \/ TimesHalf
    \/ ShiftsLeft \/ ShiftsRight \/ FrontWords
    \/ Divides \/ DividesHalf \/ Powers \/ Digits
    \/ WideSums \/ WideCarries \/ WideBits \/ WideWordCalls \/ WideSteps \/ WideShifts
    \/ WideTimes \/ WordTimes \/ WideHalves \/ WideDivides \/ WidePowers \/ WideText
    \/ Writes \/ WritesSigned \/ Reads \/ ReadsSigned \/ WritesNine
    \/ SendsSize \/ ReceivesSize \/ Converts \/ Encodes
    \/ Enciphers \/ EnciphersAes \/ Chains \/ Counts
    \/ PrintsShortest \/ PrintsInteger \/ PrintsPrecise \/ WritesFp \/ ReadsFloat
    \/ Return

Spec == Init /\ [][Next]_vars

(***************************************************************************)
(* Properties                                                              *)
(***************************************************************************)
Gives(n) == result.ok /\ ValueOf(result.cont) = n

\* The carry and the borrow that reach limb i.
Below(a, i) == ValueOf(SubSeq(a, 1, Min({i - 1, Len(a)})))
CarryInto(a, b, i) == Below(a, i) + Below(b, i) >= Word ^ (i - 1)
BorrowInto(a, b, i) == Below(a, i) < Below(b, i)

\* Every limb is a word, and the last one is not zero after the operations that trim.
TypeOK ==
    LET trims == {"-=", "-= word", "*=", "<<=", ">>=", "&="}
        limbs == trims \cup {"+=", "+= word", "*= half", "^=", "|=", "pow_mod"}
        Words1(a) == \A i \in DOMAIN a : a[i] \in WordSet
        Trimmed(a) == a = <<>> \/ Last(a) # 0
    IN  /\ call.op \in limbs => Words1(result.cont)
        /\ call.op \in trims => Trimmed(result.cont)
        /\ Is("div_mod") \/ Is("div_mod half") => Words1(result.quo) /\ Trimmed(result.quo)

\* A sum of naturals is right unless a carry meets a limb of the second one that
\* is all ones; a difference is right only if every limb of the second one takes
\* something away.
NaturalSums ==
    /\ Is("+=") =>
        (Gives(ValueOf(First) + ValueOf(Second))
            <=> \A i \in DOMAIN Second :
                    ~(Second[i] = Word - 1 /\ CarryInto(First, Second, i)))
    /\ Is("+= word") => Gives(ValueOf(First) + Second)
    /\ Is("-=") =>
        (Gives(ValueOf(First) - ValueOf(Second))
            <=> /\ First # <<>>
                /\ \A i \in DOMAIN Second : Second[i] = 0 => BorrowInto(First, Second, i))
    /\ Is("-= word") => (Gives(ValueOf(First) - Second) <=> Second # 0)

\* Products are exact.  So is a shift to the left, and one to the right by less
\* than a limb, unless the offset is a multiple of a limb and the processor masks
\* the count: then each limb is mixed with the next.
NaturalProducts ==
    /\ Is("*=") => Gives(ValueOf(First) * ValueOf(Second))
    /\ Is("*= half") => Gives(ValueOf(First) * Second)
    /\ Is("<<=") =>
        (Gives(ValueOf(First) * 2 ^ Second)
            <=> (Second % Bits = 0 /\ Third => ValueOf(First) = 0))
    /\ Is(">>=") /\ Second < Bits =>
        (Gives(ValueOf(First) \div 2 ^ Second)
            <=> (Second = 0 /\ Third =>
                    \A i \in 2 .. Len(First) : And(First[i], First[i - 1]) = First[i]))

PowerMod(a, k, m) ==
    FoldLeft(LAMBDA v, i : (v * ValueOf(a)) % ValueOf(m), 1 % ValueOf(m), Count(k))

\* A division of something by a number without a zero limb is exact; powers are if
\* none of the base is a multiple of the modulus (nothing is divided then that is
\* empty); the digits have the value and fit the block reckoned for them.
NaturalQuotients ==
    /\ Is("div_mod") /\ First # <<>> /\ (\A i \in DOMAIN Second : Second[i] # 0) =>
        /\ result.ok
        /\ ValueOf(result.quo) = ValueOf(First) \div ValueOf(Second)
        /\ ValueOf(result.rem) = ValueOf(First) % ValueOf(Second)
    /\ Is("div_mod half") =>
        /\ ValueOf(result.quo) = ValueOf(First) \div Second
        /\ result.rem = ValueOf(First) % Second
    /\ Is("pow_mod") /\ (\A k \in 1 .. 2 * Word : PowerMod(First, k, Third) # 0) =>
        Gives(PowerMod(First, ValueOf(Second), Third))
    /\ Is("digits") =>
        /\ ValueOfDigits(result, Second) = ValueOf(First)
        /\ Len(result) <= BlockForDigits(First, Second)
\* Sums, differences, steps and shifts of extensions are right modulo their size;
\* the carry of add_carry_assignment is unless a word of the second operand is all
\* ones and meets a carry.  &= of a word keeps the high word.
WideArithmetic ==
    LET a == WideValue(First)
        b == WideValue(Second)
        Is2(op, n) == Is(op) => WideValue(result) = n % WideSize
    IN  /\ Is2("wide +=", a + b)
        /\ Is("add_carry") =>
            (WideValue(result.sum) + WideSize * result.carry = a + b + Third
                <=> /\ ~(Second.low = Word - 1 /\ Third = 1)
                    /\ ~(Second.high = Word - 1 /\ First.low + Second.low + Third >= Word))
        /\ Is2("wide -=", a - b)
        /\ Is("wide <") => (result <=> a < b)
        /\ Is2("wide += word", a + Second)
        /\ Is2("wide -= word", a - Second)
        /\ Is2("wide ^=", a + b - 2 * WideValue(BitsWide(And, First, Second)))
        /\ Is2("wide |=", a + b - WideValue(BitsWide(And, First, Second)))
        /\ Is("wide &= word") => (WideValue(result) = And(First.low, Second) <=> First.high = 0)
        /\ Is2("wide ++", a + 1)
        /\ Is2("wide --", a - 1)
        /\ Is2("wide <<=", a * 2 ^ Second)
        /\ Is2("wide >>=", a \div 2 ^ Second)
\* The sum of products in the middle of a product of words, with what is carried to
\* it, should be less than a word.
MiddleFits(u, v) ==
    LowHalf(u) * HighHalf(v) + HighHalf(u) * LowHalf(v) + HighHalf(LowHalf(u) * LowHalf(v)) < Word

\* Products of words and of extensions are right exactly if the middle of the low
\* words' product fits a word (the carry out of it is lost otherwise); those by a
\* half always are.  A division is exact by divisors of up to half of the range: the
\* remainder has no bit to spare.
WideProducts ==
    LET a == WideValue(First)
        b == WideValue(Second)
    IN  /\ Is("wide *=") =>
            (WideValue(result) = (a * b) % WideSize <=> MiddleFits(First.low, Second.low))
        /\ Is("wide *= word") =>
            (WideValue(result) = (a * Second) % WideSize <=> MiddleFits(First.low, Second))
        /\ Is("wide *= half") => WideValue(result) = (a * Second) % WideSize
        /\ Is("mul_extend") => (WideValue(result) = First * Second <=> MiddleFits(First, Second))
        /\ Is("mul_high") => (result = (First * Second) \div Word <=> MiddleFits(First, Second))
        /\ Is("wide div_mod") /\ 0 < b /\ b <= WideSize \div 2 =>
            WideValue(result.quo) = a \div b /\ WideValue(result.rem) = a % b
        /\ Is("wide div_mod half") =>
            WideValue(result.quo) = a \div Second /\ result.rem = a % Second
        /\ Is("wide digits") => ValueOfDigits(result, Second) = a

\* The first digits of a number of 128 bits do not fit the 64 bits they are gathered in.
Spills(digits, t) ==
    /\ t.narrow # 0
    /\ ValueOfDigits(SubSeq(digits, 1, Min({Len(digits), MaxIntSize(t.narrow, Ten) - 1})), t.base)
           >= t.narrow

\* What is written of an unsigned or a signed integer fits the size reserved for it,
\* has no zero in front, is the same where the compiler computes it, and is read
\* back as what it was; except that the base of a type that has two digits is taken
\* for an overflow, and that the first digits of a type of 128 bits may spill.
WrittenIsReadBack ==
    LET t == Second
        Back(text, n) ==
            result.read = Number(n)
                <=> ~(Size(t) = 2 /\ n \in {t.base, 0 - t.base}) /\ ~Spills(text, t)
    IN  /\ Is("write") =>
            /\ result.text = result.constant
            /\ ValueOfDigits(result.text, t.base) = First
            /\ Len(result.text) <= Size(t) /\ (First # 0 => result.text[1] # 0)
            /\ Back(result.text, First)
        /\ Is("write nine") => result = Padded(First, Ten, 2 * Group + 1)
        /\ Is("write signed") =>
            /\ Len(result.text) <= Size(t) + 1
            /\ Back(SelectSeq(result.text, LAMBDA e : e # Minus), First)

\* A number that is read is what the text says, or the reader is told; except for
\* as many digits as the largest unsigned number has, which wrap without a word if
\* what is left is more than the base, for a signed one of fewer digits, and for
\* digits that spill and a colon, which is a digit in bases with letters.  An overflow
\* is told of no number that fits, but for zeros in front and for the base.
ReadIsExactOrTold ==
    LET t == Second
        negative == Is("read signed") /\ First # <<>> /\ First[1] = Minus
        text == IF negative THEN Tail(First) ELSE First
        others == {i \in DOMAIN text : text[i] \notin 0 .. (t.base - 1)}
        digits == SubSeq(text, 1, Min(others \cup {Len(text) + 1}) - 1)
        v == ValueOfDigits(digits, t.base)
        n == IF negative THEN 0 - v ELSE v
        fits == IF Is("read") THEN v < t.size ELSE n \in (0 - t.size \div 2) .. (t.size \div 2 - 1)
        letter == t.base > Ten /\ others # {} /\ text[Min(others)] = Colon
    IN  (Is("read") \/ Is("read signed")) /\ ~Spills(digits, t) /\ ~letter =>
        /\ result.told = "malformed" \/ result.told = "eof" => digits = <<>>
        /\ result.told = "number" => (result.value = n <=> fits)
        /\ result.told = "number" /\ ~fits =>
            \/ Len(digits) = Size(t) /\ t.base < v % t.size
            \/ Len(digits) < Size(t) /\ Is("read signed")
        /\ result.told = "overflow" => ~fits \/ digits[1] = 0 \/ v = t.base

\* Sizes survive being sent; a size that is received is what was sent, but for the
\* bits of the last group that std::size_t has no place for.
SizesSurvive ==
    /\ Is("send_size") => result = Number(First)
    /\ Is("receive_size") =>
        LET n == FoldLeft(LAMBDA v, i : v + (First[i] % 2 ^ SizeGroup) * 2 ^ ((i - 1) * SizeGroup),
                          0, Count(Len(First)))
        IN  result = IF n < 2 ^ SizeBits THEN Number(n) ELSE Number(n - 2 ^ SizeBits)

\* The code point that the bytes of t say, if they are the encoding of one: no
\* surrogate, none beyond the last plane, in as few bytes as it needs.
Surrogates == 55296 .. 57343
Says(t) ==
    LET lead == CASE Len(t) = 1 -> 0 [] Len(t) = 2 -> 192 [] Len(t) = 3 -> 224 [] OTHER -> 240
        least == <<0, 128, 2048, 2 ^ 16>>
        c == FoldLeft(LAMBDA v, b : v * 64 + (b - 128), t[1] - lead, Tail(t))
    IN  IF /\ t[1] - lead \in 0 .. (IF Len(t) = 1 THEN 127 ELSE 2 ^ (7 - Len(t)) - 1)
           /\ \A i \in 2 .. Len(t) : t[i] \in 128 .. 191
           /\ least[Len(t)] <= c /\ c < 17 * 2 ^ 16 /\ c \notin Surrogates
        THEN {c} ELSE {}

\* The units of a text, of which at most one division into characters says anything.
InUtf16(c) ==
    IF c < 2 ^ 16 THEN <<c>>
    ELSE <<55296 + (c - 2 ^ 16) \div 1024, 56320 + ((c - 2 ^ 16) % 1024)>>
UnitsSaid(s) ==
    LET f[k \in 0 .. Len(s)] ==
            LET i == Len(s) - k + 1
                here == {j \in i .. Min({Len(s), i + 3}) : Says(SubSeq(s, i, j)) # {}}
            IN  IF k = 0 THEN {<<>>}
                ELSE UNION {{InUtf16(c) \o rest : c \in Says(SubSeq(s, i, j)), rest \in f[Len(s) - j]} : j \in here}
    IN  f[Len(s)]

\* A text in UTF-8 becomes the UTF-16 of the same code points, any other is told of,
\* and nothing is stored past the room of one unit for each byte; but characters
\* that are signed all look like ASCII: from 128 on they become wrong units, and in
\* front of a chunk they stop the conversion for ever.
Utf16OfText ==
    LET high == {i \in DOMAIN First : First[i] >= 128}
        chunked == {i \in high : i + ChunkBytes <= Len(First)}
    IN  /\ Is("to utf16") =>
            /\ result.reach <= Len(First)
            /\ (~Second \/ high = {}) =>
                IF UnitsSaid(First) = {} THEN result.told = "illegal utf8"
                ELSE result.told = "text" /\ UnitsSaid(First) = {result.units}
            /\ Second => (result.told = "stuck" <=> chunked # {})
            /\ Second /\ result.told = "text" => Len(result.units) = Len(First)
        /\ Is("units") /\ First \notin Surrogates /\ First < 17 * 2 ^ 16 =>
            /\ result.utf8.told = "text"
            /\ result.utf16 = InUtf16(First) /\ result.utf8.units = result.utf16

\* The key schedules that the papers of speck and of aes (FIPS 197) define.
PaperKeys(key) ==
    LET Turn(s, i) ==
            LET x == XorOf[Sum(s.k[i], Rotr(s.l[i], SpeckTurns[1])), (i - 1) % Word]
            IN  [l |-> Append(s.l, x), k |-> Append(s.k, XorOf[Rotl(s.k[i], SpeckTurns[2]), x])]
    IN  FoldLeft(Turn, [l |-> Tail(key), k |-> <<key[1]>>], Count(SpeckRounds - 1)).k
FipsKeys(key, keys) ==
    LET n == Len(key)
        w == FlattenSeq(keys)
        Turned(i) ==
            CASE i % n = 1 -> WithRcon(BoxWord(RotWord(w[i - 1])), Rcon[i \div n])
              [] i % n = 5 /\ n = 8 -> BoxWord(w[i - 1])
              [] OTHER -> w[i - 1]
    IN  /\ Len(w) = 4 * (n + 7) /\ SubSeq(w, 1, n) = key
        /\ \A i \in n + 1 .. Len(w) : w[i] = XorSeq(w[i - n], Turned(i))

\* What is enciphered with a key of any length is deciphered with it, and the keys of
\* the rounds are those of the papers; except that aes with 192 bits takes the first
\* third of the key for its last one, and with 256 bits turns the word in the middle
\* of every eight, which only words whose bytes are equal do not show.
CiphersAgree ==
    /\ Is("speck") => result.back = Second /\ result.keys = PaperKeys(First)
    /\ Is("rc6") => result.back = Second
    /\ Is("aes") =>
        /\ result.back = Second
        /\ (FipsKeys(First, result.keys)
               <=> CASE Len(First) = 4 -> TRUE
                     [] Len(First) = 6 -> SubSeq(First, 5, 6) = SubSeq(First, 1, 2)
                     [] OTHER -> \A k \in 1 .. 6 :
                            LET w == result.keys[2 * k + 1][4] IN RotWord(w) = w)

\* A text of several blocks comes back in every mode, whatever it was chained with; ctr
\* can begin in the middle of a text, with the number of the block, but not with a
\* counter the other way round, unless its bytes are equal.
ModesAgreeOnText ==
    /\ Is("modes") => result.ecb = First /\ result.cbc = First
    /\ Is("ctr") =>
        /\ result.back = First
        /\ First # <<>> => (result.cipher = result.counted <=> Third => byte_swap(Second) = Second)

\* Ciphers and their modes give back what was enciphered, with the keys of the papers
\* but for two lengths of those of aes.
TextIsDeciphered == CiphersAgree /\ ModesAgreeOnText

\* natural computes what integers do, but for the limbs that carry, borrow, shift or
\* divide wrongly, and leaves numbers that are trimmed.
NaturalArithmetic == TypeOK /\ NaturalSums /\ NaturalProducts /\ NaturalQuotients

\* An extension computes what integers do modulo its size, but for lost carries.
ExtensionArithmetic == WideArithmetic /\ WideProducts

\* An integer written is read back, one that is read is exact or told of, and a size
\* that is sent arrives, but for the digits and bits that each of them overlooks.
IntegersAsText == WrittenIsReadBack /\ ReadIsExactOrTold /\ SizesSurvive

\* Integers and texts are converted to text and back as they should be.
TextIsConverted == IntegersAsText /\ Utf16OfText

\* A floating point number is printed as the shortest text that is its own, or as the
\* nearest one of the precision asked for; a text is read as the number nearest to it,
\* and what was printed is read back; but for the cases each of them lists.
FloatsAsText == ShortestText /\ PreciseText /\ ReadIsNearest /\ FloatIsReadBack
===============================================================================
