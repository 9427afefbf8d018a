---------------------------- MODULE TextConversions ----------------------------
(***************************************************************************)
(* Integers as text (fast_io_core_impl/integers): what print writes, by    *)
(* the loop of optimize_size, the tables of twodigits and the groups of    *)
(* jiaendu, and what scan reads (sto.h), with its detection of overflow;   *)
(* and sizes in groups of bits (send_receive.h).  From UTF-8 to UTF-16     *)
(* (fast_io_freestanding_impl/code_cvt): the automaton of                  *)
(* utf_util_table.h, the loop that copies a chunk of the text at once      *)
(* while it is ASCII, and the plain loop for the end of it.                *)
(*                                                                         *)
(* An unsigned type is given by its size M; digits are their values, from  *)
(* the first one.  Bases above Ten have letters.  A text to convert is a   *)
(* sequence of bytes.  Its characters may be signed: those from 128 on are *)
(* then negative, and less than 128.                                       *)
(***************************************************************************)
EXTENDS Integers, Sequences, SequencesExt, FiniteSetsExt

CONSTANTS
    Ten,         \* the base of decimal numbers, and the first with no letters
    Group,       \* the digits in an entry of jiaendu's tables
    TableBytes,  \* what the table of twodigits may take
    ChunkBytes   \* the bytes of a chunk, 16 in a register of SSE

ASSUME TenAssumption == Ten \in Nat \ {0, 1} /\ Group \in Nat \ {0, 1} /\ TableBytes \in Nat
ASSUME ChunkAssumption == ChunkBytes \in Nat \ {0}

Minus == -1
Colon == -2   \* the character after '9'
Other == -3

\* The digits of v, k of them.
Padded(v, base, k) == [i \in 1 .. k |-> (v \div base ^ (k - i)) % base]
ValueOfDigits(s, base) == FoldLeft(LAMBDA v, e : v * base + e, 0, s)

\* chars_len, four digits at a time
CharsLen(v, base) ==
    LET f[n \in 0 .. v] ==
            IF n < base THEN 1
            ELSE IF n < base ^ 2 THEN 2
            ELSE IF n < base ^ 3 THEN 3
            ELSE IF n < base ^ 4 THEN 4
            ELSE 4 + f[n \div base ^ 4]
    IN  f[v]

\* cal_max_int_size
MaxIntSize(M, base) == CharsLen(M - 1, base)
(***************************************************************************)
(* Writing.                                                                *)
(***************************************************************************)

\* optimize_size::output_unsigned
WritePlain(v, base) == Padded(v, base, CharsLen(v, base))

\* cal_base_pw_size: the digits in an entry of the table.
TableChars(base) ==
    LET fits == {k \in 1 .. TableBytes : \A j \in 1 .. k : j * base ^ j < TableBytes}
    IN  Max({2} \cup fits)

SkipZeros(s) == SubSeq(s, Min({i \in DOMAIN s : s[i] # 0}), Len(s))

\* twodigits::output_unsigned
WriteTwoDigits(v, base) ==
    LET k == TableChars(base)
        pw == base ^ k
        f[n \in 0 .. v] ==
            IF pw <= n THEN f[n \div pw] \o Padded(n % pw, base, k)
            ELSE IF base <= n THEN SkipZeros(Padded(n, base, k))
            ELSE <<n>>
    IN  f[v]

\* table5 and its offsets, and the smaller tables: an entry without zeros in front.
TopGroup(v, base) == IF v = 0 THEN <<0>> ELSE SkipZeros(Padded(v, base, Group))

\* jiaendu::output_unsigned of up to 64 bits: the groups below the top one are
\* differences of quotients.
WriteGroups(v, base) ==
    LET pw == base ^ Group
        Quo(i) == v \div pw ^ i
        k == Min({i \in 0 .. 4 : Quo(i) < pw})
        Low(i) == Padded(Quo(i) - Quo(i + 1) * pw, base, Group)
    IN  TopGroup(Quo(k), base) \o FlattenSeq([i \in 1 .. k |-> Low(k - i)])

\* output_unsigned_partial: all the digits of five groups but the first.
WritePartial(v, base) ==
    LET pw == base ^ Group
        Quo(i) == v \div pw ^ i
    IN  Tail(Padded(Quo(4), base, Group))
        \o FlattenSeq([i \in 1 .. 4 |-> Padded(Quo(4 - i) - Quo(5 - i) * pw, base, Group)])

\* jiaendu::output_unsigned of 128 bits
WriteWideGroups(v, base) ==
    LET chunk == base ^ (5 * Group - 1)
        q == v \div chunk
    IN  IF q >= chunk
        THEN <<q \div chunk>> \o WritePartial(q % chunk, base) \o WritePartial(v % chunk, base)
        ELSE IF v >= chunk THEN WriteGroups(q, base) \o WritePartial(v % chunk, base)
        ELSE WriteGroups(v, base)

\* append_nine_digits: two groups after a digit.
NineDigits(v, base) ==
    LET pw == base ^ Group
        Quo(i) == v \div pw ^ i
    IN  <<Quo(2)>> \o Padded(Quo(1) - Quo(2) * pw, base, Group) \o Padded(v - Quo(1) * pw, base, Group)

\* process_integer_output of a signed integer; - of an unsigned wraps.
WriteSigned(v, M, base) ==
    IF v < 0 THEN <<Minus>> \o WritePlain((0 - v) % M, base) ELSE WritePlain(v, base)
(***************************************************************************)
(* Reading.                                                                *)
(***************************************************************************)

\* The value of a character, -1 if it ends the number: with letters ':' is taken
\* for a digit (e<=10).
DigitOf(ch, base) ==
    IF ch \in 0 .. (base - 1) THEN ch
    ELSE IF ch = Colon /\ base > Ten THEN Ten
    ELSE -1
NumberIn(s, base) ==
    LET e == [i \in DOMAIN s |-> DigitOf(s[i], base)]
        ends == {i \in DOMAIN s : e[i] = -1}
    IN  SubSeq(e, 1, IF ends = {} THEN Len(s) ELSE Min(ends) - 1)

Accumulate(t, digits, base, M) == FoldLeft(LAMBDA u, e : (u * base + e) % M, t, digits)

\* A bug: as many digits as the largest number has are always taken.
DetectOverflowLonger(t, length, M, base) == MaxIntSize(M, base) < length

\* detect_overflow
DetectOverflow(t, length, M, base) ==
    \/ MaxIntSize(M, base) < length
    \/ MaxIntSize(M, base) = length /\ t <= base

\* A bug: the sign is not counted.
DetectSignedOverflowSymmetric(t, length, negative, M, base) ==
    /\ MaxIntSize(M, base) <= length
    /\ DetectOverflow(t, length, M, base) \/ M \div 2 - 1 < t

\* detect_signed_overflow: the range is only looked at for the length of the
\* largest unsigned number.
DetectSignedOverflow(t, length, negative, M, base) ==
    /\ MaxIntSize(M, base) <= length
    /\ DetectOverflow(t, length, M, base) \/ M \div 2 - 1 + (IF negative THEN 1 ELSE 0) < t

Number(v) == [told |-> "number", value |-> v]
Error(what) == [told |-> what, value |-> 0]

\* What is collected: for types of 128 bits the first digits, as many as every
\* 64-bit decimal number may have, in 64 bits.  Narrow is 0 for other types.
Collect(digits, base, M, narrow) ==
    IF narrow = 0 THEN Accumulate(0, digits, base, M)
    ELSE LET k == Min({Len(digits), MaxIntSize(narrow, Ten) - 1})
         IN  Accumulate(Accumulate(0, SubSeq(digits, 1, k), base, narrow),
                        SubSeq(digits, k + 1, Len(digits)), base, M)

\* Short numbers of a 128-bit type are not looked at again.
Looks(digits, narrow) == narrow = 0 \/ Len(digits) >= MaxIntSize(narrow, Ten) - 1

\* input_base_number<unsigned>
ReadUnsigned(s, M, narrow, base) ==
    LET digits == NumberIn(s, base)
        t == Collect(digits, base, M, narrow)
    IN  IF digits = <<>> THEN Error("malformed")
        ELSE IF Looks(digits, narrow) /\ DetectOverflow(t, Len(digits), M, base)
        THEN Error("overflow")
        ELSE Number(t)

Signed(t, M) == IF t % M < M \div 2 THEN t % M ELSE (t % M) - M

\* input_base_number<signed>
ReadSigned(s, M, narrow, base) ==
    LET negative == s # <<>> /\ s[1] = Minus
        digits == NumberIn(IF negative THEN Tail(s) ELSE s, base)
        t == Collect(digits, base, M, narrow)
    IN  IF s = <<>> THEN Error("eof")
        ELSE IF Looks(digits, narrow) /\ DetectSignedOverflow(t, Len(digits), negative, M, base)
        THEN Error("overflow")
        ELSE IF negative THEN Number(Signed(M - t, M))
        ELSE IF digits = <<>> THEN Error("malformed")
        ELSE Number(Signed(t, M))

(***************************************************************************)
(* Sizes: groups of g bits, the last with a clear bit above them.          *)
(***************************************************************************)

\* A bug: the largest group ends a size.
SendSizeEarly(n, g) ==
    LET limit == 2 ^ g
        f[k \in 0 .. n] == IF limit < k THEN <<(k % limit) + limit>> \o f[k \div limit] ELSE <<k>>
    IN  f[n]

\* send_size
SendSize(n, g) ==
    LET limit == 2 ^ g
        f[k \in 0 .. n] == IF limit - 1 < k THEN <<(k % limit) + limit>> \o f[k \div limit] ELSE <<k>>
    IN  f[n]

\* receive_size into w bits
ReceiveSize(s, w, g) ==
    LET groups == {i \in DOMAIN s : (i - 1) * g < w}
        ends == {i \in groups : s[i] < 2 ^ g}
    IN  IF ends = {} THEN Error("out of range")
        ELSE Number(FoldLeft(LAMBDA t, i : (t + (s[i] % 2 ^ g) * 2 ^ ((i - 1) * g)) % 2 ^ w,
                             0, [i \in 1 .. Min(ends) |-> i]))

(***************************************************************************)
(* UTF-8 to UTF-16.                                                        *)
(***************************************************************************)

\* The states of the automaton: what may follow.
Accept == "accept"
Reject == "reject"
States == {Accept, Reject, "one", "two", "three",
           "afterE0", "afterED", "afterF0", "afterF4"}

\* first_unit_info: the bits of the first byte, and the state it leads to.
FirstUnit(b) ==
    CASE b \in 194 .. 223              -> [bits |-> b - 192, state |-> "one"]
      [] b = 224                       -> [bits |-> 0, state |-> "afterE0"]
      [] b = 237                       -> [bits |-> 13, state |-> "afterED"]
      [] b \in (225 .. 239) \ {237}    -> [bits |-> b - 224, state |-> "two"]
      [] b = 240                       -> [bits |-> 0, state |-> "afterF0"]
      [] b \in 241 .. 243              -> [bits |-> b - 240, state |-> "three"]
      [] b = 244                       -> [bits |-> 4, state |-> "afterF4"]
      [] OTHER                         -> [bits |-> b, state |-> Reject]

\* transitions, by the octet_category of the byte.
Transition(state, b) ==
    CASE state = "one"     /\ b \in 128 .. 191 -> Accept
      [] state = "two"     /\ b \in 128 .. 191 -> "one"
      [] state = "three"   /\ b \in 128 .. 191 -> "two"
      [] state = "afterE0" /\ b \in 160 .. 191 -> "one"
      [] state = "afterED" /\ b \in 128 .. 159 -> "one"
      [] state = "afterF0" /\ b \in 144 .. 191 -> "two"
      [] state = "afterF4" /\ b \in 128 .. 143 -> "two"
      [] OTHER                                 -> Reject

\* advance_with_big_table, from the byte at i: the code point, and the next byte.
Advance(s, i) ==
    LET first == FirstUnit(s[i])
        Goes[k \in 0 .. 3] ==
            IF k = 0 THEN [state |-> first.state, cdpt |-> first.bits, next |-> i + 1]
            ELSE LET at == Goes[k - 1]
                 IN  IF at.state \in {Accept, Reject} THEN at
                     ELSE IF at.next > Len(s) THEN [at EXCEPT !.state = Reject]
                     ELSE [state |-> Transition(at.state, s[at.next]),
                           cdpt |-> at.cdpt * 64 + (s[at.next] % 64),
                           next |-> at.next + 1]
    IN  Goes[3]

\* A bug: the offset of the first plane stays in the high surrogate.
Units16Plane(c) ==
    IF c < 2 ^ 16 THEN <<c>> ELSE <<55296 + c \div 1024, 56320 + (c % 1024)>>

\* get_code_units, for units of two bytes and of one.
Units16(c) ==
    IF c < 2 ^ 16 THEN <<c>> ELSE <<(55232 + c \div 1024) % (2 ^ 16), 56320 + (c % 1024)>>

Follow(c, k) == 128 + ((c \div 64 ^ k) % 64)
Units8(c) ==
    IF c < 2 ^ 7 THEN <<c>>
    ELSE IF c < 2 ^ 11 THEN <<192 + c \div 64, Follow(c, 0)>>
    ELSE IF c < 2 ^ 16 THEN <<224 + c \div 64 ^ 2, Follow(c, 1), Follow(c, 0)>>
    ELSE IF c < 17 * 2 ^ 16 THEN <<240 + c \div 64 ^ 3, Follow(c, 2), Follow(c, 1), Follow(c, 0)>>
    ELSE <<>>

\* A character of the text as the comparison with 128 and a unit of 16 bits take it.
LooksAscii(b, signed) == signed \/ b < 128
AsUnit(b, signed) == IF signed /\ b >= 128 THEN 2 ^ 16 - 2 ^ 8 + b ELSE b

\* convert_ascii_with_sse: how far the chunk at i lets the pointers go.
AsciiAhead(s, i) ==
    Min({k \in 0 .. (ChunkBytes - 1) : s[i + k] >= 128} \cup {ChunkBytes})

\* What is left to do from a byte on: the units that stay, how far past the pointer
\* anything is stored, and how the loop ends.
Ends(told) == [told |-> told, units |-> <<>>, reach |-> 0]
Stores(units, reach, rest) ==
    [told |-> rest.told, units |-> units \o rest.units,
     reach |-> Max({reach, Len(units) + rest.reach})]

\* The loop of chunks leaves at least one byte of the text.
ChunkFits(n, i) == i + ChunkBytes <= n

\* code_cvt_from_utf8_to_utf16
Convert(s, signed) ==
    LET n == Len(s)
        f[k \in 0 .. n] ==    \* with k bytes left
            LET i == n - k + 1
                ahead == AsciiAhead(s, i)
                point == Advance(s, i)
            IN  IF k = 0 THEN Ends("text")
                ELSE IF ChunkFits(n, i) /\ LooksAscii(s[i], signed)
                THEN IF ahead = 0 THEN Ends("stuck")
                     ELSE Stores(SubSeq(s, i, i + ahead - 1), ChunkBytes, f[k - ahead])
                ELSE IF LooksAscii(s[i], signed)
                THEN Stores(<<AsUnit(s[i], signed)>>, 1, f[k - 1])
                ELSE IF point.state = Reject THEN Ends("illegal utf8")
                ELSE LET units == Units16(point.cdpt)
                     IN  Stores(units, Len(units), f[n - point.next + 1])
    IN  f[n]
================================================================================
