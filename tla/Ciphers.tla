-------------------------------- MODULE Ciphers --------------------------------
(***************************************************************************)
(* The block ciphers of fast_io (fast_io_crypto): speck, rc6 and aes, each *)
(* with its key schedule, and the modes ctr and cbc that chain the blocks. *)
(*                                                                         *)
(* A word of speck or rc6 and a byte of aes is a word of Bits bits; the    *)
(* numbers that the code writes for words of its size are constants.       *)
(***************************************************************************)
EXTENDS Words

CONSTANTS
    SpeckTurns,    \* the rotations of speck, <<8, 3>>
    SpeckRounds,   \* 32 to 34
    Seeds,         \* of the keys of rc6, <<0xB7E15163, 0x9E3779B9>>
    RcRounds,      \* 20
    Poly,          \* what a byte of aes is reduced by, 0x1b
    SBox           \* a permutation of the bytes

ASSUME CiphersAssumption ==
    /\ SpeckTurns \in Seq(Nat) /\ SpeckRounds \in Nat \ {0} /\ RcRounds \in Nat \ {0}
    /\ \A b \in WordSet : \E e \in WordSet : SBox[e] = b

XorOf == [u, v \in WordSet |-> Xor(u, v)]
Rotl(v, n) == Shl(v, n % Bits) + Shr(v, Bits - (n % Bits))
Rotr(v, n) == Rotl(v, Bits - (n % Bits))
\* fast_xor_assignment of a block, or of a part of it.
XorSeq(s, t) == FoldLeft(LAMBDA out, i : Append(out, XorOf[s[i], t[i]]), <<>>, Count(Len(s)))

(***************************************************************************)
(* speck                                                                   *)
(***************************************************************************)
speck_round(x, y, k) ==
    LET a == XorOf[Sum(Rotr(x, SpeckTurns[1]), y), k]
    IN  <<a, XorOf[Rotl(y, SpeckTurns[2]), a]>>

\* A bug: the second word is turned back before it is mixed with the first.
SpeckBackLate(x, y, k) ==
    LET e == XorOf[Rotr(y, SpeckTurns[2]), x] IN <<Rotl(Diff(XorOf[x, k], e), SpeckTurns[1]), e>>
speck_back(x, y, k) ==
    LET e == Rotr(XorOf[y, x], SpeckTurns[2])
    IN  <<Rotl(Diff(XorOf[x, k], e), SpeckTurns[1]), e>>

\* The keys of the rounds: the words of the key go round behind the first.
SpeckKeys(key) ==
    LET Turn(s, i) ==
            LET r == speck_round(s.subkeys[2], s.subkeys[1], (i - 1) % Word)
            IN  [subkeys |-> <<r[2]>> \o SubSeq(s.subkeys, 3, Len(key)) \o <<r[1]>>,
                 schedule |-> Append(s.schedule, r[2])]
    IN  FoldLeft(Turn, [subkeys |-> key, schedule |-> <<key[1]>>], Count(SpeckRounds - 1)).schedule

Speck(keys, text) ==
    FoldLeft(LAMBDA s, k : Reverse(speck_round(s[2], s[1], k)), text, keys)
SpeckInverse(keys, text) ==
    FoldLeft(LAMBDA s, k : Reverse(speck_back(s[2], s[1], k)), text, Reverse(keys))

(***************************************************************************)
(* rc6                                                                     *)
(***************************************************************************)
LgW == CHOOSE n \in 0 .. Bits : 2 ^ n <= Bits /\ Bits < 2 ^ (n + 1)
ByMask(v) == v % 2 ^ (LgW + 1)

Rc6Keys(key) ==
    LET n == 2 * RcRounds + 4
        c == Len(key)
        start == [s |-> [i \in 0 .. n - 1 |-> (Seeds[1] + i * Seeds[2]) % Word],
                  l |-> [j \in 0 .. c - 1 |-> key[j + 1]], a |-> 0, b |-> 0]
        Mixed(k, i, j, a) ==
            LET b == Rotl((k.l[j] + a + k.b) % Word, ByMask(Sum(a, k.b)))
            IN  [s |-> [k.s EXCEPT ![i] = a], l |-> [k.l EXCEPT ![j] = b], a |-> a, b |-> b]
        Turn(k, t) == Mixed(k, (t - 1) % n, (t - 1) % c,
                            Rotl((k.s[(t - 1) % n] + k.a + k.b) % Word, 3))
    IN  FoldLeft(Turn, start, Count(3 * (IF c < n THEN n ELSE c))).s

\* B * (2B + 1), turned.
Quadratic(b) == Rotl((b * (Shl(b, 1) + 1)) % Word, LgW)

\* A bug: one of the turns is by its own word.
Rc6RoundOwn(s, a, b, c, d, i) ==
    <<b, Sum(Rotl(XorOf[c, Quadratic(d)], ByMask(Quadratic(d))), s[2 * i + 1]), d,
      Sum(Rotl(XorOf[a, Quadratic(b)], ByMask(Quadratic(d))), s[2 * i])>>
Rc6Round(s, a, b, c, d, i) ==
    <<b, Sum(Rotl(XorOf[c, Quadratic(d)], ByMask(Quadratic(b))), s[2 * i + 1]), d,
      Sum(Rotl(XorOf[a, Quadratic(b)], ByMask(Quadratic(d))), s[2 * i])>>
Rc6(s, text) ==
    LET w == FoldLeft(LAMBDA t, i : Rc6Round(s, t[1], t[2], t[3], t[4], i),
                      <<text[1], Sum(text[2], s[0]), text[3], Sum(text[4], s[1])>>,
                      Count(RcRounds))
    IN  <<Sum(w[1], s[2 * RcRounds + 2]), w[2], Sum(w[3], s[2 * RcRounds + 3]), w[4]>>

Rc6BackRound(s, a, b, c, d, i) ==
    <<XorOf[Rotr(Diff(d, s[2 * i]), ByMask(Quadratic(c))), Quadratic(a)], a,
      XorOf[Rotr(Diff(b, s[2 * i + 1]), ByMask(Quadratic(a))), Quadratic(c)], c>>
Rc6Inverse(s, text) ==
    LET w == FoldLeft(LAMBDA t, i : Rc6BackRound(s, t[1], t[2], t[3], t[4], i),
                      <<Diff(text[1], s[2 * RcRounds + 2]), text[2],
                        Diff(text[3], s[2 * RcRounds + 3]), text[4]>>, CountDown(RcRounds))
    IN  <<w[1], Diff(w[2], s[0]), w[3], Diff(w[4], s[1])>>

(***************************************************************************)
(* The instructions for aes: a block is four columns of four bytes.        *)
(***************************************************************************)
Times2(b) == IF 2 * b < Word THEN 2 * b ELSE XorOf[2 * b - Word, Poly]
GfTimes == [c, b \in WordSet |->
    LET f[n \in 0 .. Bits] ==
            IF n = 0 THEN 0
            ELSE XorOf[Times2(f[n - 1]), IF (c \div 2 ^ (Bits - n)) % 2 = 1 THEN b ELSE 0]
    IN  f[Bits]]
UnBox == [b \in WordSet |-> CHOOSE e \in WordSet : SBox[e] = b]

Four(Of(_)) == <<Of(1), Of(2), Of(3), Of(4)>>
XorBlock(m, k) == Four(LAMBDA c : XorSeq(m[c], k[c]))
BoxWord(w) == Four(LAMBDA r : SBox[w[r]])
RotWord(w) == Append(Tail(w), w[1])
MixWith(m, g) ==
    LET Times(c, r, j) == GfTimes[g[j + 1], m[c][((r + j - 1) % 4) + 1]]
        Mixed(c, r) == XorOf[XorOf[Times(c, r, 0), Times(c, r, 1)], XorOf[Times(c, r, 2), Times(c, r, 3)]]
    IN  Four(LAMBDA c : Four(LAMBDA r : Mixed(c, r)))
SubShifted(m) == Four(LAMBDA c : Four(LAMBDA r : SBox[m[((c + r - 2) % 4) + 1][r]]))
UnSubShifted(m) == Four(LAMBDA c : Four(LAMBDA r : UnBox[m[((c - r + 4) % 4) + 1][r]]))

aesenclast(m, k) == XorBlock(SubShifted(m), k)
aesenc(m, k) == XorBlock(MixWith(SubShifted(m), <<2, 3, 1, 1>>), k)
aesimc(m) == MixWith(m, <<14, 11, 13, 9>>)
aesdeclast(m, k) == XorBlock(UnSubShifted(m), k)
aesdec(m, k) == XorBlock(aesimc(UnSubShifted(m)), k)
WithRcon(w, rcon) == <<XorOf[w[1], rcon]>> \o Tail(w)
aeskeygenassist(k, rcon) ==
    <<BoxWord(k[2]), WithRcon(RotWord(BoxWord(k[2])), rcon),
      BoxWord(k[4]), WithRcon(RotWord(BoxWord(k[4])), rcon)>>
Broadcast(w) == <<w, w, w, w>>

(***************************************************************************)
(* aes                                                                     *)
(***************************************************************************)
\* 1, 2, 4 and so on, the constants of the schedules.
Rcon == [i \in 1 .. 10 |-> FoldLeft(LAMBDA b, j : Times2(b), 1, Count(i - 1))]

Slide(k) == XorBlock(k, <<Zeros(4)>> \o SubSeq(k, 1, 3))
aes_128_key_exp_common(k) == Slide(Slide(Slide(k)))
aes_128_key_exp(k, rcon) ==
    XorBlock(aes_128_key_exp_common(k), Broadcast(aeskeygenassist(k, rcon)[4]))
aes_192_key_exp(k, k2, rcon) ==
    XorBlock(aes_128_key_exp_common(k), Broadcast(aeskeygenassist(k2, rcon)[2]))
aes_192_key_exp_2(k, k2) == XorBlock(Slide(k2), Broadcast(k[4]))
aes_256_key_exp(k, k2, rcon) ==
    XorBlock(aes_128_key_exp_common(k), Broadcast(aeskeygenassist(k2, rcon)[4]))
aes_256_key_exp_2(k, k2) ==
    XorBlock(aes_128_key_exp_common(k), Broadcast(aeskeygenassist(k2, 0)[4]))

Keys128(key) ==
    FoldLeft(LAMBDA ks, i : Append(ks, aes_128_key_exp(Last(ks), Rcon[i])), <<key>>, Count(10))

\* The second block of the key is loaded from its first eight bytes.
Keys192(key) ==
    LET After(s, i, first, second) ==
            LET next == aes_192_key_exp(first, second, Rcon[2 * i])
            IN  [ks |-> s.ks \o <<s.a, SubSeq(s.b, 1, 2) \o SubSeq(first, 1, 2),
                                  SubSeq(first, 3, 4) \o SubSeq(second, 1, 2)>>,
                 a |-> next, b |-> aes_192_key_exp_2(next, second)]
        Turn(s, i) ==
            LET first == aes_192_key_exp(s.a, s.b, Rcon[2 * i - 1])
            IN  After(s, i, first, aes_192_key_exp_2(first, s.b))
        all == FoldLeft(Turn, [ks |-> <<>>, a |-> SubSeq(key, 1, 4),
                               b |-> SubSeq(key, 1, 2) \o <<Zeros(4), Zeros(4)>>], Count(4))
    IN  Append(all.ks, all.a)

Keys256(key) ==
    LET Turn(ks, i) ==
            LET next == aes_256_key_exp(ks[2 * i - 1], ks[2 * i], Rcon[i])
            IN  ks \o <<next, aes_256_key_exp_2(ks[2 * i], next)>>
    IN  Front(FoldLeft(Turn, <<SubSeq(key, 1, 4), SubSeq(key, 5, 8)>>, Count(7)))

AesKeys(key) ==
    CASE Len(key) = 4 -> Keys128(key) [] Len(key) = 6 -> Keys192(key) [] OTHER -> Keys256(key)

\* A bug: the first key of the way back is mixed, too.
DecKeysAllMixed(ks) == [i \in DOMAIN ks |-> aesimc(ks[Len(ks) + 1 - i])]
key_schedule_dec(ks) ==
    [i \in DOMAIN ks |-> IF i \in {1, Len(ks)} THEN ks[Len(ks) + 1 - i] ELSE aesimc(ks[Len(ks) + 1 - i])]

Aes(ks, m) ==
    aesenclast(FoldLeft(aesenc, XorBlock(m, ks[1]), SubSeq(ks, 2, Len(ks) - 1)), Last(ks))
AesInverse(ks, m) ==
    LET dec == key_schedule_dec(ks)
    IN  aesdeclast(FoldLeft(aesdec, XorBlock(m, dec[1]), SubSeq(dec, 2, Len(dec) - 1)), Last(dec))

(***************************************************************************)
(* Modes, over speck: a text is a sequence of blocks.                      *)
(***************************************************************************)
Ecb(keys, text) == [i \in DOMAIN text |-> Speck(keys, text[i])]
EcbInverse(keys, text) == [i \in DOMAIN text |-> SpeckInverse(keys, text[i])]

\* A bug: the way back chains the text it has made.
CbcInverseOfPlain(keys, iv, text) ==
    FoldLeft(LAMBDA s, b : LET plain == XorSeq(SpeckInverse(keys, b), s.iv)
                           IN  [iv |-> plain, text |-> Append(s.text, plain)],
             [iv |-> iv, text |-> <<>>], text).text
Cbc(keys, iv, text) ==
    FoldLeft(LAMBDA s, b : LET cipher == Speck(keys, XorSeq(b, s.iv))
                           IN  [iv |-> cipher, text |-> Append(s.text, cipher)],
             [iv |-> iv, text |-> <<>>], text).text
CbcInverse(keys, iv, text) ==
    FoldLeft(LAMBDA s, b : [iv |-> b, text |-> Append(s.text, XorSeq(SpeckInverse(keys, b), s.iv))],
             [iv |-> iv, text |-> <<>>], text).text

\* The bytes of a counter, of which a word has two, the other way round.
byte_swap(v) == Half * LowHalf(v) + HighHalf(v)

\* The counter in memory is swapped for the cipher, but also when it is set.
CtrStart(start, big) == IF big THEN byte_swap(start) ELSE start
\* A bug: every block is enciphered with the same counter.
CtrStandsStill(keys, nonce, start, big, text) ==
    [i \in DOMAIN text |-> XorSeq(text[i], Speck(keys, <<nonce, CtrStart(start, big)>>))]
Ctr(keys, nonce, start, big, text) ==
    LET Counter(i) == (CtrStart(start, big) + i - 1) % Word
        Seen(i) == IF big THEN byte_swap(Counter(i)) ELSE Counter(i)
    IN  [i \in DOMAIN text |-> XorSeq(text[i], Speck(keys, <<nonce, Seen(i)>>))]
================================================================================
