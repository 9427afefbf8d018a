---------------------------- MODULE StreamProofs ----------------------------
(***************************************************************************)
(* Proofs about the streams over other streams: otransform and itransform  *)
(* for every set of objects, buffer size, block size and text, and         *)
(* basic_ibuf for every block size, source, set of requests and way the    *)
(* device splits what it gives.                                            *)
(***************************************************************************)
EXTENDS Ibuf, Transforms, SequenceTheorems, WellFoundedInduction, TLAPS

(***************************************************************************)
(* Induction over data.  The provers take a set where they cannot take an  *)
(* operator: what holds for all numbers is a set that has all of them.     *)
(***************************************************************************)

\* Sequences are joined in either order.
Associate(s, t, u) == (s \o t) \o u = s \o (t \o u)

\* Any three do.
LEMMA AllAssociate ==
    ASSUME NEW S, NEW s \in Seq(S), NEW t \in Seq(S), NEW u \in Seq(S)
    PROVE  Associate(s, t, u)
  BY ConcatAssociative DEF Associate

\* Of the numbers in a set there is a least one.
LEMMA LeastNumber ==
    ASSUME NEW S \in SUBSET Nat, S # {}
    PROVE  \E n \in S : \A m \in S : ~(m < n)
<1> DEFINE R == OpToRel(<, Nat)
<1>1. IsWellFoundedOn(R, Nat)
  BY NatLessThanWellFounded
<1>2. \A m, n \in Nat : <<m, n>> \in R <=> m < n
  BY DEF OpToRel
<1> HIDE DEF R
<1>3. \E n \in S : \A m \in S : ~(<<m, n>> \in R)
  BY <1>1, WFMin
<1> QED
  BY <1>2, <1>3

\* A set of numbers with 0, and with each also the next, has all of them.
LEMMA AllNumbers ==
    ASSUME NEW S, 0 \in S, \A n \in Nat : n \in S => n + 1 \in S
    PROVE  \A n \in Nat : n \in S
<1> SUFFICES ASSUME Nat \ S # {} PROVE FALSE
  OBVIOUS
<1>1. PICK n \in Nat \ S : \A m \in Nat \ S : ~(m < n)
  BY LeastNumber
<1>2. n - 1 \in Nat /\ n - 1 \in S /\ (n - 1) + 1 = n
  BY <1>1
<1> QED
  BY <1>1, <1>2

\* A set that has a number when it has all that are less, has all of them.
LEMMA AllNumbersFromLess ==
    ASSUME NEW S, \A n \in Nat : (\A m \in Nat : m < n => m \in S) => n \in S
    PROVE  \A n \in Nat : n \in S
<1> SUFFICES ASSUME Nat \ S # {} PROVE FALSE
  OBVIOUS
<1>1. PICK n \in Nat \ S : \A m \in Nat \ S : ~(m < n)
  BY LeastNumber
<1> QED
  BY <1>1

(***************************************************************************)
(* FlattenSeq, by its recursive function.                                  *)
(***************************************************************************)

Flattens(g, s, n) == g = [i \in 1 .. n |-> IF i = 1 THEN s[i] ELSE g[i - 1] \o s[i]]

\* The function that FlattenSeq chooses exists.
LEMMA FlattenExists ==
    ASSUME NEW s
    PROVE  \A n \in Nat : \E g : Flattens(g, s, n)
<1> DEFINE S == {n \in Nat : \E g : Flattens(g, s, n)}
<1>1. 0 \in S
  <2> DEFINE g == [i \in 1 .. 0 |-> 0]
  <2>1. Flattens(g, s, 0)
    BY DEF Flattens
  <2> QED
    BY <2>1
<1>2. ASSUME NEW n \in Nat, n \in S PROVE n + 1 \in S
  <2>1. PICK g : Flattens(g, s, n)
    BY <1>2
  <2> DEFINE h == [i \in 1 .. n + 1 |-> IF i <= n THEN g[i]
                                          ELSE IF i = 1 THEN s[i] ELSE g[i - 1] \o s[i]]
  <2>2. \A i \in 1 .. n + 1 : h[i] = IF i = 1 THEN s[i] ELSE h[i - 1] \o s[i]
    <3> TAKE i \in 1 .. n + 1
    <3>1. CASE i <= n
      <4>0. i \in 1 .. n
        BY <3>1
      <4>1. g[i] = IF i = 1 THEN s[i] ELSE g[i - 1] \o s[i]
        BY <2>1, <4>0, Zenon DEF Flattens
      <4>2. i # 1 => i - 1 \in 1 .. n + 1 /\ i - 1 <= n
        BY <3>1
      <4> QED
        BY <3>1, <4>1, <4>2
    <3>2. CASE i = n + 1
      <4>1. i # 1 => i - 1 \in 1 .. n + 1 /\ i - 1 <= n /\ ~(i <= n)
        BY <3>2
      <4> QED
        BY <3>2, <4>1
    <3> QED
      BY <3>1, <3>2
  <2> HIDE DEF h
  <2>3. h = [i \in 1 .. n + 1 |-> h[i]]
    BY DEF h
  <2>4. Flattens(h, s, n + 1)
    BY <2>2, <2>3 DEF Flattens
  <2> QED
    BY <2>4
<1> HIDE DEF S
<1>3. \A n \in Nat : n \in S
  BY <1>1, <1>2, AllNumbers
<1> QED
  BY <1>3 DEF S

\* FlattenSeq is the last value of a function that appends one sequence after the other.
LEMMA FlattenSteps ==
    ASSUME NEW s, NEW n \in Nat \ {0}, Len(s) = n
    PROVE  \E g : /\ FlattenSeq(s) = g[n] /\ g[1] = s[1]
                  /\ \A i \in 2 .. n : g[i] = g[i - 1] \o s[i]
<1> DEFINE G == CHOOSE g : Flattens(g, s, n)
<1>1. Flattens(G, s, n)
  BY FlattenExists
<1>2. FlattenSeq(s) = G[n]
  BY DEF FlattenSeq, Flattens
<1> HIDE DEF G
<1>3. \A i \in 1 .. n : G[i] = IF i = 1 THEN s[i] ELSE G[i - 1] \o s[i]
  BY <1>1, Zenon DEF Flattens
<1>4. 1 \in 1 .. n /\ \A i \in 2 .. n : i \in 1 .. n /\ i # 1
  OBVIOUS
<1> QED
  BY <1>2, <1>3, <1>4

\* One more sequence is appended to the flat ones.
LEMMA FlattenAppend ==
    ASSUME NEW S, NEW s \in Seq(Seq(S)), NEW x \in Seq(S)
    PROVE  FlattenSeq(Append(s, x)) = FlattenSeq(s) \o x
<1> DEFINE n == Len(s)  t == Append(s, x)
<1>1. /\ n \in Nat /\ Len(t) = n + 1 /\ n + 1 \in Nat \ {0} /\ t[n + 1] = x
      /\ \A i \in 1 .. n : t[i] = s[i]
  OBVIOUS
<1>2. PICK h : /\ FlattenSeq(t) = h[n + 1] /\ h[1] = t[1]
               /\ \A i \in 2 .. n + 1 : h[i] = h[i - 1] \o t[i]
  <2> HIDE DEF t, n
  <2> QED
    BY <1>1, FlattenSteps
<1>3. CASE n = 0
  <2>1. FlattenSeq(s) = <<>>
    BY <1>3 DEF FlattenSeq
  <2>2. FlattenSeq(t) = x
    BY <1>1, <1>2, <1>3
  <2> QED
    BY <2>1, <2>2
<1>4. CASE n # 0
  <2> HIDE DEF t
  <2>0. n \in Nat \ {0} /\ n - 1 \in Nat
    BY <1>1, <1>4
  <2>1. PICK g : /\ FlattenSeq(s) = g[n] /\ g[1] = s[1]
                 /\ \A i \in 2 .. n : g[i] = g[i - 1] \o s[i]
    BY <2>0, FlattenSteps
  <2> DEFINE A == {i \in Nat : i + 1 \in 1 .. n => g[i + 1] = h[i + 1]}
  <2>2. 0 \in A
    BY <1>1, <1>2, <2>1
  <2>3. ASSUME NEW i \in Nat, i \in A PROVE i + 1 \in A
    <3>1. CASE (i + 1) + 1 \in 1 .. n
      <4>1. g[i + 1] = h[i + 1] /\ (i + 1) + 1 \in 2 .. n /\ ((i + 1) + 1) - 1 = i + 1
        BY <2>3, <3>1
      <4>2. (i + 1) + 1 \in 2 .. n + 1
        BY <4>1, <1>1
      <4> DEFINE j == (i + 1) + 1
      <4>3. g[j] = g[j - 1] \o s[j] /\ h[j] = h[j - 1] \o t[j] /\ t[j] = s[j] /\ j - 1 = i + 1
        BY <1>1, <1>2, <2>1, <3>1, <4>1, <4>2
      <4> HIDE DEF j
      <4>4. g[j] = h[j]
        BY <4>1, <4>3
      <4> QED
        BY <4>4 DEF j
    <3> QED
      BY <3>1
  <2> HIDE DEF A
  <2>4. n - 1 \in A
    BY <2>0, <2>2, <2>3, AllNumbers
  <2>5. g[n] = h[n]
    BY <1>1, <1>4, <2>4 DEF A
  <2>6. h[n + 1] = h[n] \o t[n + 1]
    <3>1. n + 1 \in 2 .. n + 1 /\ (n + 1) - 1 = n
      BY <1>1, <1>4
    <3> HIDE DEF n
    <3> QED
      BY <1>2, <3>1
  <2> QED
    BY <1>1, <1>2, <2>1, <2>5, <2>6 DEF t
<1> QED
  BY <1>3, <1>4

\* No part leaves nothing.
LEMMA FlattenEmpty == FlattenSeq(<<>>) = <<>>
  BY DEF FlattenSeq

\* What is flat is a sequence, and two parts are flattened one after the other.
LEMMA FlattenConcat ==
    ASSUME NEW S, NEW s \in Seq(Seq(S))
    PROVE  /\ FlattenSeq(s) \in Seq(S)
           /\ \A t \in Seq(Seq(S)) : FlattenSeq(s \o t) = FlattenSeq(s) \o FlattenSeq(t)
<1> DEFINE A == {n \in Nat : \A t \in Seq(Seq(S)) : Len(t) = n => FlattenSeq(t) \in Seq(S)}
           B == {n \in Nat : \A t \in Seq(Seq(S)) : Len(t) = n =>
                                 FlattenSeq(s \o t) = FlattenSeq(s) \o FlattenSeq(t)}
<1>1. ASSUME NEW n \in Nat, NEW t \in Seq(Seq(S)), Len(t) = n + 1
      PROVE  \E u \in Seq(Seq(S)), x \in Seq(S) : t = Append(u, x) /\ Len(u) = n
  <2> DEFINE u == SubSeq(t, 1, n)  x == t[n + 1]
  <2>1. u \in Seq(Seq(S)) /\ x \in Seq(S) /\ Len(u) = n
    BY <1>1
  <2>2. t = Append(u, x)
    BY <1>1, <2>1
  <2> QED
    BY <2>1, <2>2
<1>2. 0 \in A
  <2>1. ASSUME NEW t \in Seq(Seq(S)), Len(t) = 0 PROVE t = <<>>
    BY <2>1
  <2> QED
    BY <2>1, FlattenEmpty
<1>3. ASSUME NEW n \in Nat, n \in A PROVE n + 1 \in A
  <2>1. ASSUME NEW t \in Seq(Seq(S)), Len(t) = n + 1 PROVE FlattenSeq(t) \in Seq(S)
    <3>1. PICK u \in Seq(Seq(S)), x \in Seq(S) : t = Append(u, x) /\ Len(u) = n
      BY <1>1, <2>1
    <3>2. FlattenSeq(t) = FlattenSeq(u) \o x
      BY <3>1, FlattenAppend
    <3>3. FlattenSeq(u) \in Seq(S)
      BY <1>3, <3>1
    <3> HIDE DEF A
    <3> QED
      BY <3>2, <3>3
  <2> QED
    BY <2>1
<1>4. \A n \in Nat : n \in A
  <2> HIDE DEF A
  <2> QED
    BY <1>2, <1>3, AllNumbers
<1>5. \A t \in Seq(Seq(S)) : FlattenSeq(t) \in Seq(S)
  BY <1>4
<1> HIDE DEF A
<1>6. 0 \in B
  <2>1. ASSUME NEW t \in Seq(Seq(S)), Len(t) = 0
        PROVE  FlattenSeq(s \o t) = FlattenSeq(s) \o FlattenSeq(t)
    <3>1. t = <<>> /\ s \o t = s
      BY <2>1
    <3>2. FlattenSeq(s) \o <<>> = FlattenSeq(s)
      BY <1>5
    <3> QED
      BY <3>1, <3>2, FlattenEmpty
  <2> QED
    BY <2>1
<1>7. ASSUME NEW n \in Nat, n \in B PROVE n + 1 \in B
  <2>1. ASSUME NEW t \in Seq(Seq(S)), Len(t) = n + 1
        PROVE  FlattenSeq(s \o t) = FlattenSeq(s) \o FlattenSeq(t)
    <3>1. PICK u \in Seq(Seq(S)), x \in Seq(S) : t = Append(u, x) /\ Len(u) = n
      BY <1>1, <2>1
    <3>2. FlattenSeq(s \o u) = FlattenSeq(s) \o FlattenSeq(u)
      BY <1>7, <3>1
    <3> HIDE DEF B
    <3>3. s \o t = Append(s \o u, x) /\ s \o u \in Seq(Seq(S))
      BY <3>1
    <3>4. FlattenSeq(s \o t) = FlattenSeq(s \o u) \o x /\ FlattenSeq(t) = FlattenSeq(u) \o x
      BY <3>1, <3>3, FlattenAppend
    <3>5. (FlattenSeq(s) \o FlattenSeq(u)) \o x = FlattenSeq(s) \o (FlattenSeq(u) \o x)
      <4>1. FlattenSeq(s) \in Seq(S) /\ FlattenSeq(u) \in Seq(S) /\ x \in Seq(S)
        BY <1>5
      <4>2. Associate(FlattenSeq(s), FlattenSeq(u), x)
        BY <4>1, AllAssociate
      <4> QED
        BY <4>2 DEF Associate
    <3> QED
      BY <3>2, <3>4, <3>5
  <2> QED
    BY <2>1
<1>8. \A n \in Nat : n \in B
  <2> HIDE DEF B
  <2> QED
    BY <1>6, <1>7, AllNumbers
<1> QED
  BY <1>5, <1>8

\* A single sequence is flat.
LEMMA FlattenSingle ==
    ASSUME NEW S, NEW x \in Seq(S)
    PROVE  FlattenSeq(<<x>>) = x
<1>1. <<x>> = Append(<<>>, x) /\ <<>> \in Seq(Seq(S)) /\ <<>> \o x = x
  OBVIOUS
<1> QED
  BY <1>1, FlattenAppend, FlattenEmpty

(***************************************************************************)
(* Transforms: the inductive invariant                                     *)
(***************************************************************************)

Entries == [id : Int, n : Seq(Int)]
Lives == {"unborn", "live", "moved", "dead", "wild"}

TransformTypes ==
    /\ kind \in {"text", "cipher"}
    /\ text \in [Obj -> Seq(Character)]
    /\ life \in [Obj -> Lives]
    /\ buf \in [Obj -> Seq(Entries)]
    /\ under \in [Obj -> Obj]
    /\ rest \in [Obj -> Nat]
    /\ out \in [Obj -> Seq(Entries)]
    /\ calls \in [Obj -> Nat]
    /\ given \in [Obj -> Nat]
    /\ again \in [Obj -> BOOLEAN]
    /\ lost \in [Obj -> BOOLEAN]
    /\ trouble \in Nat

Calm == \A o \in Obj : life[o] # "wild"

\* Blocks and texts have room, and a write in progress has what it writes.
Room ==
    /\ \A o \in Obj : Len(buf[o]) <= BufferSize
    /\ \A d \in Obj : given[d] <= Len(text[d])
    /\ \A o \in Obj : rest[o] > 0 =>
          life[o] = "live" /\ given[under[o]] + rest[o] <= Len(text[under[o]])
    /\ Calm \/ \A o \in Obj : rest[o] = 0

\* A stream is held by one object, which was built, and nothing was done to one that
\* was not.
Holders ==
    /\ \A o, r \in Obj : o # r /\ life[o] = "live" /\ life[r] = "live" => under[o] # under[r]
    /\ \A o \in Obj : life[o] # "unborn" => life[under[o]] # "unborn"
    /\ \A o \in Obj : life[o] = "unborn" =>
          /\ under[o] = o /\ buf[o] = <<>> /\ out[o] = <<>> /\ calls[o] = 0 /\ given[o] = 0
          /\ ~again[o] /\ ~lost[o]

Ids(s) == {s[i].id : i \in 1 .. Len(s)}
Whole(n) == kind = "cipher" => n % BlockSize = 0

\* The stream below d has the first n characters of its text, each once.
Handed(d, n) ==
    /\ Whole(n)
    /\ out[d] = AsGiven(d, n)
    /\ kind = "cipher" => calls[d] = n \div BlockSize

\* What o holds are the last characters that were given, and the n before are below.
HeldAt(o, d, n) ==
    /\ given[d] = n + Len(buf[o])
    /\ \A i \in 1 .. Len(buf[o]) : buf[o][i].id = n + i
    /\ ~lost[d] => Whole(n) /\ \A i \in 1 .. n : i \in Ids(out[d])
    /\ ~lost[d] /\ ~again[d] => buf[o] = IdRange(n + 1, given[d]) /\ Handed(d, n)

HeldOK(o) == \E d \in Obj, n \in Nat : d = under[o] /\ HeldAt(o, d, n)

\* A stream that nobody holds any more has all n characters.
LeftAt(d, n) ==
    ~lost[d] =>
        /\ \A i \in 1 .. n : i \in Ids(out[d])
        /\ ~again[d] =>
             IF kind = "cipher" /\ n > 0
             THEN /\ IsPrefix(AsGiven(d, n), out[d]) /\ Len(out[d]) % BlockSize = 0
                  /\ Len(out[d]) - n \in 1 .. BlockSize
             ELSE out[d] = AsGiven(d, n)

LeftOK(d) == \E n \in Nat : n = given[d] /\ LeftAt(d, n)

LostForReason ==
    \A d \in Obj : lost[d] => trouble > 0 \/ (kind = "cipher" /\ BufferSize % BlockSize # 0)

StreamsOK ==
    /\ \A o \in Obj : life[o] = "live" => HeldOK(o)
    /\ Calm => \A d \in Obj : (\A o \in Obj : life[o] = "live" => under[o] # d) => LeftOK(d)
    /\ LostForReason
    /\ WildOnlyAligned

TransformInv == TransformTypes /\ Room /\ Holders /\ StreamsOK

(***************************************************************************)
(* Texts of numbered characters                                            *)
(***************************************************************************)

\* A character as its client gave it is an entry.
LEMMA NamedEntries == ASSUME NEW i \in Int PROVE Named(i) \in Entries
  BY DEF Named, Entries

\* IdRange is a sequence of the characters in the order of the text.
LEMMA IdRangeIs ==
    ASSUME NEW i \in Nat, NEW j \in Nat, i <= j
    PROVE  /\ IdRange(i + 1, j) \in Seq(Entries)
           /\ Len(IdRange(i + 1, j)) = j - i
           /\ \A k \in 1 .. j - i : IdRange(i + 1, j)[k] = Named(i + k)
<1>1. (j - (i + 1)) + 1 = j - i /\ j - i \in Nat
  OBVIOUS
<1>2. \A k \in 1 .. j - i : ((i + 1) + k) - 1 = i + k /\ i + k \in Int
  OBVIOUS
<1>3. IdRange(i + 1, j) = [k \in 1 .. j - i |-> Named(i + k)]
  BY <1>1, <1>2 DEF IdRange
<1>4. \A k \in 1 .. j - i : Named(i + k) \in Entries
  BY <1>2, NamedEntries
<1> DEFINE n == j - i  s == [k \in 1 .. n |-> Named(i + k)]
<1>5. s \in [1 .. n -> Entries]
  BY <1>4
<1> HIDE DEF s, n
<1>6. s \in Seq(Entries) /\ Len(s) = n
  BY <1>1, <1>5 DEF n
<1>7. \A k \in 1 .. n : s[k] = Named(i + k)
  BY DEF s
<1> QED
  BY <1>3, <1>6, <1>7 DEF s, n

\* A sequence is a range if it has the characters of it, and no more.
LEMMA IsRange ==
    ASSUME NEW s \in Seq(Entries), NEW i \in Nat, NEW j \in Nat, i <= j, Len(s) = j - i,
           \A k \in 1 .. j - i : s[k] = Named(i + k)
    PROVE  s = IdRange(i + 1, j)
<1> DEFINE t == IdRange(i + 1, j)
<1>1. t \in Seq(Entries) /\ Len(t) = j - i /\ \A k \in 1 .. j - i : t[k] = Named(i + k)
  BY IdRangeIs
<1> HIDE DEF t
<1>2. s = t
  BY <1>1, SeqEqual
<1> QED
  BY <1>2 DEF t

\* Two ranges of the text that meet are one range.
LEMMA RangesConcat ==
    ASSUME NEW i \in Nat, NEW j \in Nat, NEW k \in Nat, i <= j, j <= k
    PROVE  IdRange(i + 1, j) \o IdRange(j + 1, k) = IdRange(i + 1, k)
<1> DEFINE s == IdRange(i + 1, j)  t == IdRange(j + 1, k)
<1>1. s \in Seq(Entries) /\ Len(s) = j - i /\ \A m \in 1 .. j - i : s[m] = Named(i + m)
  BY IdRangeIs
<1>2. t \in Seq(Entries) /\ Len(t) = k - j /\ \A m \in 1 .. k - j : t[m] = Named(j + m)
  BY IdRangeIs
<1> HIDE DEF s, t
<1>3. /\ s \o t \in Seq(Entries) /\ Len(s \o t) = k - i
      /\ \A m \in 1 .. k - i : (s \o t)[m] = IF m <= j - i THEN s[m] ELSE t[m - (j - i)]
  <2>1. s \in Seq(Entries) /\ t \in Seq(Entries)
    BY <1>1, <1>2
  <2>2. /\ s \o t \in Seq(Entries) /\ Len(s \o t) = Len(s) + Len(t)
        /\ \A m \in 1 .. Len(s) + Len(t) :
              (s \o t)[m] = IF m <= Len(s) THEN s[m] ELSE t[m - Len(s)]
    BY <2>1, ConcatProperties
  <2>3. Len(s) = j - i /\ Len(s) + Len(t) = k - i
    BY <1>1, <1>2
  <2> QED
    BY <2>2, <2>3
<1>4. \A m \in 1 .. k - i : (s \o t)[m] = Named(i + m)
  <2> TAKE m \in 1 .. k - i
  <2>1. CASE m <= j - i
    BY <1>1, <1>3, <2>1
  <2>2. CASE ~(m <= j - i)
    <3>1. m - (j - i) \in 1 .. k - j /\ j + (m - (j - i)) = i + m
      BY <2>2
    <3> QED
      BY <1>2, <1>3, <2>2, <3>1
  <2> QED
    BY <2>1, <2>2
<1>5. s \o t = IdRange(i + 1, k)
  <2>1. i <= k
    OBVIOUS
  <2> QED
    BY <1>3, <1>4, <2>1, IsRange
<1> QED
  BY <1>5 DEF s, t

\* A range of the text cut in two is two ranges that meet.
LEMMA RangesCut ==
    ASSUME NEW i \in Nat, NEW j \in Nat, i <= j, NEW m \in Nat, m <= j - i
    PROVE  /\ SubSeq(IdRange(i + 1, j), 1, m) = IdRange(i + 1, i + m)
           /\ SubSeq(IdRange(i + 1, j), m + 1, j - i) = IdRange((i + m) + 1, j)
<1> DEFINE s == IdRange(i + 1, j)
<1>1. s \in Seq(Entries) /\ Len(s) = j - i /\ \A k \in 1 .. j - i : s[k] = Named(i + k)
  BY IdRangeIs
<1> HIDE DEF s
<1>2. SubSeq(s, 1, m) = IdRange(i + 1, i + m)
  <2> DEFINE t == SubSeq(s, 1, m)
  <2>1. t \in Seq(Entries) /\ Len(t) = (i + m) - i /\ \A k \in 1 .. (i + m) - i : t[k] = s[k]
    BY <1>1
  <2> HIDE DEF t
  <2>2. \A k \in 1 .. (i + m) - i : t[k] = Named(i + k)
    BY <1>1, <2>1
  <2>3. t = IdRange(i + 1, i + m)
    BY <2>1, <2>2, IsRange
  <2> QED
    BY <2>3 DEF t
<1>3. SubSeq(s, m + 1, j - i) = IdRange((i + m) + 1, j)
  <2> DEFINE t == SubSeq(s, m + 1, j - i)
  <2>1. t \in Seq(Entries) /\ Len(t) = j - (i + m) /\ \A k \in 1 .. j - (i + m) : t[k] = s[m + k]
    BY <1>1
  <2> HIDE DEF t
  <2>2. \A k \in 1 .. j - (i + m) : t[k] = Named((i + m) + k)
    <3> TAKE k \in 1 .. j - (i + m)
    <3>1. m + k \in 1 .. j - i /\ i + (m + k) = (i + m) + k
      OBVIOUS
    <3> QED
      BY <1>1, <2>1, <3>1
  <2>3. t = IdRange((i + m) + 1, j)
    <3>1. i + m \in Nat /\ i + m <= j
      OBVIOUS
    <3> QED
      BY <2>1, <2>2, <3>1, IsRange
  <2> QED
    BY <2>3 DEF t
<1> QED
  BY <1>2, <1>3 DEF s

\* A range cut after m characters.
RangeCut(i, j, m) ==
    /\ SubSeq(IdRange(i + 1, j), 1, m) = IdRange(i + 1, i + m)
    /\ SubSeq(IdRange(i + 1, j), m + 1, j - i) = IdRange((i + m) + 1, j)

\* Any range is cut so.
LEMMA RangeIsCut ==
    ASSUME NEW i \in Nat, NEW j \in Nat, i <= j, NEW m \in Nat, m <= j - i
    PROVE  RangeCut(i, j, m)
  BY RangesCut DEF RangeCut

\* A range that ends before it begins is empty.
LEMMA EmptyRange == ASSUME NEW i \in Nat PROVE IdRange(i + 1, i) = <<>>
  BY IdRangeIs

(***************************************************************************)
(* What binary_to_text makes of a text: '\r' before each '\n'.             *)
(***************************************************************************)

Pieces(d, s) == [i \in DOMAIN s |-> IF text[d][s[i].id] = "nl" THEN <<Cr, s[i]>> ELSE <<s[i]>>]

\* binary_to_text makes one piece of each character, with a carriage return before a newline.
LEMMA PiecesAre ==
    ASSUME NEW d, NEW s \in Seq(Entries)
    PROVE  /\ AsText(d, s) = FlattenSeq(Pieces(d, s))
           /\ Pieces(d, s) \in Seq(Seq(Entries)) /\ Len(Pieces(d, s)) = Len(s)
           /\ \A i \in 1 .. Len(s) :
                 Pieces(d, s)[i] = IF text[d][s[i].id] = "nl" THEN <<Cr, s[i]>> ELSE <<s[i]>>
<1>1. AsText(d, s) = FlattenSeq(Pieces(d, s))
  BY DEF AsText, Pieces
<1>2. Cr \in Entries
  BY NamedEntries DEF Cr
<1>3. \A i \in 1 .. Len(s) : s[i] \in Entries /\ <<s[i]>> \in Seq(Entries) /\ <<Cr, s[i]>> \in Seq(Entries)
  BY <1>2
<1>4. DOMAIN s = 1 .. Len(s) /\ Len(s) \in Nat
  OBVIOUS
<1> QED
  BY <1>1, <1>3, <1>4 DEF Pieces

\* The text of two parts is the text of one and then of the other.
LEMMA TextOfParts ==
    ASSUME NEW d, NEW s \in Seq(Entries), NEW t \in Seq(Entries)
    PROVE  AsText(d, s) \in Seq(Entries) /\ AsText(d, s \o t) = AsText(d, s) \o AsText(d, t)
<1> DEFINE p == Pieces(d, s)  q == Pieces(d, t)  r == Pieces(d, s \o t)
<1>1. AsText(d, s) = FlattenSeq(p) /\ p \in Seq(Seq(Entries)) /\ Len(p) = Len(s)
  BY PiecesAre
<1>2. AsText(d, t) = FlattenSeq(q) /\ q \in Seq(Seq(Entries)) /\ Len(q) = Len(t)
  BY PiecesAre
<1>3. s \o t \in Seq(Entries) /\ Len(s \o t) = Len(s) + Len(t)
  OBVIOUS
<1>4. AsText(d, s \o t) = FlattenSeq(r) /\ r \in Seq(Seq(Entries)) /\ Len(r) = Len(s) + Len(t)
  BY <1>3, PiecesAre
<1>5. \A i \in 1 .. Len(s) + Len(t) : r[i] = (p \o q)[i]
  <2> TAKE i \in 1 .. Len(s) + Len(t)
  <2>1. r[i] = IF text[d][(s \o t)[i].id] = "nl" THEN <<Cr, (s \o t)[i]>> ELSE <<(s \o t)[i]>>
    BY <1>3, PiecesAre
  <2>2. CASE i <= Len(s)
    <3>1. i \in 1 .. Len(s) /\ (s \o t)[i] = s[i]
      BY <2>2
    <3>2. p[i] = IF text[d][s[i].id] = "nl" THEN <<Cr, s[i]>> ELSE <<s[i]>>
      BY <3>1, PiecesAre
    <3> HIDE DEF p, q, r
    <3>3. (p \o q)[i] = p[i]
      BY <1>1, <1>2, <3>1
    <3> QED
      BY <2>1, <3>1, <3>2, <3>3
  <2>3. CASE ~(i <= Len(s))
    <3> DEFINE k == i - Len(s)
    <3>1. k \in 1 .. Len(t) /\ (s \o t)[i] = t[k]
      BY <2>3
    <3>2. q[k] = IF text[d][t[k].id] = "nl" THEN <<Cr, t[k]>> ELSE <<t[k]>>
      BY <3>1, PiecesAre
    <3> HIDE DEF p, q, r
    <3>3. (p \o q)[i] = q[k]
      BY <1>1, <1>2, <2>3
    <3> QED
      BY <2>1, <3>1, <3>2, <3>3
  <2> QED
    BY <2>2, <2>3
<1> HIDE DEF p, q, r
<1>6. p \o q \in Seq(Seq(Entries)) /\ Len(p \o q) = Len(s) + Len(t)
  <2> DEFINE Q == Seq(Entries)
  <2>1. p \in Seq(Q) /\ q \in Seq(Q)
    BY <1>1, <1>2
  <2> HIDE DEF Q
  <2>2. p \o q \in Seq(Q) /\ Len(p \o q) = Len(p) + Len(q)
    BY <2>1
  <2> QED
    BY <1>1, <1>2, <2>2 DEF Q
<1>7. r = p \o q
  <2>1. Len(r) = Len(p \o q) /\ \A i \in 1 .. Len(r) : r[i] = (p \o q)[i]
    BY <1>4, <1>5, <1>6
  <2> DEFINE pq == p \o q
  <2> HIDE DEF pq
  <2>2. r = pq
    BY <1>4, <1>6, <2>1, SeqEqual DEF pq
  <2> QED
    BY <2>2 DEF pq
<1>8. FlattenSeq(p) \in Seq(Entries) /\ FlattenSeq(p \o q) = FlattenSeq(p) \o FlattenSeq(q)
  BY <1>1, <1>2, FlattenConcat
<1> QED
  BY <1>1, <1>2, <1>4, <1>7, <1>8

\* binary_to_text makes nothing of nothing.
LEMMA TextOfNothing == ASSUME NEW d PROVE AsText(d, <<>>) = <<>>
<1>1. Pieces(d, <<>>) = <<>>
  BY DEF Pieces
<1> QED
  BY <1>1, FlattenEmpty DEF AsText, Pieces

\* What binary_to_text makes of one character.
LEMMA TextOfOne ==
    ASSUME NEW d, NEW e \in Entries
    PROVE  AsText(d, <<e>>) = IF text[d][e.id] = "nl" THEN <<Cr, e>> ELSE <<e>>
<1> DEFINE x == IF text[d][e.id] = "nl" THEN <<Cr, e>> ELSE <<e>>
<1>1. x \in Seq(Entries)
  BY NamedEntries DEF Cr
<1>2. Pieces(d, <<e>>) = <<x>>
  BY DEF Pieces
<1> QED
  BY <1>1, <1>2, FlattenSingle DEF AsText, Pieces

\* The characters of two sequences are those of either.
LEMMA IdsOfParts ==
    ASSUME NEW s \in Seq(Entries), NEW t \in Seq(Entries)
    PROVE  Ids(s \o t) = Ids(s) \cup Ids(t)
<1>1. /\ Len(s \o t) = Len(s) + Len(t)
      /\ \A i \in 1 .. Len(s) + Len(t) : (s \o t)[i] = IF i <= Len(s) THEN s[i] ELSE t[i - Len(s)]
  OBVIOUS
<1>2. Len(s) \in Nat /\ Len(t) \in Nat
  OBVIOUS
<1>3. \A i \in 1 .. Len(s) : i \in 1 .. Len(s) + Len(t) /\ (s \o t)[i] = s[i]
  BY <1>1, <1>2
<1>4. \A i \in 1 .. Len(t) : i + Len(s) \in 1 .. Len(s) + Len(t) /\ (s \o t)[i + Len(s)] = t[i]
  BY <1>1, <1>2
<1>5. \A i \in 1 .. Len(s) + Len(t) :
         \/ i \in 1 .. Len(s) /\ (s \o t)[i] = s[i]
         \/ i - Len(s) \in 1 .. Len(t) /\ (s \o t)[i] = t[i - Len(s)]
  BY <1>1, <1>2
<1> DEFINE r == s \o t
<1> HIDE DEF r
<1>6. Ids(r) \subseteq Ids(s) \cup Ids(t)
  <2>1. ASSUME NEW i \in 1 .. Len(r) PROVE r[i].id \in Ids(s) \cup Ids(t)
    <3>1. \/ i \in 1 .. Len(s) /\ r[i] = s[i]
          \/ i - Len(s) \in 1 .. Len(t) /\ r[i] = t[i - Len(s)]
      BY <1>1, <1>5 DEF r
    <3> QED
      BY <3>1 DEF Ids
  <2> QED
    BY <2>1 DEF Ids
<1>7. ASSUME NEW i \in 1 .. Len(s) PROVE s[i].id \in Ids(r)
  <2>1. i \in 1 .. Len(r) /\ r[i] = s[i]
    BY <1>1, <1>3 DEF r
  <2> QED
    BY <2>1 DEF Ids
<1>8. ASSUME NEW i \in 1 .. Len(t) PROVE t[i].id \in Ids(r)
  <2>1. i + Len(s) \in 1 .. Len(r) /\ r[i + Len(s)] = t[i]
    BY <1>1, <1>4 DEF r
  <2> QED
    BY <2>1 DEF Ids
<1>9. Ids(s) \subseteq Ids(r) /\ Ids(t) \subseteq Ids(r)
  BY <1>7, <1>8 DEF Ids
<1> QED
  BY <1>6, <1>9 DEF r

\* The text of a part has all of its characters.
LEMMA TextHasAll ==
    ASSUME NEW d, NEW s \in Seq(Entries)
    PROVE  Ids(s) \subseteq Ids(AsText(d, s))
<1> SUFFICES ASSUME NEW i \in 1 .. Len(s) PROVE s[i].id \in Ids(AsText(d, s))
  BY DEF Ids
<1> DEFINE a == SubSeq(s, 1, i - 1)  b == SubSeq(s, i + 1, Len(s))  e == s[i]
<1>1. a \in Seq(Entries) /\ b \in Seq(Entries) /\ e \in Entries /\ <<e>> \in Seq(Entries)
  OBVIOUS
<1>2. s = (a \o <<e>>) \o b
  <2> DEFINE x == <<e>>  ax == a \o x  t == ax \o b
  <2>1. Len(a) = i - 1 /\ Len(x) = 1 /\ Len(b) = Len(s) - i /\ x \in Seq(Entries)
    BY <1>1
  <2>2. /\ \A k \in 1 .. i - 1 : a[k] = s[k]
        /\ x[1] = s[i]
        /\ \A k \in 1 .. Len(s) - i : b[k] = s[i + k]
    BY <1>1
  <2> HIDE DEF a, b, x
  <2>3. ax \in Seq(Entries) /\ Len(ax) = i /\ \A k \in 1 .. i : ax[k] = s[k]
    <3>1. /\ ax \in Seq(Entries) /\ Len(ax) = i
          /\ \A k \in 1 .. i : ax[k] = IF k <= i - 1 THEN a[k] ELSE x[k - (i - 1)]
      <4>1. (i - 1) + 1 = i /\ i \in Nat
        OBVIOUS
      <4>2. a \in Seq(Entries) /\ x \in Seq(Entries)
        BY <1>1, <2>1
      <4>3. /\ ax \in Seq(Entries) /\ Len(ax) = Len(a) + Len(x)
            /\ \A k \in 1 .. Len(a) + Len(x) : ax[k] = IF k <= Len(a) THEN a[k] ELSE x[k - Len(a)]
        BY <4>2, ConcatProperties
      <4> HIDE DEF ax
      <4> QED
        BY <2>1, <4>1, <4>3
    <3>2. i - (i - 1) = 1 /\ i \in Nat \ {0} /\ ~(i <= i - 1)
      OBVIOUS
    <3>3. ASSUME NEW k \in 1 .. i PROVE ax[k] = s[k]
      <4>1. CASE k <= i - 1
        <5>1. k \in 1 .. i - 1
          BY <3>2, <4>1
        <5> QED
          BY <2>2, <3>1, <4>1, <5>1
      <4>2. CASE ~(k <= i - 1)
        <5>1. k = i
          BY <3>2, <4>2
        <5> QED
          BY <2>2, <3>1, <3>2, <5>1
      <4> QED
        BY <4>1, <4>2
    <3> QED
      BY <3>1, <3>3
  <2> HIDE DEF ax
  <2>4. t \in Seq(Entries) /\ Len(t) = Len(s) /\ \A k \in 1 .. Len(s) : t[k] = s[k]
    <3>1. /\ t \in Seq(Entries) /\ Len(t) = Len(s)
          /\ \A k \in 1 .. Len(s) : t[k] = IF k <= i THEN ax[k] ELSE b[k - i]
      BY <1>1, <2>1, <2>3, ConcatProperties
    <3>2. \A k \in 1 .. Len(s) : (k <= i => k \in 1 .. i)
                                  /\ (~(k <= i) => k - i \in 1 .. Len(s) - i /\ i + (k - i) = k)
      OBVIOUS
    <3> QED
      BY <2>2, <2>3, <3>1, <3>2
  <2> HIDE DEF t
  <2>5. s = t
    BY <2>4, SeqEqual
  <2> QED
    BY <2>5 DEF t, ax, x
<1> HIDE DEF a, b, e
<1>3. AsText(d, s) = (AsText(d, a) \o AsText(d, <<e>>)) \o AsText(d, b)
  <2>1. a \o <<e>> \in Seq(Entries)
    BY <1>1
  <2> DEFINE x == <<e>>  ax == a \o x
  <2> HIDE DEF x
  <2>2. AsText(d, ax) = AsText(d, a) \o AsText(d, x)
    BY <1>1, TextOfParts DEF x
  <2> HIDE DEF ax
  <2>3. AsText(d, ax \o b) = AsText(d, ax) \o AsText(d, b)
    BY <1>1, <2>1, TextOfParts DEF ax, x
  <2> QED
    BY <1>2, <2>2, <2>3 DEF ax, x
<1>4. e.id \in Ids(AsText(d, <<e>>))
  <2>1. AsText(d, <<e>>) = <<Cr, e>> \/ AsText(d, <<e>>) = <<e>>
    BY <1>1, TextOfOne
  <2>2. e.id \in Ids(<<Cr, e>>)
    <3>1. 2 \in 1 .. Len(<<Cr, e>>) /\ <<Cr, e>>[2] = e
      OBVIOUS
    <3> QED
      BY <3>1 DEF Ids
  <2>3. e.id \in Ids(<<e>>)
    <3>1. 1 \in 1 .. Len(<<e>>) /\ <<e>>[1] = e
      OBVIOUS
    <3> QED
      BY <3>1 DEF Ids
  <2> QED
    BY <2>1, <2>2, <2>3
<1>5. /\ AsText(d, a) \in Seq(Entries) /\ AsText(d, <<e>>) \in Seq(Entries)
      /\ AsText(d, b) \in Seq(Entries) /\ AsText(d, a) \o AsText(d, <<e>>) \in Seq(Entries)
  BY <1>1, TextOfParts, ConcatProperties
<1>6. e.id \in Ids(AsText(d, s))
  <2> DEFINE p == AsText(d, a)  q == AsText(d, <<e>>)  r == AsText(d, b)
  <2> HIDE DEF p, q, r
  <2>1. Ids(p \o q) = Ids(p) \cup Ids(q)
    BY <1>5, IdsOfParts DEF p, q, r
  <2>2. Ids((p \o q) \o r) = Ids(p \o q) \cup Ids(r)
    BY <1>5, IdsOfParts DEF p, q, r
  <2> QED
    BY <1>3, <1>4, <2>1, <2>2 DEF p, q, r
<1> QED
  BY <1>6 DEF e

(***************************************************************************)
(* Quotients, and what the cipher makes of a text.                         *)
(***************************************************************************)

\* What division by a block size returns.
LEMMA QuotientIs ==
    ASSUME NEW B \in Nat \ {0}, NEW x \in Nat
    PROVE  x = B * (x \div B) + (x % B) /\ x % B \in 0 .. B - 1 /\ x \div B \in Nat
  OBVIOUS

\* A quotient and a rest below the block size are those of the division.
LEMMA QuotientUnique ==
    ASSUME NEW B \in Nat \ {0}, NEW x \in Nat, NEW q \in Nat, NEW r \in 0 .. B - 1, x = B * q + r
    PROVE  x \div B = q /\ x % B = r
<1> DEFINE p == x \div B  m == x % B
<1>1. p \in Nat /\ m \in 0 .. B - 1 /\ B * p + m = B * q + r
  BY QuotientIs
<1> HIDE DEF p, m
<1>2. CASE p < q
  <2>1. B * (p + 1) <= B * q
    BY <1>1, <1>2
  <2>2. B * (p + 1) = B * p + B
    BY <1>1
  <2> QED
    BY <1>1, <2>1, <2>2
<1>3. CASE q < p
  <2>1. B * (q + 1) <= B * p
    BY <1>1, <1>3
  <2>2. B * (q + 1) = B * q + B
    BY <1>1
  <2> QED
    BY <1>1, <2>1, <2>2
<1> QED
  BY <1>1, <1>2, <1>3 DEF p, m

\* A whole number of blocks in front adds its number to the quotient.
LEMMA QuotientOfSum ==
    ASSUME NEW B \in Nat \ {0}, NEW x \in Nat, NEW y \in Nat, x % B = 0
    PROVE  (x + y) \div B = (x \div B) + (y \div B) /\ (x + y) % B = y % B
<1> DEFINE p == x \div B  q == y \div B  r == y % B
<1>1. p \in Nat /\ x = B * p
  BY QuotientIs
<1>2. q \in Nat /\ r \in 0 .. B - 1 /\ y = B * q + r
  BY QuotientIs
<1> HIDE DEF p, q, r
<1>3. p + q \in Nat /\ x + y \in Nat /\ x + y = B * (p + q) + r
  <2>1. B * (p + q) = B * p + B * q
    BY <1>1, <1>2
  <2> QED
    BY <1>1, <1>2, <2>1
<1>4. (x + y) \div B = p + q /\ (x + y) % B = r
  BY <1>2, <1>3, QuotientUnique
<1> QED
  BY <1>4 DEF p, q, r

\* Nothing is no block, and a block is one.
LEMMA QuotientOfNone ==
    ASSUME NEW B \in Nat \ {0}
    PROVE  0 \div B = 0 /\ 0 % B = 0 /\ B \div B = 1 /\ B % B = 0
<1>1. 0 = B * 0 + 0 /\ B = B * 1 + 0 /\ 0 \in 0 .. B - 1
  OBVIOUS
<1> QED
  BY <1>1, QuotientUnique

\* What is left after the whole blocks.
LEMMA QuotientRest ==
    ASSUME NEW B \in Nat \ {0}, NEW x \in Nat
    PROVE  /\ (x \div B) * B \in Nat /\ (x \div B) * B <= x /\ x - (x \div B) * B = x % B
           /\ x % B \in Nat /\ x % B < B
           /\ ((x \div B) * B) % B = 0 /\ ((x \div B) * B) \div B = x \div B
<1> DEFINE q == x \div B  r == x % B
<1>1. q \in Nat /\ r \in 0 .. B - 1 /\ x = B * q + r
  BY QuotientIs
<1> HIDE DEF q, r
<1>2. q * B \in Nat /\ q * B = B * q + 0 /\ 0 \in 0 .. B - 1
  BY <1>1
<1>3. (q * B) \div B = q /\ (q * B) % B = 0
  BY <1>1, <1>2, QuotientUnique
<1> QED
  BY <1>1, <1>2, <1>3 DEF q, r

BlockIs == BlockSize \in Nat \ {0} /\ BufferSize \in Nat \ {0} /\ BlockSize <= BufferSize

\* The block size of the cipher is a positive number.
LEMMA BlocksAre == BlockIs
  BY BufferAssumption DEF BlockIs

\* An entry after call c of the cipher.
Through(e, c) == [e EXCEPT !.n = Append(@, c)]

\* A call of the cipher keeps which character an entry is.
LEMMA ThroughIs ==
    ASSUME NEW e \in Entries, NEW c \in Nat
    PROVE  Through(e, c) \in Entries /\ Through(e, c).id = e.id
<1>1. e.id \in Int /\ e.n \in Seq(Int) /\ e = [id |-> e.id, n |-> e.n]
  BY DEF Entries
<1>2. Through(e, c) = [id |-> e.id, n |-> Append(e.n, c)]
  <2> DEFINE x == Append(e.n, c)
  <2> HIDE DEF x
  <2>1. [e EXCEPT !.n = x] = [id |-> e.id, n |-> x]
    BY DEF Entries
  <2> QED
    BY <2>1 DEF Through, x
<1>3. Append(e.n, c) \in Seq(Int)
  BY <1>1
<1> QED
  BY <1>1, <1>2, <1>3 DEF Entries

\* The cipher keeps the order and number of the characters and counts its calls by blocks.
LEMMA EncipheredIs ==
    ASSUME NEW s \in Seq(Entries), NEW m \in Nat
    PROVE  /\ Enciphered(s, m) \in Seq(Entries) /\ Len(Enciphered(s, m)) = Len(s)
           /\ \A i \in 1 .. Len(s) :
                 /\ Enciphered(s, m)[i] = Through(s[i], m + (i - 1) \div BlockSize)
                 /\ Enciphered(s, m)[i].id = s[i].id
<1> DEFINE n == Len(s)  e(i) == Through(s[i], m + (i - 1) \div BlockSize)
           t == [i \in 1 .. n |-> e(i)]
<1>1. n \in Nat /\ DOMAIN s = 1 .. n
  OBVIOUS
<1>2. Enciphered(s, m) = t
  BY <1>1 DEF Enciphered, Through
<1>3. ASSUME NEW i \in 1 .. n PROVE e(i) \in Entries /\ e(i).id = s[i].id
  <2>1. i - 1 \in Nat /\ s[i] \in Entries
    BY <1>1
  <2>2. (i - 1) \div BlockSize \in Nat
    BY <2>1, BlocksAre, QuotientIs DEF BlockIs
  <2>3. m + (i - 1) \div BlockSize \in Nat
    BY <2>2
  <2> QED
    BY <2>1, <2>3, ThroughIs
<1>4. t \in [1 .. n -> Entries]
  BY <1>3
<1> HIDE DEF t
<1>5. t \in Seq(Entries) /\ Len(t) = n
  BY <1>1, <1>4
<1>6. \A i \in 1 .. n : t[i] = e(i)
  BY DEF t
<1> QED
  BY <1>2, <1>3, <1>5, <1>6

\* The cipher hands on the characters it was given.
LEMMA EncipheredIds ==
    ASSUME NEW s \in Seq(Entries), NEW m \in Nat
    PROVE  Ids(Enciphered(s, m)) = Ids(s)
<1> DEFINE t == Enciphered(s, m)
<1>1. Len(t) = Len(s) /\ \A i \in 1 .. Len(s) : t[i].id = s[i].id
  BY EncipheredIs
<1> HIDE DEF t
<1>2. Ids(t) = Ids(s)
  BY <1>1 DEF Ids
<1> QED
  BY <1>2 DEF t

\* The cipher goes on behind whole blocks with the next call.
LEMMA EncipheredParts ==
    ASSUME NEW s \in Seq(Entries), NEW t \in Seq(Entries), NEW m \in Nat, Len(s) % BlockSize = 0
    PROVE  /\ m + (Len(s) \div BlockSize) \in Nat
           /\ Enciphered(s \o t, m) = Enciphered(s, m) \o Enciphered(t, m + (Len(s) \div BlockSize))
<1> DEFINE k == Len(s) \div BlockSize  st == s \o t  l == Len(s)  g == Len(t)
           a == Enciphered(s, m)  b == Enciphered(t, m + k)  r == Enciphered(st, m)
<1>1. k \in Nat /\ l \in Nat /\ g \in Nat /\ m + k \in Nat
  BY BlocksAre, QuotientIs DEF BlockIs
<1>2. /\ st \in Seq(Entries) /\ Len(st) = l + g
      /\ \A i \in 1 .. l + g : st[i] = IF i <= l THEN s[i] ELSE t[i - l]
  BY ConcatProperties
<1>3. /\ a \in Seq(Entries) /\ Len(a) = l
      /\ \A i \in 1 .. l : a[i] = Through(s[i], m + (i - 1) \div BlockSize)
  BY EncipheredIs
<1>4. /\ b \in Seq(Entries) /\ Len(b) = g
      /\ \A i \in 1 .. g : b[i] = Through(t[i], (m + k) + (i - 1) \div BlockSize)
  <2>1. m + k \in Nat
    BY <1>1
  <2> HIDE DEF k
  <2> QED
    BY <2>1, EncipheredIs
<1>5. /\ r \in Seq(Entries) /\ Len(r) = l + g
      /\ \A i \in 1 .. l + g : r[i] = Through(st[i], m + (i - 1) \div BlockSize)
  <2> HIDE DEF st
  <2>1. /\ r \in Seq(Entries) /\ Len(r) = Len(st)
        /\ \A i \in 1 .. Len(st) : r[i] = Through(st[i], m + (i - 1) \div BlockSize)
    BY <1>2, EncipheredIs
  <2> HIDE DEF r, l, g
  <2> QED
    BY <1>2, <2>1
<1> DEFINE ab == a \o b
<1> HIDE DEF a, b, r, st
<1>6. /\ ab \in Seq(Entries) /\ Len(ab) = l + g
      /\ \A i \in 1 .. l + g : ab[i] = IF i <= l THEN a[i] ELSE b[i - l]
  <2>1. /\ ab \in Seq(Entries) /\ Len(ab) = Len(a) + Len(b)
        /\ \A i \in 1 .. Len(a) + Len(b) : ab[i] = IF i <= Len(a) THEN a[i] ELSE b[i - Len(a)]
    <3>1. a \in Seq(Entries) /\ b \in Seq(Entries)
      BY <1>3, <1>4
    <3> QED
      BY <3>1, ConcatProperties
  <2> HIDE DEF ab, l, g
  <2> QED
    BY <1>3, <1>4, <2>1
<1> HIDE DEF ab, l, g, k
<1>7. \A i \in 1 .. l + g : r[i] = ab[i]
  <2> TAKE i \in 1 .. l + g
  <2>1. CASE i <= l
    <3>1. i \in 1 .. l
      BY <1>1, <2>1
    <3> QED
      BY <1>2, <1>3, <1>5, <1>6, <2>1, <3>1
  <2>2. CASE ~(i <= l)
    <3> DEFINE j == i - l
    <3>1. j \in 1 .. g /\ st[i] = t[j] /\ ab[i] = b[j] /\ j - 1 \in Nat
          /\ i - 1 = l + (j - 1)
      BY <1>1, <1>2, <1>6, <2>2
    <3> HIDE DEF j
    <3>2. (i - 1) \div BlockSize = k + ((j - 1) \div BlockSize)
      <4>1. (l + (j - 1)) \div BlockSize = (l \div BlockSize) + ((j - 1) \div BlockSize)
        <5>1. l % BlockSize = 0
          BY DEF l
        <5> QED
          BY <1>1, <3>1, <5>1, BlocksAre, QuotientOfSum DEF BlockIs
      <4> QED
        BY <3>1, <4>1 DEF k, l
    <3>3. (j - 1) \div BlockSize \in Nat
      BY <3>1, BlocksAre, QuotientIs DEF BlockIs
    <3>4. m + (i - 1) \div BlockSize = (m + k) + (j - 1) \div BlockSize
      BY <1>1, <3>2, <3>3
    <3> QED
      BY <1>4, <1>5, <3>1, <3>4
  <2> QED
    BY <2>1, <2>2
<1>8. r = ab
  BY <1>5, <1>6, <1>7, SeqEqual
<1> QED
  BY <1>1, <1>8 DEF ab, r, st, a, b, k, l

(***************************************************************************)
(* Results of the functions                                                *)
(***************************************************************************)

\* A sequence is its first part and the rest.
LEMMA CutInTwo ==
    ASSUME NEW s \in Seq(Entries), NEW w \in Nat, w <= Len(s)
    PROVE  /\ SubSeq(s, 1, w) \in Seq(Entries) /\ Len(SubSeq(s, 1, w)) = w
           /\ SubSeq(s, w + 1, Len(s)) \in Seq(Entries)
           /\ Len(SubSeq(s, w + 1, Len(s))) = Len(s) - w
           /\ \A i \in 1 .. w : SubSeq(s, 1, w)[i] = s[i]
           /\ \A i \in 1 .. Len(s) - w : SubSeq(s, w + 1, Len(s))[i] = s[w + i]
           /\ s = SubSeq(s, 1, w) \o SubSeq(s, w + 1, Len(s))
<1> DEFINE a == SubSeq(s, 1, w)  l == Len(s)  b == SubSeq(s, w + 1, l)  t == a \o b
<1>1. a \in Seq(Entries) /\ Len(a) = w /\ \A i \in 1 .. w : a[i] = s[i]
  OBVIOUS
<1>2. l \in Nat /\ b \in Seq(Entries) /\ Len(b) = l - w /\ \A i \in 1 .. l - w : b[i] = s[w + i]
  OBVIOUS
<1> HIDE DEF a, b
<1>3. /\ t \in Seq(Entries) /\ Len(t) = Len(a) + Len(b)
      /\ \A i \in 1 .. Len(a) + Len(b) : t[i] = IF i <= Len(a) THEN a[i] ELSE b[i - Len(a)]
  BY <1>1, <1>2, ConcatProperties
<1> HIDE DEF t, l
<1>4. Len(t) = l /\ \A i \in 1 .. l : t[i] = IF i <= w THEN a[i] ELSE b[i - w]
  BY <1>1, <1>2, <1>3
<1>5. \A i \in 1 .. l : t[i] = s[i]
  <2> TAKE i \in 1 .. l
  <2>1. CASE i <= w
    BY <1>1, <1>4, <2>1
  <2>2. CASE ~(i <= w)
    <3>1. i - w \in 1 .. l - w /\ w + (i - w) = i
      BY <1>2, <2>2
    <3> QED
      BY <1>2, <1>4, <2>2, <3>1
  <2> QED
    BY <2>1, <2>2
<1>6. s = t
  BY <1>3, <1>4, <1>5, SeqEqual DEF l
<1> QED
  BY <1>1, <1>2, <1>6 DEF a, b, t, l

\* What an entry is about stays the same.
SameIds(s, t) == t \in Seq(Entries) /\ Len(t) = Len(s) /\ \A i \in 1 .. Len(s) : t[i].id = s[i].id

WholeLen(s) == (Len(s) \div BlockSize) * BlockSize
WholePart(s) == SubSeq(s, 1, WholeLen(s))
RestPart(s) == SubSeq(s, WholeLen(s) + 1, Len(s))

\* block_processor's write_proxy splits what it is given into whole blocks and a rest shorter than a block.
LEMMA PartsAre ==
    ASSUME NEW s \in Seq(Entries)
    PROVE  /\ WholeLen(s) \in Nat /\ WholeLen(s) <= Len(s) /\ Len(s) \in Nat
           /\ Len(s) - WholeLen(s) = Len(s) % BlockSize
           /\ Len(s) % BlockSize \in Nat /\ Len(s) % BlockSize < BlockSize
           /\ WholeLen(s) % BlockSize = 0 /\ WholeLen(s) \div BlockSize \in Nat
           /\ WholePart(s) \in Seq(Entries) /\ Len(WholePart(s)) = WholeLen(s)
           /\ RestPart(s) \in Seq(Entries) /\ Len(RestPart(s)) = Len(s) - WholeLen(s)
           /\ s = WholePart(s) \o RestPart(s)
<1> DEFINE l == Len(s)
<1>1. l \in Nat
  OBVIOUS
<1>2. /\ WholeLen(s) \in Nat /\ WholeLen(s) <= l /\ l - WholeLen(s) = l % BlockSize
      /\ l % BlockSize \in Nat /\ l % BlockSize < BlockSize /\ WholeLen(s) % BlockSize = 0
  <2> HIDE DEF l
  <2> QED
    BY <1>1, BlocksAre, QuotientRest DEF BlockIs, WholeLen, l
<1>3. WholeLen(s) \div BlockSize \in Nat
  BY <1>2, BlocksAre, QuotientIs DEF BlockIs
<1> DEFINE w == WholeLen(s)
<1> HIDE DEF w
<1>4. /\ SubSeq(s, 1, w) \in Seq(Entries) /\ Len(SubSeq(s, 1, w)) = w
      /\ SubSeq(s, w + 1, Len(s)) \in Seq(Entries)
      /\ Len(SubSeq(s, w + 1, Len(s))) = Len(s) - w
      /\ s = SubSeq(s, 1, w) \o SubSeq(s, w + 1, Len(s))
  <2>1. w \in Nat /\ w <= Len(s)
    BY <1>2 DEF w
  <2> QED
    BY <2>1, CutInTwo
<1> QED
  BY <1>1, <1>2, <1>3, <1>4 DEF w, WholePart, RestPart

\* The cipher takes the whole blocks and leaves the rest.
LEMMA WholeBlocksAre ==
    ASSUME NEW d, calls[d] \in Nat, NEW s \in Seq(Entries)
    PROVE  /\ WholeBlocks(d, s) =
                Result(Enciphered(WholePart(s), calls[d]),
                       Enciphered(WholePart(s), calls[d]) \o RestPart(s),
                       Len(s) - WholeLen(s), WholeLen(s) \div BlockSize, "ok")
           /\ Enciphered(WholePart(s), calls[d]) \in Seq(Entries)
           /\ Len(Enciphered(WholePart(s), calls[d])) = WholeLen(s)
           /\ Ids(Enciphered(WholePart(s), calls[d])) = Ids(WholePart(s))
           /\ SameIds(s, Enciphered(WholePart(s), calls[d]) \o RestPart(s))
<1> DEFINE c == calls[d]  w == WholeLen(s)  a == WholePart(s)  b == RestPart(s)
           e == Enciphered(a, c)  t == e \o b
<1>1. WholeBlocks(d, s) = Result(e, e \o b, Len(s) - w, w \div BlockSize, "ok")
  BY DEF WholeBlocks, WholePart, RestPart, WholeLen
<1>2. /\ w \in Nat /\ w <= Len(s) /\ a \in Seq(Entries) /\ Len(a) = w
      /\ b \in Seq(Entries) /\ Len(b) = Len(s) - w
  BY PartsAre
<1>3. /\ \A i \in 1 .. w : a[i] = s[i]
      /\ \A i \in 1 .. Len(s) - w : b[i] = s[w + i]
  BY <1>2, CutInTwo DEF WholePart, RestPart
<1> HIDE DEF a, b, w
<1>4. Ids(e) = Ids(a)
  BY <1>2, EncipheredIds
<1>5. e \in Seq(Entries) /\ Len(e) = w /\ \A i \in 1 .. w : e[i].id = a[i].id
  <2>1. e \in Seq(Entries) /\ Len(e) = Len(a) /\ \A i \in 1 .. Len(a) : e[i].id = a[i].id
    BY <1>2, EncipheredIs
  <2> HIDE DEF e
  <2> QED
    BY <1>2, <2>1
<1> HIDE DEF e
<1>6. /\ t \in Seq(Entries) /\ Len(t) = Len(e) + Len(b)
      /\ \A i \in 1 .. Len(e) + Len(b) : t[i] = IF i <= Len(e) THEN e[i] ELSE b[i - Len(e)]
  <2>1. e \in Seq(Entries) /\ b \in Seq(Entries)
    BY <1>2, <1>5
  <2> QED
    BY <2>1, ConcatProperties
<1> HIDE DEF t
<1>7. Len(t) = Len(s) /\ \A i \in 1 .. Len(s) : t[i] = IF i <= w THEN e[i] ELSE b[i - w]
  BY <1>2, <1>5, <1>6
<1>8. \A i \in 1 .. Len(s) : t[i].id = s[i].id
  <2> TAKE i \in 1 .. Len(s)
  <2>1. CASE i <= w
    <3>1. i \in 1 .. w
      BY <1>2, <2>1
    <3> QED
      BY <1>3, <1>5, <1>7, <2>1, <3>1
  <2>2. CASE ~(i <= w)
    <3>1. i - w \in 1 .. Len(s) - w /\ w + (i - w) = i
      BY <1>2, <2>2
    <3> QED
      BY <1>3, <1>7, <2>2, <3>1
  <2> QED
    BY <2>1, <2>2
<1>9. SameIds(s, t)
  BY <1>6, <1>7, <1>8 DEF SameIds
<1> QED
  BY <1>1, <1>4, <1>5, <1>9 DEF t, e, a, b, w

\* The padding, and what the cipher makes of the rest and of it.
Padding(s) == [i \in 1 .. (BlockSize - (Len(s) - WholeLen(s))) |-> Pad]

\* flush_proxy pads the rest to a whole block, and writes in front of the block when there is no rest.
LEMMA FlushProxyIs ==
    ASSUME NEW d, calls[d] \in Nat, NEW s \in Seq(Entries)
    PROVE  /\ Len(s) % BlockSize = 0 =>
                FlushProxy(d, s) = [WholeBlocks(d, s) EXCEPT !.fate = "wild"]
           /\ Len(s) % BlockSize # 0 =>
                /\ Padding(s) \in Seq(Entries)
                /\ Len(Padding(s)) = BlockSize - (Len(s) % BlockSize)
                /\ FlushProxy(d, s) =
                     Result(Enciphered(WholePart(s), calls[d])
                              \o Enciphered(RestPart(s) \o Padding(s),
                                            calls[d] + WholeLen(s) \div BlockSize),
                            Enciphered(WholePart(s), calls[d]) \o RestPart(s), 0,
                            WholeLen(s) \div BlockSize + 1, "ok")
<1> DEFINE f == WholeBlocks(d, s)
<1>1. /\ f.made = Enciphered(WholePart(s), calls[d])
      /\ f.block = Enciphered(WholePart(s), calls[d]) \o RestPart(s)
      /\ f.kept = Len(s) - WholeLen(s) /\ f.calls = WholeLen(s) \div BlockSize
  <2>1. f = Result(Enciphered(WholePart(s), calls[d]),
                       Enciphered(WholePart(s), calls[d]) \o RestPart(s),
                       Len(s) - WholeLen(s), WholeLen(s) \div BlockSize, "ok")
    BY WholeBlocksAre
  <2> QED
    BY <2>1 DEF Result
<1>2. /\ WholeLen(s) \in Nat /\ WholeLen(s) <= Len(s) /\ Len(s) \in Nat
      /\ Len(s) - WholeLen(s) = Len(s) % BlockSize
      /\ Len(s) % BlockSize \in Nat /\ Len(s) % BlockSize < BlockSize
  BY PartsAre
<1>3. CASE Len(s) % BlockSize = 0
  BY <1>1, <1>2, <1>3 DEF FlushProxy
<1>4. CASE Len(s) % BlockSize # 0
  <2>1. Padding(s) \in Seq(Entries) /\ Len(Padding(s)) = BlockSize - (Len(s) % BlockSize)
    <3> DEFINE n == BlockSize - (Len(s) % BlockSize)
    <3>1. n \in Nat /\ Padding(s) = [i \in 1 .. n |-> Pad]
      BY <1>2, BlocksAre DEF Padding, BlockIs
    <3>2. Pad \in Entries
      BY NamedEntries DEF Pad
    <3> HIDE DEF n
    <3>3. Padding(s) \in Seq(Entries) /\ Len(Padding(s)) = n
      BY <3>1, <3>2
    <3> QED
      BY <3>3 DEF n
  <2>2. (Len(s) - f.kept) + 1 = WholeLen(s) + 1
    BY <1>1, <1>2
  <2>3. SubSeq(s, Len(s) - f.kept + 1, Len(s)) = RestPart(s)
    BY <2>2 DEF RestPart
  <2>4. [i \in 1 .. (BlockSize - f.kept) |-> Pad] = Padding(s)
    BY <1>1 DEF Padding
  <2>5. f.kept # 0
    BY <1>1, <1>2, <1>4
  <2> HIDE DEF f
  <2>6. FlushProxy(d, s) = Result(f.made \o Enciphered(RestPart(s) \o Padding(s), calls[d] + f.calls),
                f.block, 0, f.calls + 1, "ok")
    BY <2>3, <2>4, <2>5 DEF FlushProxy, f
  <2> QED
    BY <1>1, <1>4, <2>1, <2>6
<1> QED
  BY <1>3, <1>4

\* What every result has.
ResultOK(d, s, final, r) ==
    /\ r.made \in Seq(Entries) /\ SameIds(s, r.block)
    /\ r.kept \in Nat /\ r.kept <= Len(s) /\ r.calls \in Nat
    /\ r.fate \in {"ok", "throws", "wild"}
    /\ r.fate = "wild" => kind = "cipher" /\ final /\ Len(s) % BlockSize = 0
    /\ kind = "text" => r.block = s /\ r.kept = 0 /\ r.calls = 0
    /\ kind = "text" /\ r.fate = "ok" => r.made = AsText(d, s)
    /\ kind = "text" /\ s = <<>> => r.made = <<>>
    /\ kind = "cipher" /\ r.fate = "ok" /\ ~final => r.kept = Len(s) % BlockSize
    /\ r.fate = "ok" /\ final => r.kept = 0
    /\ kind = "cipher" /\ r.fate = "ok" /\ final => Len(s) % BlockSize # 0
    /\ r.fate = "ok" => \A i \in 1 .. Len(s) - r.kept : s[i].id \in Ids(r.made)

\* A sequence has the characters of itself.
LEMMA SameIdsSelf == ASSUME NEW s \in Seq(Entries) PROVE SameIds(s, s)
  BY DEF SameIds

\* What binary_to_text leaves of a block, when it returns and when it throws.
LEMMA TextResultOK ==
    ASSUME kind = "text", NEW d, NEW s \in Seq(Entries), NEW final,
           NEW made \in Seq(Entries), NEW fate,
           (fate = "ok" /\ made = AsText(d, s)) \/ (fate = "throws" /\ (s = <<>> => made = <<>>))
    PROVE  ResultOK(d, s, final, Result(made, s, 0, 0, fate))
<1> DEFINE r == Result(made, s, 0, 0, fate)
<1>1. r.made = made /\ r.block = s /\ r.kept = 0 /\ r.calls = 0 /\ r.fate = fate
  BY DEF Result
<1> HIDE DEF r
<1>2. SameIds(s, r.block) /\ Len(s) \in Nat
  BY <1>1, SameIdsSelf
<1>3. kind = "text" /\ s = <<>> => r.made = <<>>
  BY <1>1, TextOfNothing
<1>4. r.fate = "ok" => \A i \in 1 .. Len(s) - r.kept : s[i].id \in Ids(r.made)
  <2>1. CASE r.fate = "ok"
    <3>1. r.made = AsText(d, s) /\ Ids(s) \subseteq Ids(AsText(d, s))
      BY <1>1, <2>1, TextHasAll
    <3>2. \A i \in 1 .. Len(s) - r.kept : s[i].id \in Ids(s)
      BY <1>1, <1>2 DEF Ids
    <3> QED
      BY <3>1, <3>2
  <2> QED
    BY <2>1
<1>5. ResultOK(d, s, final, r)
  BY <1>1, <1>2, <1>3, <1>4 DEF ResultOK
<1> QED
  BY <1>5 DEF r

\* The first characters of a block are those of its whole blocks.
LEMMA WholeIds ==
    ASSUME NEW s \in Seq(Entries)
    PROVE  \A i \in 1 .. WholeLen(s) : s[i].id \in Ids(WholePart(s))
<1>1. /\ WholeLen(s) \in Nat /\ WholeLen(s) <= Len(s) /\ Len(WholePart(s)) = WholeLen(s)
  BY PartsAre
<1>2. \A i \in 1 .. WholeLen(s) : WholePart(s)[i] = s[i]
  BY <1>1, CutInTwo DEF WholePart
<1> QED
  BY <1>1, <1>2 DEF Ids

\* The ways block_processor has to end.
CipherLeaves(d, s, final, r) ==
    \/ ~final /\ r = WholeBlocks(d, s)
    \/ final /\ r = FlushProxy(d, s)
    \/ r = [WholeBlocks(d, s) EXCEPT !.made = <<>>, !.fate = "throws"]

\* What block_processor leaves of a block, for write_proxy, flush_proxy and an exception.
LEMMA CipherResultOK ==
    ASSUME kind = "cipher", NEW d, calls[d] \in Nat, NEW s \in Seq(Entries), NEW final \in BOOLEAN,
           NEW r, CipherLeaves(d, s, final, r)
    PROVE  ResultOK(d, s, final, r)
<1>0. \/ ~final /\ r = WholeBlocks(d, s)
      \/ final /\ r = FlushProxy(d, s)
      \/ r = [WholeBlocks(d, s) EXCEPT !.made = <<>>, !.fate = "throws"]
  BY DEF CipherLeaves
<1> DEFINE a == WholePart(s)  b == RestPart(s)  w == WholeLen(s)  e == Enciphered(a, calls[d])
           f == WholeBlocks(d, s)
<1>1. /\ f = Result(e, e \o b, Len(s) - w, w \div BlockSize, "ok")
      /\ e \in Seq(Entries) /\ Ids(e) = Ids(a) /\ SameIds(s, e \o b)
  BY WholeBlocksAre
<1>2. /\ w \in Nat /\ w <= Len(s) /\ Len(s) \in Nat /\ Len(s) - w = Len(s) % BlockSize
      /\ w \div BlockSize \in Nat
  BY PartsAre
<1>3. \A i \in 1 .. w : s[i].id \in Ids(e)
  BY <1>1, WholeIds
<1>4. /\ f.made = e /\ f.block = e \o b /\ f.kept = Len(s) - w /\ f.calls = w \div BlockSize
      /\ f.fate = "ok"
      /\ f = [made |-> f.made, block |-> f.block, kept |-> f.kept, calls |-> f.calls, fate |-> f.fate]
  BY <1>1 DEF Result
<1> HIDE DEF a, b, w, e, f
<1>5. CASE ~final /\ r = f
  <2>1. Len(s) - r.kept = w
    BY <1>2, <1>4, <1>5
  <2>2. /\ r.made = e /\ r.block = e \o b /\ r.kept = Len(s) - w /\ r.calls = w \div BlockSize
        /\ r.fate = "ok"
    BY <1>4, <1>5
  <2>3. r.kept \in Nat /\ r.kept <= Len(s)
    BY <1>2, <2>2
  <2>4. \A i \in 1 .. Len(s) - r.kept : s[i].id \in Ids(r.made)
    BY <1>3, <2>1, <2>2
  <2> QED
    BY <1>1, <1>2, <1>5, <2>2, <2>3, <2>4 DEF ResultOK
<1>6. CASE r = [f EXCEPT !.made = <<>>, !.fate = "throws"]
  <2>1. r = [made |-> <<>>, block |-> e \o b, kept |-> Len(s) - w, calls |-> w \div BlockSize,
             fate |-> "throws"]
    BY <1>4, <1>6
  <2> QED
    BY <1>1, <1>2, <2>1 DEF ResultOK
<1>7. CASE final /\ r = FlushProxy(d, s) /\ Len(s) % BlockSize = 0
  <2>1. r = [f EXCEPT !.fate = "wild"]
    BY <1>7, FlushProxyIs DEF f
  <2>2. r = [made |-> e, block |-> e \o b, kept |-> Len(s) - w, calls |-> w \div BlockSize,
             fate |-> "wild"]
    BY <1>4, <2>1
  <2> QED
    BY <1>1, <1>2, <1>7, <2>2 DEF ResultOK
<1>8. CASE final /\ r = FlushProxy(d, s) /\ Len(s) % BlockSize # 0
  <2> DEFINE p == Padding(s)  bp == b \o p  g == Enciphered(bp, calls[d] + w \div BlockSize)
  <2>1. p \in Seq(Entries)
    BY <1>8, FlushProxyIs
  <2>2. r = Result(e \o g, e \o b, 0, w \div BlockSize + 1, "ok")
    BY <1>8, FlushProxyIs DEF a, b, w, e
  <2>3. b \in Seq(Entries) /\ a \in Seq(Entries) /\ s = a \o b
    BY PartsAre DEF a, b
  <2>4. bp \in Seq(Entries)
    <3> HIDE DEF p
    <3> QED
      BY <2>1, <2>3, ConcatProperties
  <2>5. g \in Seq(Entries) /\ Ids(g) = Ids(bp)
    <3>1. calls[d] + w \div BlockSize \in Nat
      BY <1>2
    <3> HIDE DEF bp
    <3> QED
      BY <2>4, <3>1, EncipheredIs, EncipheredIds
  <2>6. Ids(bp) = Ids(b) \cup Ids(p)
    <3> HIDE DEF p
    <3> QED
      BY <2>1, <2>3, IdsOfParts
  <2> HIDE DEF p, bp, g
  <2>7. e \o g \in Seq(Entries) /\ Ids(e \o g) = Ids(e) \cup Ids(g)
    BY <1>1, <2>5, IdsOfParts, ConcatProperties
  <2>8. Ids(s) = Ids(a) \cup Ids(b)
    BY <2>3, IdsOfParts
  <2>9. \A i \in 1 .. Len(s) : s[i].id \in Ids(e \o g)
    <3>1. \A i \in 1 .. Len(s) : s[i].id \in Ids(s)
      BY DEF Ids
    <3> QED
      BY <1>1, <2>5, <2>6, <2>7, <2>8, <3>1
  <2>10. /\ r.made = e \o g /\ r.block = e \o b /\ r.kept = 0 /\ r.calls = w \div BlockSize + 1
         /\ r.fate = "ok"
    BY <2>2 DEF Result
  <2>11. Len(s) - r.kept = Len(s)
    BY <1>2, <2>10
  <2> QED
    BY <1>1, <1>2, <1>8, <2>7, <2>9, <2>10, <2>11 DEF ResultOK
<1> QED
  BY <1>0, <1>5, <1>6, <1>7, <1>8 DEF f

\* What either function leaves of a block.
LEMMA ResultsOK ==
    ASSUME kind \in {"text", "cipher"}, NEW d, calls[d] \in Nat, NEW s \in Seq(Entries),
           NEW final \in BOOLEAN, NEW r \in Results(d, s, final)
    PROVE  ResultOK(d, s, final, r)
<1>1. CASE kind = "cipher"
  <2>1. CipherLeaves(d, s, final, r)
    BY <1>1 DEF Results, Thrown, CipherLeaves
  <2> QED
    BY <1>1, <2>1, CipherResultOK
<1>2. CASE kind = "text" /\ r = Result(AsText(d, s), s, 0, 0, "ok")
  <2>1. AsText(d, s) \in Seq(Entries)
    BY TextOfParts
  <2> QED
    BY <1>2, <2>1, TextResultOK
<1>3. CASE kind = "text" /\ r # Result(AsText(d, s), s, 0, 0, "ok")
  <2>1. r \in Thrown(d, s)
    BY <1>3 DEF Results
  <2>2. PICK k \in 0 .. Len(AsText(d, s)) : r = Result(SubSeq(AsText(d, s), 1, k), s, 0, 0, "throws")
    BY <1>3, <2>1 DEF Thrown
  <2> DEFINE x == AsText(d, s)  m == SubSeq(x, 1, k)
  <2>3. x \in Seq(Entries) /\ k \in 0 .. Len(x)
    BY TextOfParts
  <2>4. s = <<>> => x = <<>>
    BY TextOfNothing
  <2> HIDE DEF x
  <2>5. m \in Seq(Entries) /\ (s = <<>> => m = <<>>)
    BY <2>3, <2>4
  <2> HIDE DEF m
  <2>6. r = Result(m, s, 0, 0, "throws")
    BY <2>2 DEF m, x
  <2> QED
    BY <1>3, <2>5, <2>6, TextResultOK
<1> QED
  BY <1>1, <1>2, <1>3

(***************************************************************************)
(* What the stream below has of a stream that nothing disturbed            *)
(***************************************************************************)

\* The first n characters of a text.
LEMMA FirstRange ==
    ASSUME NEW n \in Nat
    PROVE  IdRange(1, n) \in Seq(Entries) /\ Len(IdRange(1, n)) = n
<1>1. IdRange(0 + 1, n) \in Seq(Entries) /\ Len(IdRange(0 + 1, n)) = n - 0
  BY IdRangeIs
<1> QED
  BY <1>1

\* What a function makes of the first n characters is a sequence, as long as they are for the cipher.
LEMMA GivenIs ==
    ASSUME NEW d, NEW n \in Nat
    PROVE  AsGiven(d, n) \in Seq(Entries) /\ (kind # "text" => Len(AsGiven(d, n)) = n)
<1> DEFINE s == IdRange(1, n)
<1>1. s \in Seq(Entries) /\ Len(s) = n
  BY FirstRange
<1> HIDE DEF s
<1>2. AsText(d, s) \in Seq(Entries) /\ Enciphered(s, 0) \in Seq(Entries) /\ Len(Enciphered(s, 0)) = n
  BY <1>1, TextOfParts, EncipheredIs
<1> QED
  BY <1>2 DEF AsGiven, s

\* The first n characters and those after them up to m are the first m.
LEMMA RangesFromFirst ==
    ASSUME NEW n \in Nat, NEW m \in Nat, n <= m
    PROVE  IdRange(1, n) \o IdRange(n + 1, m) = IdRange(1, m)
<1>1. PICK z \in Nat : z = 0
  OBVIOUS
<1>2. z <= n /\ z + 1 = 1
  BY <1>1
<1>3. IdRange(z + 1, n) \o IdRange(n + 1, m) = IdRange(z + 1, m)
  BY <1>2, RangesConcat
<1> QED
  BY <1>2, <1>3

\* Joining sequences of entries is associative.
LEMMA EntriesAssociative ==
    ASSUME NEW s \in Seq(Entries), NEW t \in Seq(Entries), NEW u \in Seq(Entries)
    PROVE  Associate(s, t, u)
  BY AllAssociate

\* A text enciphered in two parts, the first of whole blocks, is the text enciphered at once.
LEMMA EncipheredFromFirst ==
    ASSUME NEW s \in Seq(Entries), NEW t \in Seq(Entries), NEW c, c = Len(s) \div BlockSize,
           Len(s) % BlockSize = 0
    PROVE  Enciphered(s \o t, 0) = Enciphered(s, 0) \o Enciphered(t, c)
<1>1. c \in Nat
  BY BlocksAre, QuotientIs DEF BlockIs
<1>2. PICK z \in Nat : z = 0
  OBVIOUS
<1>3. Enciphered(s \o t, z) = Enciphered(s, z) \o Enciphered(t, z + (Len(s) \div BlockSize))
  BY EncipheredParts
<1>4. z + (Len(s) \div BlockSize) = c
  <2>1. z + c = c
    BY <1>1, <1>2
  <2> QED
    BY <2>1
<1> QED
  BY <1>2, <1>3, <1>4

\* A stream that was given nothing made nothing.
LEMMA NothingGiven == ASSUME NEW d PROVE AsGiven(d, 0) = <<>>
<1>1. IdRange(1, 0) = <<>>
  <2>1. IdRange(0 + 1, 0) = <<>>
    BY EmptyRange
  <2> QED
    BY <2>1
<1>2. AsText(d, <<>>) = <<>>
  BY TextOfNothing
<1>3. Enciphered(<<>>, 0) = <<>>
  <2>1. <<>> \in Seq(Entries) /\ 0 \in Nat
    OBVIOUS
  <2>2. Enciphered(<<>>, 0) \in Seq(Entries) /\ Len(Enciphered(<<>>, 0)) = Len(<<>>)
    BY <2>1, EncipheredIs, Zenon
  <2> DEFINE e == Enciphered(<<>>, 0)
  <2> HIDE DEF e
  <2>3. e \in Seq(Entries) /\ Len(e) = 0
    BY <2>2 DEF e
  <2>4. e = <<>>
    BY <2>3
  <2> QED
    BY <2>4 DEF e
<1> QED
  BY <1>1, <1>2, <1>3 DEF AsGiven

\* The first part of what the cipher makes does not depend on what follows.
LEMMA EncipheredPrefix ==
    ASSUME NEW s \in Seq(Entries), NEW t \in Seq(Entries), NEW m \in Nat
    PROVE  IsPrefix(Enciphered(s, m), Enciphered(s \o t, m))
<1> DEFINE st == s \o t  l == Len(s)  g == Len(t)  a == Enciphered(s, m)  r == Enciphered(st, m)
           q == SubSeq(r, 1, l)
<1>1. l \in Nat /\ g \in Nat
  OBVIOUS
<1>2. st \in Seq(Entries) /\ Len(st) = l + g /\ \A i \in 1 .. l : st[i] = s[i]
  OBVIOUS
<1>3. a \in Seq(Entries) /\ Len(a) = l /\ \A i \in 1 .. l : a[i] = Through(s[i], m + (i - 1) \div BlockSize)
  BY EncipheredIs
<1> HIDE DEF st
<1>4. /\ r \in Seq(Entries) /\ Len(r) = l + g
      /\ \A i \in 1 .. l + g : r[i] = Through(st[i], m + (i - 1) \div BlockSize)
  <2>1. /\ r \in Seq(Entries) /\ Len(r) = Len(st)
        /\ \A i \in 1 .. Len(st) : r[i] = Through(st[i], m + (i - 1) \div BlockSize)
    BY <1>2, EncipheredIs
  <2> HIDE DEF r, l, g
  <2> QED
    BY <1>2, <2>1
<1> HIDE DEF a, r, l, g
<1>5. r \in Seq(Entries) /\ Len(r) = l + g
  BY <1>4
<1>6. q \in Seq(Entries) /\ Len(q) = l /\ \A i \in 1 .. l : q[i] = r[i]
  BY <1>1, <1>5
<1> HIDE DEF q
<1>7. \A i \in 1 .. l : q[i] = a[i]
  <2> TAKE i \in 1 .. l
  <2>1. i \in 1 .. l + g
    BY <1>1
  <2> QED
    BY <1>2, <1>3, <1>4, <1>6, <2>1
<1>8. q = a
  BY <1>3, <1>6, <1>7, SeqEqual
<1>9. SubSeq(a, 1, l) = a /\ l <= l + g
  BY <1>1, <1>3
<1> QED
  BY <1>1, <1>3, <1>5, <1>8, <1>9 DEF IsPrefix, q, a, r, st

\* A piece of text is taken: what went before and it are the text up to its end.
LEMMA TextGoesOn ==
    ASSUME kind = "text", NEW d, NEW n \in Nat, NEW m \in Nat, n <= m
    PROVE  AsGiven(d, n) \o AsText(d, IdRange(n + 1, m)) = AsGiven(d, m)
<1> DEFINE s == IdRange(1, n)  t == IdRange(n + 1, m)
<1>1. s \in Seq(Entries) /\ t \in Seq(Entries)
  BY FirstRange, IdRangeIs
<1>2. s \o t = IdRange(1, m)
  BY RangesFromFirst
<1> HIDE DEF s, t
<1>3. AsText(d, s \o t) = AsText(d, s) \o AsText(d, t)
  BY <1>1, TextOfParts
<1> QED
  BY <1>2, <1>3 DEF AsGiven, s, t

\* The cipher goes on after whole blocks where it stopped.
LEMMA CipherGoesOn ==
    ASSUME kind = "cipher", NEW d, NEW n \in Nat, NEW m \in Nat, n <= m, n % BlockSize = 0
    PROVE  AsGiven(d, n) \o Enciphered(IdRange(n + 1, m), n \div BlockSize) = AsGiven(d, m)
<1> DEFINE s == IdRange(1, n)  t == IdRange(n + 1, m)
<1>1. s \in Seq(Entries) /\ t \in Seq(Entries) /\ Len(s) = n
  BY FirstRange, IdRangeIs
<1>2. s \o t = IdRange(1, m)
  BY RangesFromFirst
<1> HIDE DEF s, t
<1>3. Enciphered(s \o t, 0) = Enciphered(s, 0) \o Enciphered(t, n \div BlockSize)
  BY <1>1, EncipheredFromFirst
<1> QED
  BY <1>2, <1>3 DEF AsGiven, s, t

\* The whole blocks of a range.
LEMMA RangeParts ==
    ASSUME NEW n \in Nat, NEW m \in Nat, n <= m, NEW s \in Seq(Entries), s = IdRange(n + 1, m),
           n % BlockSize = 0
    PROVE  /\ n + WholeLen(s) \in Nat /\ n + WholeLen(s) <= m
           /\ m - (Len(s) - WholeLen(s)) = n + WholeLen(s)
           /\ WholePart(s) = IdRange(n + 1, n + WholeLen(s))
           /\ RestPart(s) = IdRange((n + WholeLen(s)) + 1, m)
           /\ (n + WholeLen(s)) % BlockSize = 0
           /\ (n + WholeLen(s)) \div BlockSize = (n \div BlockSize) + (WholeLen(s) \div BlockSize)
<1>1. s \in Seq(Entries) /\ Len(s) = m - n
  BY IdRangeIs
<1>2. WholeLen(s) \in Nat /\ WholeLen(s) <= Len(s) /\ WholeLen(s) % BlockSize = 0
  BY <1>1, PartsAre
<1> DEFINE w == WholeLen(s)
<1> HIDE DEF w
<1>3. w \in Nat /\ w <= m - n /\ w % BlockSize = 0
  BY <1>1, <1>2 DEF w
<1>4. SubSeq(s, 1, w) = IdRange(n + 1, n + w) /\ SubSeq(s, w + 1, m - n) = IdRange((n + w) + 1, m)
  <2>1. RangeCut(n, m, w)
    BY <1>3, RangeIsCut
  <2> QED
    BY <2>1 DEF RangeCut
<1>5. (n + w) % BlockSize = w % BlockSize /\ (n + w) \div BlockSize = (n \div BlockSize) + (w \div BlockSize)
  BY <1>3, BlocksAre, QuotientOfSum DEF BlockIs
<1>6. n + w \in Nat /\ n + w <= m /\ m - ((m - n) - w) = n + w
  BY <1>3
<1>7. WholePart(s) = SubSeq(s, 1, w) /\ RestPart(s) = SubSeq(s, w + 1, m - n)
  BY <1>1 DEF WholePart, RestPart, w
<1> QED
  BY <1>1, <1>3, <1>4, <1>5, <1>6, <1>7 DEF w

\* A result of a block goes on where the stream below stands.
LEMMA HandedOver ==
    ASSUME kind \in {"text", "cipher"}, NEW d, calls[d] \in Nat, NEW n \in Nat, NEW m \in Nat, n <= m,
           Handed(d, n), NEW r \in Results(d, IdRange(n + 1, m), FALSE), r.fate = "ok"
    PROVE  /\ m - r.kept \in Nat /\ n <= m - r.kept
           /\ Whole(m - r.kept)
           /\ out[d] \o r.made = AsGiven(d, m - r.kept)
           /\ kind = "cipher" => calls[d] + r.calls = (m - r.kept) \div BlockSize
           /\ SubSeq(IdRange(n + 1, m), (m - n) - r.kept + 1, m - n) = IdRange((m - r.kept) + 1, m)
<1> DEFINE s == IdRange(n + 1, m)
<1>0. r \in Results(d, s, FALSE) /\ s = IdRange(n + 1, m)
  OBVIOUS
<1>1. s \in Seq(Entries) /\ Len(s) = m - n
  BY IdRangeIs
<1> HIDE DEF s
<1>2. ResultOK(d, s, FALSE, r)
  BY <1>0, <1>1, ResultsOK
<1>3. r.kept \in Nat /\ r.kept <= m - n
  BY <1>1, <1>2 DEF ResultOK
<1>4. SubSeq(s, (m - n) - r.kept + 1, m - n) = IdRange((m - r.kept) + 1, m)
  <2> DEFINE k == (m - n) - r.kept
  <2>1. k \in Nat /\ k <= m - n /\ n + k = m - r.kept /\ (m - n) - r.kept + 1 = k + 1
    BY <1>1, <1>3
  <2> HIDE DEF k
  <2>2. SubSeq(s, k + 1, m - n) = IdRange((n + k) + 1, m)
    BY <1>0, <2>1, RangesCut
  <2> QED
    BY <2>1, <2>2
<1>5. CASE kind = "text"
  <2>1. r.made = AsText(d, s) /\ r.kept = 0
    BY <1>2, <1>5 DEF ResultOK
  <2>2. m - r.kept = m
    BY <2>1
  <2>3. AsGiven(d, n) \o AsText(d, IdRange(n + 1, m)) = AsGiven(d, m)
    BY <1>5, TextGoesOn
  <2> QED
    BY <1>0, <1>4, <1>5, <2>1, <2>2, <2>3 DEF Handed, Whole
<1>6. CASE kind = "cipher"
  <2> DEFINE w == WholeLen(s)
  <2>0. n % BlockSize = 0 /\ calls[d] = n \div BlockSize /\ out[d] = AsGiven(d, n)
    BY <1>6 DEF Handed, Whole
  <2>1. r = WholeBlocks(d, s)
    <3>1. CASE r \in Thrown(d, s)
      <4>1. r = [WholeBlocks(d, s) EXCEPT !.made = <<>>, !.fate = "throws"]
        BY <1>6, <3>1 DEF Thrown
      <4>2. WholeBlocks(d, s) = Result(WholeBlocks(d, s).made, WholeBlocks(d, s).block,
                  WholeBlocks(d, s).kept, WholeBlocks(d, s).calls, "ok")
        BY DEF WholeBlocks, Result
      <4>3. r.fate = "throws"
        BY <4>1, <4>2 DEF Result
      <4> QED
        BY <4>3
    <3>2. CASE r \notin Thrown(d, s)
      BY <1>0, <1>6, <3>2 DEF Results
    <3> QED
      BY <3>1, <3>2
  <2>2. /\ r.made = Enciphered(WholePart(s), calls[d]) /\ r.kept = Len(s) - w
        /\ r.calls = w \div BlockSize
    <3>1. WholeBlocks(d, s) =
                Result(Enciphered(WholePart(s), calls[d]),
                       Enciphered(WholePart(s), calls[d]) \o RestPart(s),
                       Len(s) - WholeLen(s), WholeLen(s) \div BlockSize, "ok")
      BY <1>1, WholeBlocksAre
    <3> QED
      BY <2>1, <3>1 DEF Result
  <2>3. /\ n + w \in Nat /\ n + w <= m /\ m - (Len(s) - w) = n + w
        /\ WholePart(s) = IdRange(n + 1, n + w) /\ RestPart(s) = IdRange((n + w) + 1, m)
        /\ (n + w) % BlockSize = 0
        /\ (n + w) \div BlockSize = (n \div BlockSize) + (w \div BlockSize)
    BY <1>0, <1>1, <2>0, RangeParts
  <2>4. w \in Nat
    BY <1>1, PartsAre
  <2> HIDE DEF w
  <2>5. n <= n + w
    BY <2>4
  <2>6. AsGiven(d, n) \o Enciphered(IdRange(n + 1, n + w), n \div BlockSize) = AsGiven(d, n + w)
    BY <1>6, <2>0, <2>3, <2>5, CipherGoesOn
  <2>7. m - r.kept = n + w
    BY <2>2, <2>3
  <2> QED
    BY <1>0, <1>4, <1>6, <2>0, <2>2, <2>3, <2>5, <2>6, <2>7 DEF Whole
<1> QED
  BY <1>0, <1>5, <1>6

\* What was handed over, and what is left, follow on.
HandsOn(d, n, m, r) ==
    /\ m - r.kept \in Nat /\ n <= m - r.kept
    /\ Whole(m - r.kept)
    /\ out[d] \o r.made = AsGiven(d, m - r.kept)
    /\ kind = "cipher" => calls[d] + r.calls = (m - r.kept) \div BlockSize
    /\ SubSeq(IdRange(n + 1, m), (m - n) - r.kept + 1, m - n) = IdRange((m - r.kept) + 1, m)

\* A function hands on from where the stream below stands.
LEMMA AllHandedOver ==
    ASSUME kind \in {"text", "cipher"}, NEW d, calls[d] \in Nat, NEW n \in Nat, NEW m \in Nat, n <= m,
           Handed(d, n), NEW r \in Results(d, IdRange(n + 1, m), FALSE), r.fate = "ok"
    PROVE  HandsOn(d, n, m, r)
  BY HandedOver DEF HandsOn

\* A text of m characters: n were handed over, k are whole blocks, and a padding follows.
PaddedAt(d, n, k, m, p) ==
    /\ n \in Nat /\ k \in Nat /\ m \in Nat /\ n <= k /\ k <= m
    /\ n % BlockSize = 0 /\ k % BlockSize = 0 /\ p \in Seq(Entries) /\ kind = "cipher"

Joined(a, b, c) == a \o b = c

\* Whole blocks, then more blocks, then the padded end are the padded text enciphered at once.
LEMMA PaddedText ==
    ASSUME NEW d, NEW n, NEW k, NEW m, NEW p, PaddedAt(d, n, k, m, p)
    PROVE  Joined(AsGiven(d, n),
                  Enciphered(IdRange(n + 1, k), n \div BlockSize)
                    \o Enciphered(IdRange(k + 1, m) \o p, k \div BlockSize),
                  Enciphered(IdRange(1, m) \o p, 0))
<1> DEFINE a == AsGiven(d, n)  x == IdRange(n + 1, k)  y == IdRange(k + 1, m)
           f == IdRange(1, k)  g == IdRange(1, m)  c == n \div BlockSize  c2 == k \div BlockSize
           ex == Enciphered(x, c)  yp == y \o p  ey == Enciphered(yp, c2)  ef == Enciphered(f, 0)
<1>0. /\ n \in Nat /\ k \in Nat /\ m \in Nat /\ n <= k /\ k <= m
      /\ n % BlockSize = 0 /\ k % BlockSize = 0 /\ p \in Seq(Entries) /\ kind = "cipher"
  BY DEF PaddedAt
<1>1. c \in Nat /\ c2 \in Nat
  BY <1>0, BlocksAre, QuotientIs DEF BlockIs
<1>2. a \in Seq(Entries) /\ x \in Seq(Entries) /\ y \in Seq(Entries)
  BY <1>0, GivenIs, IdRangeIs
<1>3. f \in Seq(Entries) /\ Len(f) = k
  BY <1>0, FirstRange
<1>4. f \o y = g
  BY <1>0, RangesFromFirst
<1>5. a \o ex = AsGiven(d, k)
  BY <1>0, CipherGoesOn
<1>6. ef = AsGiven(d, k)
  BY <1>0 DEF AsGiven
<1> HIDE DEF a, x, y, f, g, c, ef
<1>7. yp \in Seq(Entries)
  BY <1>0, <1>2, ConcatProperties
<1> HIDE DEF yp
<1>8. Enciphered(f \o yp, 0) = ef \o ey
  <2>1. Len(f) % BlockSize = 0 /\ c2 = Len(f) \div BlockSize
    BY <1>0, <1>3
  <2> HIDE DEF c2, ey
  <2>2. Enciphered(f \o yp, 0) = Enciphered(f, 0) \o Enciphered(yp, c2)
    BY <1>3, <1>7, <2>1, EncipheredFromFirst
  <2> QED
    BY <2>2 DEF ef, ey
<1> HIDE DEF c2
<1>9. ex \in Seq(Entries) /\ ey \in Seq(Entries)
  BY <1>1, <1>2, <1>7, EncipheredIs
<1> HIDE DEF ex, ey
<1>10. (a \o ex) \o ey = a \o (ex \o ey)
  <2>1. Associate(a, ex, ey)
    BY <1>2, <1>9, EntriesAssociative
  <2> QED
    BY <2>1 DEF Associate
<1>11. f \o yp = g \o p
  <2>1. Associate(f, y, p)
    BY <1>0, <1>2, <1>3, EntriesAssociative
  <2> QED
    BY <1>4, <2>1 DEF Associate, yp
<1>12. Joined(a, ex \o ey, Enciphered(g \o p, 0))
  BY <1>5, <1>6, <1>8, <1>10, <1>11 DEF Joined
<1> QED
  BY <1>12 DEF a, ex, ey, x, yp, y, g, c, c2

\* What finishes a stream goes on where the stream below stands, to its end.
LEMMA Finished ==
    ASSUME kind \in {"text", "cipher"}, NEW d, calls[d] \in Nat, NEW n \in Nat, NEW m \in Nat, n <= m,
           Handed(d, n), NEW r \in Results(d, IdRange(n + 1, m), TRUE), r.fate = "ok"
    PROVE  /\ kind = "text" => out[d] \o r.made = AsGiven(d, m)
           /\ kind = "cipher" =>
                /\ IsPrefix(AsGiven(d, m), out[d] \o r.made)
                /\ Len(out[d] \o r.made) % BlockSize = 0
                /\ Len(out[d] \o r.made) - m \in 1 .. BlockSize
<1> DEFINE s == IdRange(n + 1, m)
<1>0. r \in Results(d, s, TRUE) /\ s = IdRange(n + 1, m)
  OBVIOUS
<1>1. s \in Seq(Entries) /\ Len(s) = m - n
  BY IdRangeIs
<1> HIDE DEF s
<1>2. ResultOK(d, s, TRUE, r)
  BY <1>0, <1>1, ResultsOK
<1>5. CASE kind = "text"
  <2>1. r.made = AsText(d, s)
    BY <1>2, <1>5 DEF ResultOK
  <2>3. AsGiven(d, n) \o AsText(d, IdRange(n + 1, m)) = AsGiven(d, m)
    BY <1>5, TextGoesOn
  <2> QED
    BY <1>0, <1>5, <2>1, <2>3 DEF Handed
<1>6. CASE kind = "cipher"
  <2> DEFINE w == WholeLen(s)  k == n + w  p == Padding(s)  g == IdRange(1, m)
  <2>0. n % BlockSize = 0 /\ calls[d] = n \div BlockSize /\ out[d] = AsGiven(d, n)
    BY <1>6 DEF Handed, Whole
  <2>1. r = FlushProxy(d, s)
    <3>1. CASE r \in Thrown(d, s)
      <4>1. r = [WholeBlocks(d, s) EXCEPT !.made = <<>>, !.fate = "throws"]
        BY <1>6, <3>1 DEF Thrown
      <4>2. WholeBlocks(d, s) = Result(WholeBlocks(d, s).made, WholeBlocks(d, s).block,
                  WholeBlocks(d, s).kept, WholeBlocks(d, s).calls, "ok")
        BY DEF WholeBlocks, Result
      <4>3. r.fate = "throws"
        BY <4>1, <4>2 DEF Result
      <4> QED
        BY <4>3
    <3>2. CASE r \notin Thrown(d, s)
      BY <1>0, <1>6, <3>2 DEF Results
    <3> QED
      BY <3>1, <3>2
  <2>2. Len(s) % BlockSize # 0
    <3>1. ASSUME Len(s) % BlockSize = 0 PROVE FALSE
      <4>1. r = [WholeBlocks(d, s) EXCEPT !.fate = "wild"]
        BY <1>1, <2>1, <3>1, FlushProxyIs
      <4>2. WholeBlocks(d, s) = Result(WholeBlocks(d, s).made, WholeBlocks(d, s).block,
                  WholeBlocks(d, s).kept, WholeBlocks(d, s).calls, "ok")
        BY DEF WholeBlocks, Result
      <4>3. r.fate = "wild"
        BY <4>1, <4>2 DEF Result
      <4> QED
        BY <4>3
    <3> QED
      BY <3>1
  <2>3. /\ k \in Nat /\ k <= m /\ m - (Len(s) - w) = k
        /\ WholePart(s) = IdRange(n + 1, k) /\ RestPart(s) = IdRange(k + 1, m)
        /\ k % BlockSize = 0
        /\ k \div BlockSize = (n \div BlockSize) + (w \div BlockSize)
    BY <1>0, <1>1, <2>0, RangeParts
  <2>4. /\ w \in Nat /\ Len(s) - w = Len(s) % BlockSize /\ Len(s) % BlockSize < BlockSize
        /\ Len(s) % BlockSize \in Nat
    BY <1>1, PartsAre
  <2>5. n <= k
    BY <2>4
  <2> DEFINE h == Len(s) % BlockSize  b == BlockSize - h
  <2>6. b \in 1 .. BlockSize /\ m + b = k + BlockSize
    <3>1. h \in Nat /\ h # 0 /\ h < BlockSize /\ BlockSize \in Nat /\ m - h = k
      BY <2>2, <2>3, <2>4, BlocksAre DEF BlockIs
    <3>2. k \in Nat
      BY <2>3
    <3> HIDE DEF h, k
    <3> QED
      BY <3>1, <3>2
  <2>7. p \in Seq(Entries) /\ Len(p) = b
    BY <1>1, <2>2, FlushProxyIs
  <2>8. r.made = Enciphered(IdRange(n + 1, k), n \div BlockSize)
                   \o Enciphered(IdRange(k + 1, m) \o p, k \div BlockSize)
    <3>1. FlushProxy(d, s) = Result(Enciphered(WholePart(s), calls[d])
                              \o Enciphered(RestPart(s) \o p, calls[d] + w \div BlockSize),
                            Enciphered(WholePart(s), calls[d]) \o RestPart(s), 0,
                            w \div BlockSize + 1, "ok")
      BY <1>1, <2>2, FlushProxyIs
    <3>2. r.made = Enciphered(WholePart(s), calls[d])
                     \o Enciphered(RestPart(s) \o p, calls[d] + w \div BlockSize)
      BY <2>1, <3>1 DEF Result
    <3>3. calls[d] = n \div BlockSize /\ calls[d] + w \div BlockSize = k \div BlockSize
      BY <2>0, <2>3
    <3> HIDE DEF k, w, p
    <3> QED
      BY <2>3, <3>2, <3>3
  <2> HIDE DEF w, k, p, h, b
  <2>9. out[d] \o r.made = Enciphered(g \o p, 0)
    <3>1. Joined(AsGiven(d, n),
                 Enciphered(IdRange(n + 1, k), n \div BlockSize)
                    \o Enciphered(IdRange(k + 1, m) \o p, k \div BlockSize),
                 Enciphered(IdRange(1, m) \o p, 0))
      <4>1. PaddedAt(d, n, k, m, p)
        BY <1>6, <2>0, <2>3, <2>5, <2>7 DEF PaddedAt
      <4> QED
        BY <4>1, PaddedText
    <3>2. Joined(out[d], r.made, Enciphered(g \o p, 0))
      BY <2>0, <2>8, <3>1
    <3> QED
      BY <3>2 DEF Joined
  <2>10. g \in Seq(Entries) /\ Len(g) = m
    BY FirstRange
  <2>11. AsGiven(d, m) = Enciphered(g, 0)
    BY <1>6 DEF AsGiven
  <2> HIDE DEF g
  <2>12. IsPrefix(Enciphered(g, 0), Enciphered(g \o p, 0))
    BY <2>7, <2>10, EncipheredPrefix
  <2>13. Len(Enciphered(g \o p, 0)) = m + b
    <3> DEFINE gp == g \o p
    <3>1. gp \in Seq(Entries) /\ Len(gp) = Len(g) + Len(p)
      BY <2>7, <2>10, ConcatProperties
    <3> HIDE DEF gp
    <3>2. Len(Enciphered(gp, 0)) = Len(gp)
      BY <3>1, EncipheredIs
    <3> QED
      BY <2>7, <2>10, <3>1, <3>2 DEF gp
  <2>14. (m + b) % BlockSize = 0 /\ (m + b) - m \in 1 .. BlockSize
    <3>1. (k + BlockSize) % BlockSize = BlockSize % BlockSize
      BY <2>3, BlocksAre, QuotientOfSum DEF BlockIs
    <3>2. BlockSize % BlockSize = 0
      BY BlocksAre, QuotientOfNone DEF BlockIs
    <3>3. (m + b) - m = b
      BY <2>6, BlocksAre DEF BlockIs
    <3> QED
      BY <2>6, <3>1, <3>2, <3>3
  <2> QED
    BY <1>6, <2>9, <2>11, <2>12, <2>13, <2>14
<1> QED
  BY <1>5, <1>6

(***************************************************************************)
(* Steps that leave a stream alone                                         *)
(***************************************************************************)

StreamSame(d) ==
    /\ out'[d] = out[d] /\ calls'[d] = calls[d] /\ given'[d] = given[d]
    /\ again'[d] = again[d] /\ lost'[d] = lost[d]

\* What a function makes of a text is the same after a step that keeps function and text.
LEMMA GivenSame ==
    ASSUME kind' = kind, text' = text, NEW d, NEW n
    PROVE  AsGiven(d, n)' = AsGiven(d, n)
  BY DEF AsGiven, AsText, Enciphered, IdRange, Named, Cr

\* Whole is a matter of the function alone.
LEMMA WholeSame == ASSUME kind' = kind, NEW n PROVE Whole(n)' = Whole(n)
  BY DEF Whole

\* What e held, o holds.
LEMMA HeldMoves ==
    ASSUME kind' = kind, text' = text, NEW o \in Obj, NEW e \in Obj, under'[o] = under[e],
           buf'[o] = buf[e], StreamSame(under[e]), HeldOK(e)
    PROVE  HeldOK(o)'
<1>1. PICK d \in Obj, n \in Nat : d = under[e] /\ HeldAt(e, d, n)
  BY DEF HeldOK
<1>2. AsGiven(d, n)' = AsGiven(d, n) /\ Whole(n)' = Whole(n)
  BY GivenSame, WholeSame
<1>3. Handed(d, n)' = Handed(d, n)
  BY <1>1, <1>2 DEF Handed, StreamSame
<1>4. HeldAt(o, d, n)'
  <2>1. /\ given'[d] = given[d] /\ out'[d] = out[d] /\ lost'[d] = lost[d] /\ again'[d] = again[d]
        /\ buf'[o] = buf[e]
    BY <1>1 DEF StreamSame
  <2>2. Ids(out[d])' = Ids(out[d]) /\ IdRange(n + 1, given[d])' = IdRange(n + 1, given[d])
    BY <2>1 DEF Ids, IdRange, Named
  <2> QED
    BY <1>1, <1>2, <1>3, <2>1, <2>2 DEF HeldAt
<1> QED
  BY <1>1, <1>4 DEF HeldOK

\* An object that keeps its stream and its block still holds what it should.
LEMMA HeldSame ==
    ASSUME kind' = kind, text' = text, NEW o \in Obj, under'[o] = under[o], buf'[o] = buf[o],
           StreamSame(under[o]), HeldOK(o)
    PROVE  HeldOK(o)'
  BY HeldMoves

\* A stream that nobody holds and no step touches is still left as it should be.
LEMMA LeftSame ==
    ASSUME kind' = kind, text' = text, NEW d \in Obj, StreamSame(d), LeftOK(d)
    PROVE  LeftOK(d)'
<1>1. PICK n \in Nat : n = given[d] /\ LeftAt(d, n)
  BY DEF LeftOK
<1>2. AsGiven(d, n)' = AsGiven(d, n)
  BY GivenSame
<1>3. LeftAt(d, n)'
  BY <1>1, <1>2 DEF LeftAt, StreamSame, Ids
<1> QED
  BY <1>1, <1>3 DEF LeftOK, StreamSame

\* A step that works on the stream of one object.
LEMMA OneStream ==
    ASSUME TransformInv, Calm, NEW o \in Obj, life[o] = "live", NEW d \in Obj, d = under[o],
           kind' = kind, text' = text, under' = under, life' = life, TransformTypes',
           \A e \in Obj : e # o => buf'[e] = buf[e] /\ rest'[e] = rest[e],
           \A x \in Obj : x # d => StreamSame(x),
           Len(buf'[o]) <= BufferSize, given'[d] + rest'[o] <= Len(text[d]),
           HeldOK(o)', trouble > 0 => trouble' > 0,
           lost'[d] => trouble' > 0 \/ (kind = "cipher" /\ BufferSize % BlockSize # 0)
    PROVE  TransformInv'
<1>1. TransformTypes /\ Room /\ Holders /\ StreamsOK
  BY DEF TransformInv
<1>2. \A e \in Obj : e # o /\ life[e] = "live" => under[e] # d /\ under[e] \in Obj
  BY <1>1 DEF Holders, TransformTypes
<1>3. Room'
  <2>1. \A e \in Obj : Len(buf'[e]) <= BufferSize
    BY <1>1 DEF Room
  <2>2. \A x \in Obj : given'[x] <= Len(text'[x])
    <3>1. given'[d] \in Nat /\ rest'[o] \in Nat /\ Len(text[d]) \in Nat
      BY <1>1 DEF TransformTypes
    <3>2. given'[d] <= Len(text[d])
      BY <3>1
    <3> QED
      BY <1>1, <3>2 DEF Room, StreamSame
  <2>3. ASSUME NEW e \in Obj, rest'[e] > 0
        PROVE  life'[e] = "live" /\ given'[under'[e]] + rest'[e] <= Len(text'[under'[e]])
    <3>1. CASE e = o
      BY <3>1
    <3>2. CASE e # o
      <4>1. rest[e] > 0
        BY <2>3, <3>2
      <4>2. life[e] = "live" /\ given[under[e]] + rest[e] <= Len(text[under[e]])
        BY <1>1, <4>1 DEF Room
      <4>3. StreamSame(under[e])
        BY <1>2, <3>2, <4>2
      <4> QED
        BY <3>2, <4>2, <4>3 DEF StreamSame
    <3> QED
      BY <3>1, <3>2
  <2> QED
    BY <2>1, <2>2, <2>3 DEF Room, Calm
<1>4. Holders'
  <2>1. ASSUME NEW e \in Obj, life[e] = "unborn"
        PROVE  /\ under'[e] = e /\ buf'[e] = <<>> /\ out'[e] = <<>> /\ calls'[e] = 0 /\ given'[e] = 0
               /\ ~again'[e] /\ ~lost'[e]
    <3>1. e # o /\ life[d] # "unborn"
      BY <1>1, <2>1 DEF Holders
    <3> QED
      BY <1>1, <2>1, <3>1 DEF Holders, StreamSame
  <2> QED
    BY <1>1, <2>1 DEF Holders
<1>5. \A e \in Obj : life'[e] = "live" => HeldOK(e)'
  <2> TAKE e \in Obj
  <2>1. CASE e = o
    BY <2>1
  <2>2. CASE e # o /\ life[e] = "live"
    <3>1. HeldOK(e) /\ StreamSame(under[e])
      BY <1>1, <1>2, <2>2 DEF StreamsOK
    <3>2. under'[e] = under[e] /\ buf'[e] = buf[e]
      BY <2>2
    <3> QED
      BY <3>1, <3>2, HeldSame
  <2> QED
    BY <2>1, <2>2
<1>6. \A x \in Obj : (\A e \in Obj : life'[e] = "live" => under'[e] # x) => LeftOK(x)'
  <2> SUFFICES ASSUME NEW x \in Obj, \A e \in Obj : life'[e] = "live" => under'[e] # x
               PROVE  LeftOK(x)'
    OBVIOUS
  <2>1. LeftOK(x) /\ x # d
    BY <1>1 DEF StreamsOK
  <2> QED
    BY <2>1, LeftSame
<1>7. LostForReason'
  <2>1. ASSUME NEW x \in Obj, lost'[x]
        PROVE  trouble' > 0 \/ (kind' = "cipher" /\ BufferSize % BlockSize # 0)
    <3>1. CASE x = d
      BY <2>1, <3>1
    <3>2. CASE x # d
      <4>1. lost[x]
        BY <2>1, <3>2 DEF StreamSame
      <4>2. trouble > 0 \/ (kind = "cipher" /\ BufferSize % BlockSize # 0)
        BY <1>1, <4>1 DEF StreamsOK, LostForReason
      <4> QED
        BY <4>2
    <3> QED
      BY <3>1, <3>2
  <2> QED
    BY <2>1 DEF LostForReason
<1>8. WildOnlyAligned'
  BY DEF WildOnlyAligned, Calm
<1> QED
  BY <1>3, <1>4, <1>5, <1>6, <1>7, <1>8 DEF TransformInv, StreamsOK

(***************************************************************************)
(* Writing                                                                 *)
(***************************************************************************)

\* What is copied into the block goes on where the block ends.
LEMMA CopiedIs ==
    ASSUME TransformTypes, NEW o \in Obj, NEW d \in Obj, d = under[o], NEW n \in Nat, HeldAt(o, d, n),
           NEW k \in Nat
    PROVE  /\ Copied(o, k) \in Seq(Entries) /\ Len(Copied(o, k)) = Len(buf[o]) + k
           /\ given[d] + k = n + Len(Copied(o, k))
           /\ \A i \in 1 .. Len(Copied(o, k)) : Copied(o, k)[i].id = n + i
           /\ buf[o] = IdRange(n + 1, given[d]) => Copied(o, k) = IdRange(n + 1, given[d] + k)
<1> DEFINE b == buf[o]  g == given[d]  j == g + k  t == IdRange(g + 1, j)  s == b \o t
<1>1. /\ b \in Seq(Entries) /\ Len(b) \in Nat /\ g \in Nat /\ g = n + Len(b) /\ j \in Nat /\ g <= j
      /\ \A i \in 1 .. Len(b) : b[i].id = n + i
  <2>1. b \in Seq(Entries) /\ g \in Nat
    BY DEF TransformTypes
  <2>2. g = n + Len(b) /\ \A i \in 1 .. Len(b) : b[i].id = n + i
    BY DEF HeldAt
  <2>3. Len(b) \in Nat
    BY <2>1
  <2> HIDE DEF b, g
  <2>4. j \in Nat /\ g <= j
    BY <2>1
  <2> QED
    BY <2>1, <2>2, <2>3, <2>4
<1>2. Copied(o, k) = s
  BY DEF Copied
<1>3. t \in Seq(Entries) /\ Len(t) = j - g /\ \A i \in 1 .. j - g : t[i] = Named(g + i)
  BY <1>1, IdRangeIs
<1>4. b = IdRange(n + 1, g) => s = IdRange(n + 1, j)
  <2>1. n <= g
    BY <1>1
  <2> HIDE DEF b, j, g
  <2>2. IdRange(n + 1, g) \o IdRange(g + 1, j) = IdRange(n + 1, j)
    BY <1>1, <2>1, RangesConcat
  <2> QED
    BY <2>2
<1> HIDE DEF t, b
<1>5. /\ s \in Seq(Entries) /\ Len(s) = Len(b) + Len(t)
      /\ \A i \in 1 .. Len(b) + Len(t) : s[i] = IF i <= Len(b) THEN b[i] ELSE t[i - Len(b)]
  <2>1. b \in Seq(Entries) /\ t \in Seq(Entries)
    BY <1>1, <1>3
  <2> QED
    BY <2>1, ConcatProperties
<1> HIDE DEF s
<1>6. j - g = k
  BY <1>1
<1> HIDE DEF g
<1>7. Len(s) = Len(b) + k /\ \A i \in 1 .. Len(b) + k : s[i].id = n + i
  <2>1. Len(s) = Len(b) + k
    BY <1>3, <1>5, <1>6
  <2>2. ASSUME NEW i \in 1 .. Len(b) + k PROVE s[i].id = n + i
    <3>1. s[i] = IF i <= Len(b) THEN b[i] ELSE t[i - Len(b)]
      BY <1>3, <1>5, <1>6
    <3>2. CASE i <= Len(b)
      BY <1>1, <3>1, <3>2
    <3>3. CASE ~(i <= Len(b))
      <4>1. i - Len(b) \in 1 .. k /\ g + (i - Len(b)) = n + i
        BY <1>1, <3>3
      <4>2. t[i - Len(b)] = Named(g + (i - Len(b)))
        BY <1>3, <1>6, <4>1
      <4> QED
        BY <3>1, <3>3, <4>1, <4>2 DEF Named
    <3> QED
      BY <3>2, <3>3
  <2> QED
    BY <2>1, <2>2
<1>8. j = n + Len(s)
  BY <1>1, <1>7
<1> QED
  BY <1>2, <1>4, <1>5, <1>7, <1>8 DEF s, b, g

\* What the function takes is below, and it takes whole blocks.
LEMMA TakenAll ==
    ASSUME kind \in {"text", "cipher"}, NEW d, out[d] \in Seq(Entries), calls[d] \in Nat, NEW n \in Nat,
           NEW s \in Seq(Entries), \A i \in 1 .. Len(s) : s[i].id = n + i,
           Whole(n), \A i \in 1 .. n : i \in Ids(out[d]),
           NEW final \in BOOLEAN, NEW r \in Results(d, s, final), r.fate = "ok"
    PROVE  /\ \A i \in 1 .. n + (Len(s) - r.kept) : i \in Ids(out[d] \o r.made)
           /\ ~final => Whole(n + (Len(s) - r.kept))
<1>1. ResultOK(d, s, final, r)
  BY ResultsOK
<1>2. /\ r.made \in Seq(Entries) /\ r.kept \in Nat /\ r.kept <= Len(s) /\ Len(s) \in Nat
      /\ \A i \in 1 .. Len(s) - r.kept : s[i].id \in Ids(r.made)
  BY <1>1 DEF ResultOK
<1> DEFINE k == Len(s) - r.kept
<1>3. Ids(out[d] \o r.made) = Ids(out[d]) \cup Ids(r.made)
  BY <1>2, IdsOfParts
<1>4. \A i \in 1 .. n + k : i \in Ids(out[d] \o r.made)
  <2> TAKE i \in 1 .. n + k
  <2>1. CASE i <= n
    <3>1. i \in 1 .. n
      BY <2>1
    <3> QED
      BY <1>3, <3>1
  <2>2. CASE ~(i <= n)
    <3>1. i - n \in 1 .. k /\ i - n \in 1 .. Len(s) /\ n + (i - n) = i
      BY <1>2, <2>2
    <3>2. s[i - n].id = i /\ s[i - n].id \in Ids(r.made)
      BY <1>2, <3>1
    <3> QED
      BY <1>3, <3>2
  <2> QED
    BY <2>1, <2>2
<1>5. ASSUME ~final PROVE Whole(n + k)
  <2>1. CASE kind = "text"
    BY <2>1 DEF Whole
  <2>2. CASE kind = "cipher"
    <3>1. r.kept = Len(s) % BlockSize /\ n % BlockSize = 0
      BY <1>1, <1>5, <2>2 DEF ResultOK, Whole
    <3>2. WholeLen(s) \in Nat /\ Len(s) - WholeLen(s) = Len(s) % BlockSize /\ WholeLen(s) % BlockSize = 0
      BY PartsAre
    <3>3. (n + WholeLen(s)) % BlockSize = 0
      BY <3>1, <3>2, BlocksAre, QuotientOfSum DEF BlockIs
    <3>4. k = WholeLen(s)
      <4> DEFINE w == WholeLen(s)  h == Len(s) % BlockSize
      <4>1. w \in Nat /\ Len(s) - w = h /\ r.kept = h
        BY <3>1, <3>2
      <4> HIDE DEF w, h
      <4>2. Len(s) - h = w
        BY <1>2, <4>1
      <4> QED
        BY <4>1, <4>2 DEF w
    <3> QED
      BY <3>3, <3>4 DEF Whole
  <2> QED
    BY <2>1, <2>2
<1> QED
  BY <1>4, <1>5

\* What was held before is below after more went there.
LEMMA MoreBelow ==
    ASSUME NEW a \in Seq(Entries), NEW b \in Seq(Entries), NEW n, \A i \in 1 .. n : i \in Ids(a)
    PROVE  \A i \in 1 .. n : i \in Ids(a \o b)
  BY IdsOfParts

\* The state of an object that holds a stream.
LEMMA LiveIs ==
    ASSUME TransformInv, NEW o \in Obj, life[o] = "live"
    PROVE  /\ kind \in {"text", "cipher"} /\ under[o] \in Obj
           /\ buf[o] \in Seq(Entries) /\ Len(buf[o]) \in Nat /\ Len(buf[o]) <= BufferSize
           /\ out[under[o]] \in Seq(Entries) /\ calls[under[o]] \in Nat /\ given[under[o]] \in Nat
           /\ again[under[o]] \in BOOLEAN /\ lost[under[o]] \in BOOLEAN
           /\ given[under[o]] <= Len(text[under[o]]) /\ Len(text[under[o]]) \in Nat
           /\ rest[o] \in Nat /\ trouble \in Nat
           /\ given[under[o]] + rest[o] <= Len(text[under[o]])
           /\ lost[under[o]] => trouble > 0 \/ (kind = "cipher" /\ BufferSize % BlockSize # 0)
           /\ \E n \in Nat : HeldAt(o, under[o], n)
<1>1. TransformTypes /\ Room /\ HeldOK(o) /\ LostForReason
  BY DEF TransformInv, StreamsOK
<1>2. PICK n \in Nat : HeldAt(o, under[o], n)
  BY <1>1 DEF HeldOK
<1>3. /\ kind \in {"text", "cipher"} /\ under[o] \in Obj
      /\ buf[o] \in Seq(Entries) /\ Len(buf[o]) \in Nat
      /\ out[under[o]] \in Seq(Entries) /\ calls[under[o]] \in Nat /\ given[under[o]] \in Nat
      /\ again[under[o]] \in BOOLEAN /\ lost[under[o]] \in BOOLEAN /\ text[under[o]] \in Seq(Character)
      /\ rest[o] \in Nat /\ trouble \in Nat
  BY <1>1 DEF TransformTypes
<1>4. Len(text[under[o]]) \in Nat
  BY <1>3
<1>5. given[under[o]] <= Len(text[under[o]]) /\ Len(buf[o]) <= BufferSize
  BY <1>1, <1>3 DEF Room
<1>6. given[under[o]] + rest[o] <= Len(text[under[o]])
  <2>1. CASE rest[o] = 0
    BY <1>3, <1>5, <2>1
  <2>2. CASE rest[o] > 0
    BY <1>1, <2>2 DEF Room
  <2> QED
    BY <1>3, <2>1, <2>2
<1> QED
  BY <1>1, <1>2, <1>3, <1>4, <1>5, <1>6 DEF LostForReason

\* A write that is only copied.
LEMMA HeldCopied ==
    ASSUME TransformInv, NEW o \in Obj, life[o] = "live", NEW d \in Obj, d = under[o], NEW k \in Nat,
           kind' = kind, text' = text, under' = under, out'[d] = out[d], calls'[d] = calls[d],
           given'[d] = given[d] + k, again'[d] = again[d], lost'[d] = lost[d],
           buf'[o] = Copied(o, k)
    PROVE  HeldOK(o)'
<1>1. PICK n \in Nat : HeldAt(o, d, n)
  BY LiveIs
<1>2. TransformTypes
  BY DEF TransformInv
<1> DEFINE s == Copied(o, k)
<1>3. /\ s \in Seq(Entries) /\ given[d] + k = n + Len(s)
      /\ \A i \in 1 .. Len(s) : s[i].id = n + i
      /\ buf[o] = IdRange(n + 1, given[d]) => s = IdRange(n + 1, given[d] + k)
  BY <1>1, <1>2, CopiedIs
<1> HIDE DEF s
<1>4. AsGiven(d, n)' = AsGiven(d, n) /\ Whole(n)' = Whole(n)
  BY GivenSame, WholeSame
<1>5. Handed(d, n)' = Handed(d, n)
  BY <1>4 DEF Handed
<1>6. IdRange(n + 1, given[d])' = IdRange(n + 1, given'[d])
  BY DEF IdRange, Named
<1>7. buf'[o] = s
  BY DEF s
<1>8. HeldAt(o, d, n)'
  <2>1. given'[d] = n + Len(buf'[o])
    BY <1>3, <1>7
  <2>2. \A i \in 1 .. Len(buf'[o]) : buf'[o][i].id = n + i
    BY <1>3, <1>7
  <2>3. ~lost'[d] => Whole(n)' /\ \A i \in 1 .. n : i \in Ids(out[d])'
    BY <1>1, <1>4 DEF HeldAt, Ids
  <2>4. ~lost'[d] /\ ~again'[d] => buf'[o] = IdRange(n + 1, given'[d]) /\ Handed(d, n)'
    BY <1>1, <1>3, <1>5, <1>7 DEF HeldAt
  <2> QED
    BY <1>6, <2>1, <2>2, <2>3, <2>4 DEF HeldAt
<1> QED
  BY <1>8 DEF HeldOK

\* otransform_write, its first copy included, keeps the invariant.
LEMMA WritePreserves ==
    ASSUME TransformInv, NEW o \in Obj, NEW k \in 1 .. MaxWrite, Write(o, k)
    PROVE  TransformInv'
<1> DEFINE d == under[o]
<1>0. life[o] = "live" /\ Calm /\ AtRest /\ k \in Nat
  BY BoundsAssumption DEF Write, Live, AtRest, Calm
<1>1. TransformTypes /\ d \in Obj
  BY <1>0, LiveIs DEF TransformInv
<1>2. given[d] \in Nat /\ given[d] + k <= Len(text[d]) /\ Len(text[d]) \in Nat
  BY <1>0, LiveIs DEF Write, Has
<1>3. /\ kind' = kind /\ text' = text /\ under' = under /\ life' = life /\ out' = out /\ calls' = calls
      /\ again' = again /\ lost' = lost /\ trouble' = trouble
  BY DEF Write
<1>4. CASE Len(buf[o]) + k < BufferSize
  <2>1. /\ buf' = [buf EXCEPT ![o] = Copied(o, k)]
        /\ given' = [given EXCEPT ![d] = @ + k] /\ rest' = rest
    BY <1>4 DEF Write
  <2>2. Copied(o, k) \in Seq(Entries) /\ Len(Copied(o, k)) = Len(buf[o]) + k
    <3>1. PICK n \in Nat : HeldAt(o, d, n)
      BY <1>0, LiveIs
    <3> QED
      BY <1>0, <1>1, <3>1, CopiedIs
  <2>3. TransformTypes'
    <3>1. buf' \in [Obj -> Seq(Entries)]
      BY <1>1, <2>1, <2>2 DEF TransformTypes
    <3>2. given' \in [Obj -> Nat]
      BY <1>0, <1>1, <2>1 DEF TransformTypes
    <3> QED
      BY <1>1, <1>3, <2>1, <3>1, <3>2 DEF TransformTypes
  <2>4. buf'[o] = Copied(o, k) /\ given'[d] = given[d] + k
    BY <1>1, <2>1 DEF TransformTypes
  <2>5. HeldOK(o)'
    BY <1>0, <1>1, <1>3, <2>4, HeldCopied
  <2>6. \A e \in Obj : e # o => buf'[e] = buf[e] /\ rest'[e] = rest[e]
    BY <1>1, <2>1 DEF TransformTypes
  <2>7. \A x \in Obj : x # d => StreamSame(x)
    BY <1>1, <1>3, <2>1 DEF TransformTypes, StreamSame
  <2>8. Len(buf'[o]) <= BufferSize /\ given'[d] + rest'[o] <= Len(text[d])
    <3>1. rest'[o] = 0
      BY <1>0, <2>1 DEF AtRest
    <3>2. Len(buf[o]) \in Nat
      BY <1>0, LiveIs
    <3> QED
      BY <1>0, <1>2, <1>4, <2>2, <2>4, <3>1, <3>2, BlocksAre DEF BlockIs
  <2>9. lost'[d] => trouble' > 0 \/ (kind = "cipher" /\ BufferSize % BlockSize # 0)
    BY <1>0, <1>3, LiveIs
  <2> HIDE DEF d
  <2> QED
    BY <1>0, <1>1, <1>3, <2>3, <2>5, <2>6, <2>7, <2>8, <2>9, OneStream DEF d
<1>5. CASE ~(Len(buf[o]) + k < BufferSize)
  <2>1. rest' = [rest EXCEPT ![o] = k] /\ buf' = buf /\ given' = given
    BY <1>5 DEF Write
  <2>2. TransformTypes'
    BY <1>0, <1>1, <1>3, <2>1 DEF TransformTypes
  <2>3. StreamSame(d) /\ \A x \in Obj : x # d => StreamSame(x)
    BY <1>3, <2>1 DEF StreamSame
  <2>4. HeldOK(o)'
    <3>1. HeldOK(o) /\ under'[o] = under[o] /\ buf'[o] = buf[o]
      BY <1>0, <1>3, <2>1 DEF TransformInv, StreamsOK
    <3> QED
      BY <1>3, <2>3, <3>1, HeldSame
  <2>5. \A e \in Obj : e # o => buf'[e] = buf[e] /\ rest'[e] = rest[e]
    BY <1>1, <2>1 DEF TransformTypes
  <2>6. Len(buf'[o]) <= BufferSize /\ given'[d] + rest'[o] <= Len(text[d])
    <3>1. rest'[o] = k
      BY <1>1, <2>1 DEF TransformTypes
    <3> QED
      BY <1>0, <1>2, <2>1, <3>1, LiveIs
  <2>7. lost'[d] => trouble' > 0 \/ (kind = "cipher" /\ BufferSize % BlockSize # 0)
    BY <1>0, <1>3, LiveIs
  <2> HIDE DEF d
  <2> QED
    BY <1>0, <1>1, <1>3, <2>2, <2>3, <2>4, <2>5, <2>6, <2>7, OneStream DEF d
<1> QED
  BY <1>4, <1>5

(***************************************************************************)
(* Handing over                                                            *)
(***************************************************************************)

\* What an object holds when it hands s over, of which the last character is the m-th
\* of the text.
Offers(d, n, s, m) ==
    /\ s \in Seq(Entries) /\ m = n + Len(s)
    /\ \A i \in 1 .. Len(s) : s[i].id = n + i
    /\ ~lost[d] => Whole(n) /\ \A i \in 1 .. n : i \in Ids(out[d])
    /\ ~lost[d] /\ ~again[d] => s = IdRange(n + 1, m) /\ Handed(d, n)

StreamTypes(d) == out[d] \in Seq(Entries) /\ calls[d] \in Nat /\ kind \in {"text", "cipher"}

\* The step of o that hands over, with b left in its block.
HandsOver(o, d, r, b, m) ==
    /\ kind' = kind /\ text' = text /\ under'[o] = d
    /\ buf'[o] = b /\ given'[d] = m
    /\ out'[d] = out[d] \o r.made /\ calls'[d] = calls[d] + r.calls
    /\ lost'[d] = lost[d]

\* The numbers of the characters of which a copy takes the first l - h.
LEMMA TakenNumbers ==
    ASSUME NEW n \in Nat, NEW l \in Nat, NEW h \in Nat, h <= l, NEW m \in Nat, m = n + l,
           NEW j \in Int, j = l - h, NEW k \in Int, k = n + j
    PROVE  /\ j \in Nat /\ j <= l /\ k \in Nat /\ m - h = k /\ l - j = h /\ m = k + (l - j)
           /\ \A i \in 1 .. l - j : j + i \in 1 .. l /\ n + (j + i) = k + i
  OBVIOUS

\* The function took what it took.
LEMMA TakenHeld ==
    ASSUME NEW o \in Obj, NEW d \in Obj, NEW n \in Nat, NEW s, NEW m \in Nat, Offers(d, n, s, m),
           StreamTypes(d), NEW r \in Results(d, s, FALSE), r.fate = "ok",
           HandsOver(o, d, r, SubSeq(s, Len(s) - r.kept + 1, Len(s)), m), again'[d] = again[d]
    PROVE  HeldOK(o)'
<1> DEFINE l == Len(s)  j == l - r.kept  k == n + j  b == SubSeq(s, j + 1, l)
<1>1. s \in Seq(Entries) /\ l \in Nat /\ m = n + l /\ \A i \in 1 .. l : s[i].id = n + i
  BY DEF Offers
<1>2. ResultOK(d, s, FALSE, r)
  BY <1>1, ResultsOK DEF StreamTypes
<1>3. r.kept \in Nat /\ r.kept <= l
  BY <1>2 DEF ResultOK
<1>4. /\ j \in Nat /\ j <= l /\ k \in Nat /\ m - r.kept = k /\ l - j = r.kept /\ m = k + (l - j)
      /\ \A i \in 1 .. l - j : j + i \in 1 .. l /\ n + (j + i) = k + i
  <2> DEFINE h == r.kept
  <2>1. h \in Nat /\ h <= l /\ m = n + l /\ l \in Nat /\ j = l - h /\ k = n + j
          /\ j \in Int /\ k \in Int
    BY <1>1, <1>3
  <2> HIDE DEF l, h, j, k
  <2> QED
    <3>1. /\ j \in Nat /\ j <= l /\ k \in Nat /\ m - h = k /\ l - j = h /\ m = k + (l - j)
          /\ \A i \in 1 .. l - j : j + i \in 1 .. l /\ n + (j + i) = k + i
      BY <2>1, TakenNumbers
    <3> QED
      BY <3>1, Zenon DEF h
<1>5. buf'[o] = b
  <2>1. Len(s) - r.kept + 1 = j + 1
    OBVIOUS
  <2> QED
    BY <2>1 DEF HandsOver
<1>6. Len(b) = l - j /\ \A i \in 1 .. l - j : b[i] = s[j + i]
  <2> HIDE DEF j
  <2> QED
    BY <1>1, <1>4, CutInTwo
<1> HIDE DEF b
<1>7. given'[d] = k + Len(buf'[o]) /\ \A i \in 1 .. Len(buf'[o]) : buf'[o][i].id = k + i
  <2> HIDE DEF l
  <2> HIDE DEF j, k
  <2> QED
    BY <1>1, <1>4, <1>5, <1>6 DEF HandsOver
<1>8. Whole(k)' = Whole(k) /\ AsGiven(d, k)' = AsGiven(d, k)
  <2>1. kind' = kind /\ text' = text
    BY DEF HandsOver
  <2> QED
    BY <2>1, GivenSame, WholeSame
<1>9. ~lost'[d] => Whole(k)' /\ \A i \in 1 .. k : i \in Ids(out[d])'
  <2> SUFFICES ASSUME ~lost'[d] PROVE Whole(k)' /\ \A i \in 1 .. k : i \in Ids(out'[d])
    BY DEF Ids
  <2>1. Whole(n) /\ \A i \in 1 .. n : i \in Ids(out[d])
    BY DEF Offers, HandsOver
  <2>2. Whole(n + (Len(s) - r.kept)) /\ \A i \in 1 .. n + (Len(s) - r.kept) : i \in Ids(out[d] \o r.made)
    BY <1>1, <2>1, TakenAll DEF StreamTypes
  <2> QED
    BY <1>8, <2>2 DEF HandsOver
<1>10. ~lost'[d] /\ ~again'[d] => buf'[o] = IdRange(k + 1, given'[d]) /\ Handed(d, k)'
  <2> SUFFICES ASSUME ~lost'[d], ~again'[d]
               PROVE  buf'[o] = IdRange(k + 1, given'[d]) /\ Handed(d, k)'
    OBVIOUS
  <2>1. s = IdRange(n + 1, m) /\ Handed(d, n) /\ n <= m
    BY <1>1 DEF Offers, HandsOver
  <2>2. /\ m - r.kept \in Nat /\ n <= m - r.kept
        /\ Whole(m - r.kept)
        /\ out[d] \o r.made = AsGiven(d, m - r.kept)
        /\ kind = "cipher" => calls[d] + r.calls = (m - r.kept) \div BlockSize
        /\ SubSeq(s, Len(s) - r.kept + 1, Len(s)) = IdRange((m - r.kept) + 1, m)
    <3>1. calls[d] \in Nat /\ kind \in {"text", "cipher"} /\ Len(s) = m - n
      BY <1>1 DEF StreamTypes
    <3>2. r \in Results(d, IdRange(n + 1, m), FALSE)
      BY <2>1
    <3>3. /\ m - r.kept \in Nat /\ n <= m - r.kept
          /\ Whole(m - r.kept)
          /\ out[d] \o r.made = AsGiven(d, m - r.kept)
          /\ kind = "cipher" => calls[d] + r.calls = (m - r.kept) \div BlockSize
          /\ SubSeq(IdRange(n + 1, m), (m - n) - r.kept + 1, m - n) = IdRange((m - r.kept) + 1, m)
      <4>1. HandsOn(d, n, m, r)
        BY <2>1, <3>1, <3>2, AllHandedOver
      <4> QED
        BY <4>1 DEF HandsOn
    <3> QED
      BY <2>1, <3>1, <3>3, Zenon
  <2> HIDE DEF k
  <2>3. Handed(d, k)'
    BY <1>4, <1>8, <2>2 DEF Handed, HandsOver
  <2> QED
    BY <1>4, <2>2, <2>3 DEF HandsOver
<1>11. IdRange(k + 1, given[d])' = IdRange(k + 1, given'[d])
  BY DEF IdRange, Named
<1> HIDE DEF k
<1>12. HeldAt(o, d, k)'
  BY <1>7, <1>9, <1>10, <1>11 DEF HeldAt
<1> QED
  BY <1>4, <1>12 DEF HeldOK, HandsOver

\* The block stays as it is, after an exception or a flush.
LEMMA KeptHeld ==
    ASSUME NEW o \in Obj, NEW d \in Obj, NEW n \in Nat, NEW s, NEW m \in Nat, Offers(d, n, s, m),
           StreamTypes(d), NEW final \in BOOLEAN, NEW r \in Results(d, s, final),
           HandsOver(o, d, r, r.block, m), again'[d]
    PROVE  HeldOK(o)'
<1>1. s \in Seq(Entries) /\ m = n + Len(s) /\ \A i \in 1 .. Len(s) : s[i].id = n + i
  BY DEF Offers
<1>2. ResultOK(d, s, final, r)
  BY <1>1, ResultsOK DEF StreamTypes
<1>3. SameIds(s, r.block) /\ r.made \in Seq(Entries)
  BY <1>2 DEF ResultOK
<1>4. given'[d] = n + Len(buf'[o]) /\ \A i \in 1 .. Len(buf'[o]) : buf'[o][i].id = n + i
  BY <1>1, <1>3 DEF SameIds, HandsOver
<1>5. Whole(n)' = Whole(n)
  <2>1. kind' = kind
    BY DEF HandsOver
  <2> QED
    BY <2>1, WholeSame
<1>6. ~lost'[d] => Whole(n)' /\ \A i \in 1 .. n : i \in Ids(out[d])'
  <2> SUFFICES ASSUME ~lost'[d] PROVE Whole(n) /\ \A i \in 1 .. n : i \in Ids(out'[d])
    BY <1>5 DEF Ids
  <2>1. Whole(n) /\ \A i \in 1 .. n : i \in Ids(out[d])
    BY DEF Offers, HandsOver
  <2>2. \A i \in 1 .. n : i \in Ids(out[d] \o r.made)
    BY <1>3, <2>1, MoreBelow DEF StreamTypes
  <2> QED
    BY <2>1, <2>2 DEF HandsOver
<1>7. HeldAt(o, d, n)'
  BY <1>4, <1>6 DEF HeldAt
<1> QED
  BY <1>7 DEF HeldOK, HandsOver

\* A turn of the loop of otransform_write, which hands the full block over, keeps the invariant.
LEMMA TurnPreserves ==
    ASSUME TransformInv, NEW o \in Obj, Turn(o)
    PROVE  TransformInv'
<1> DEFINE d == under[o]  b == buf[o]  room == BufferSize - Len(b)
           l == IF rest[o] < room THEN rest[o] ELSE room
           s == Copied(o, l)
<1>0. life[o] = "live" /\ Calm /\ rest[o] > 0
  BY DEF Turn, TransformInv, Room
<1>1. TransformTypes /\ d \in Obj
  BY <1>0, LiveIs DEF TransformInv
<1>2. /\ Len(b) \in Nat /\ Len(b) <= BufferSize /\ rest[o] \in Nat /\ given[d] \in Nat
      /\ given[d] + rest[o] <= Len(text[d]) /\ Len(text[d]) \in Nat /\ trouble \in Nat
      /\ lost[d] \in BOOLEAN /\ again[d] \in BOOLEAN
  BY <1>0, LiveIs
<1>3. l \in Nat /\ l <= rest[o] /\ Len(b) + l <= BufferSize
  <2> HIDE DEF b
  <2> QED
    BY <1>2, BlocksAre DEF BlockIs
<1> HIDE DEF l
<1>4. PICK n \in Nat : HeldAt(o, d, n)
  BY <1>0, LiveIs
<1>5. /\ s \in Seq(Entries) /\ Len(s) = Len(b) + l /\ given[d] + l = n + Len(s)
      /\ \A i \in 1 .. Len(s) : s[i].id = n + i
      /\ b = IdRange(n + 1, given[d]) => s = IdRange(n + 1, given[d] + l)
  BY <1>1, <1>3, <1>4, CopiedIs
<1>6. Offers(d, n, s, given[d] + l) /\ StreamTypes(d)
  <2>1. StreamTypes(d)
    BY <1>1 DEF StreamTypes, TransformTypes
  <2> HIDE DEF s
  <2> QED
    BY <1>4, <1>5, <2>1 DEF Offers, HeldAt
<1>7. /\ kind' = kind /\ text' = text /\ under' = under /\ life' = life /\ lost' = lost
      /\ given' = [given EXCEPT ![d] = @ + l]
  BY DEF Turn, l
<1>8. given' \in [Obj -> Nat] /\ given'[d] = given[d] + l /\ \A x \in Obj : x # d => given'[x] = given[x]
  BY <1>1, <1>3, <1>7 DEF TransformTypes
<1>9. CASE /\ Len(s) < BufferSize
           /\ buf' = [buf EXCEPT ![o] = s]
           /\ rest' = [rest EXCEPT ![o] = 0]
           /\ UNCHANGED <<out, calls, again, trouble>>
  <2>1. TransformTypes'
    <3>1. buf' \in [Obj -> Seq(Entries)] /\ rest' \in [Obj -> Nat]
      BY <1>1, <1>5, <1>9 DEF TransformTypes
    <3> QED
      BY <1>1, <1>7, <1>8, <1>9, <3>1 DEF TransformTypes
  <2>2. /\ \A e \in Obj : e # o => buf'[e] = buf[e] /\ rest'[e] = rest[e]
        /\ buf'[o] = s /\ rest'[o] = 0
    BY <1>1, <1>9 DEF TransformTypes
  <2>3. \A x \in Obj : x # d => StreamSame(x)
    BY <1>7, <1>8, <1>9 DEF StreamSame
  <2>4. HeldOK(o)'
    BY <1>0, <1>1, <1>3, <1>7, <1>8, <1>9, <2>2, HeldCopied
  <2>5. Len(buf'[o]) <= BufferSize /\ given'[d] + rest'[o] <= Len(text[d])
    <3>1. Len(buf'[o]) <= BufferSize
      BY <1>3, <1>5, <2>2
    <3>2. given'[d] = given[d] + l /\ rest'[o] = 0
      BY <1>8, <2>2
    <3> DEFINE t == Len(text[d])  g == given[d]  w == rest[o]
    <3>3. g \in Nat /\ w \in Nat /\ t \in Nat /\ g + w <= t /\ l \in Nat /\ l <= w
      BY <1>2, <1>3
    <3> HIDE DEF t, g, w
    <3>4. (g + l) + 0 <= t
      BY <3>3
    <3> QED
      BY <3>1, <3>2, <3>4 DEF t, g
  <2>6. lost'[d] => trouble' > 0 \/ (kind = "cipher" /\ BufferSize % BlockSize # 0)
    BY <1>0, <1>7, <1>9, LiveIs
  <2>7. trouble > 0 => trouble' > 0
    BY <1>9
  <2> HIDE DEF d
  <2> QED
    BY <1>0, <1>1, <1>7, <2>1, <2>2, <2>3, <2>4, <2>5, <2>6, <2>7, OneStream DEF d
<1>10. CASE Len(s) = BufferSize /\ \E r \in Results(d, s, FALSE) :
                  /\ Goes(d, r)
                  /\ buf' = [buf EXCEPT ![o] = Rest(s, r)]
                  /\ rest' = [rest EXCEPT ![o] = IF r.fate = "throws" THEN 0 ELSE @ - l]
                  /\ again' = [again EXCEPT ![d] = @ \/ r.fate = "throws"]
                  /\ trouble' = Troubled(r)
  <2>1. PICK r \in Results(d, s, FALSE) :
                  /\ Goes(d, r)
                  /\ buf' = [buf EXCEPT ![o] = Rest(s, r)]
                  /\ rest' = [rest EXCEPT ![o] = IF r.fate = "throws" THEN 0 ELSE @ - l]
                  /\ again' = [again EXCEPT ![d] = @ \/ r.fate = "throws"]
                  /\ trouble' = Troubled(r)
    BY <1>10
  <2>2. ResultOK(d, s, FALSE, r)
    BY <1>5, <1>6, ResultsOK DEF StreamTypes
  <2>3. r.fate \in {"ok", "throws"} /\ r.made \in Seq(Entries) /\ r.calls \in Nat
    BY <2>2 DEF ResultOK
  <2>4. Rest(s, r) \in Seq(Entries) /\ Len(Rest(s, r)) <= BufferSize
    <3>1. r.block \in Seq(Entries) /\ Len(r.block) = Len(s) /\ r.kept \in Nat /\ r.kept <= Len(s)
      BY <2>2 DEF ResultOK, SameIds
    <3>2. /\ SubSeq(s, Len(s) - r.kept + 1, Len(s)) \in Seq(Entries)
          /\ Len(SubSeq(s, Len(s) - r.kept + 1, Len(s))) = r.kept
      <4> DEFINE j == Len(s) - r.kept
      <4>1. j \in Nat /\ j <= Len(s) /\ Len(s) - j = r.kept
        BY <1>5, <3>1
      <4> HIDE DEF j, s
      <4>2. SubSeq(s, j + 1, Len(s)) \in Seq(Entries) /\ Len(SubSeq(s, j + 1, Len(s))) = Len(s) - j
        BY <1>5, <4>1, CutInTwo
      <4> QED
        BY <4>1, <4>2 DEF j
    <3> QED
      <4> DEFINE x == SubSeq(s, Len(s) - r.kept + 1, Len(s))
      <4>1. Len(x) <= BufferSize /\ Len(r.block) <= BufferSize
        <5>1. Len(x) = r.kept /\ Len(r.block) = BufferSize /\ r.kept <= BufferSize
          BY <1>10, <3>1, <3>2
        <5>2. BufferSize \in Nat
          BY BlocksAre DEF BlockIs
        <5> HIDE DEF x
        <5> QED
          BY <5>1, <5>2
      <4>2. Rest(s, r) = r.block \/ Rest(s, r) = x
        BY DEF Rest
      <4>3. x \in Seq(Entries)
        BY <3>2
      <4> HIDE DEF x
      <4> QED
        BY <3>1, <4>1, <4>2, <4>3
  <2>5. out'[d] = out[d] \o r.made /\ calls'[d] = calls[d] + r.calls
        /\ again'[d] = (again[d] \/ r.fate = "throws") /\ buf'[o] = Rest(s, r)
        /\ rest'[o] = (IF r.fate = "throws" THEN 0 ELSE rest[o] - l)
    BY <1>1, <2>1 DEF Goes, TransformTypes
  <2>6. TransformTypes'
    <3>1. out[d] \o r.made \in Seq(Entries) /\ calls[d] + r.calls \in Nat
      BY <1>6, <2>3, ConcatProperties DEF StreamTypes
    <3>2. out' \in [Obj -> Seq(Entries)] /\ calls' \in [Obj -> Nat]
      BY <1>1, <2>1, <3>1 DEF TransformTypes, Goes
    <3>3. buf' \in [Obj -> Seq(Entries)]
      BY <1>1, <2>1, <2>4 DEF TransformTypes
    <3>4. rest' \in [Obj -> Nat]
      <4>1. rest[o] - l \in Nat
        BY <1>2, <1>3
      <4> QED
        BY <1>1, <2>1, <4>1 DEF TransformTypes
    <3>5. again' \in [Obj -> BOOLEAN] /\ trouble' \in Nat
      BY <1>1, <2>1 DEF TransformTypes, Troubled
    <3> QED
      BY <1>1, <1>7, <1>8, <3>2, <3>3, <3>4, <3>5 DEF TransformTypes
  <2>7. \A e \in Obj : e # o => buf'[e] = buf[e] /\ rest'[e] = rest[e]
    BY <1>1, <2>1 DEF TransformTypes
  <2>8. \A x \in Obj : x # d => StreamSame(x)
    BY <1>1, <1>7, <1>8, <2>1 DEF StreamSame, Goes, TransformTypes
  <2>9. HeldOK(o)'
    <3>1. lost'[d] = lost[d] /\ under'[o] = d /\ given[d] + l \in Nat
      BY <1>2, <1>3, <1>7
    <3>2. CASE r.fate = "ok"
      <4>1. buf'[o] = SubSeq(s, Len(s) - r.kept + 1, Len(s)) /\ again'[d] = again[d]
        BY <1>2, <2>5, <3>2 DEF Rest
      <4> HIDE DEF d, s
      <4>2. HandsOver(o, d, r, SubSeq(s, Len(s) - r.kept + 1, Len(s)), given[d] + l)
        BY <1>7, <1>8, <2>5, <3>1, <4>1 DEF HandsOver
      <4> QED
        BY <1>1, <1>6, <3>1, <3>2, <4>1, <4>2, TakenHeld
    <3>3. CASE r.fate = "throws"
      <4>1. buf'[o] = r.block /\ again'[d]
        BY <2>5, <3>3 DEF Rest
      <4> HIDE DEF d, s
      <4>2. HandsOver(o, d, r, r.block, given[d] + l)
        BY <1>7, <1>8, <2>5, <3>1, <4>1 DEF HandsOver
      <4> QED
        BY <1>1, <1>6, <3>1, <4>1, <4>2, KeptHeld
    <3> QED
      BY <2>3, <3>2, <3>3
  <2>10. Len(buf'[o]) <= BufferSize /\ given'[d] + rest'[o] <= Len(text[d])
    BY <1>2, <1>3, <1>8, <2>4, <2>5
  <2>11. trouble > 0 => trouble' > 0
    BY <1>2, <2>1 DEF Troubled
  <2>12. lost'[d] => trouble' > 0 \/ (kind = "cipher" /\ BufferSize % BlockSize # 0)
    BY <1>0, <1>7, <2>11, LiveIs
  <2> HIDE DEF d
  <2> QED
    BY <1>0, <1>1, <1>7, <2>6, <2>7, <2>8, <2>9, <2>10, <2>11, <2>12, OneStream DEF d
<1> QED
  BY <1>9, <1>10 DEF Turn, l

\* What the call r with the block s does to the stream d.
Worked(d, s, final, r) ==
    /\ ResultOK(d, s, final, r) /\ StreamTypes(d) /\ d \in Obj
    /\ out' \in [Obj -> Seq(Entries)] /\ calls' \in [Obj -> Nat]
    /\ out'[d] = out[d] \o r.made /\ calls'[d] = calls[d] + r.calls
    /\ \A x \in Obj : x # d => out'[x] = out[x] /\ calls'[x] = calls[x]
    /\ Troubled(r) \in Nat /\ (trouble > 0 => Troubled(r) > 0)
    /\ (r.fate = "throws" => Troubled(r) > 0)

\* What a function leaves of the block of a live object.
LEMMA ResultTypes ==
    ASSUME TransformInv, NEW o \in Obj, life[o] = "live",
           NEW final \in BOOLEAN, NEW r \in Results(under[o], buf[o], final), Goes(under[o], r)
    PROVE  Worked(under[o], buf[o], final, r)
<1> DEFINE d == under[o]
<1>1. TransformTypes /\ d \in Obj
  BY LiveIs DEF TransformInv
<1>2. StreamTypes(d) /\ buf[o] \in Seq(Entries)
  BY <1>1 DEF StreamTypes, TransformTypes
<1>3. ResultOK(d, buf[o], final, r)
  BY <1>2, ResultsOK DEF StreamTypes
<1>4. out[d] \o r.made \in Seq(Entries) /\ calls[d] + r.calls \in Nat
  BY <1>2, <1>3, ConcatProperties DEF ResultOK, StreamTypes
<1>5. out \in [Obj -> Seq(Entries)] /\ calls \in [Obj -> Nat] /\ trouble \in Nat
  BY <1>1 DEF TransformTypes
<1>6. Troubled(r) \in Nat /\ (trouble > 0 => Troubled(r) > 0) /\ (r.fate = "throws" => Troubled(r) > 0)
  BY <1>5 DEF Troubled
<1>7. /\ out' = [out EXCEPT ![d] = out[d] \o r.made]
      /\ calls' = [calls EXCEPT ![d] = calls[d] + r.calls]
  BY DEF Goes
<1> DEFINE a == out[d] \o r.made  c == calls[d] + r.calls
<1> HIDE DEF a, c
<1>8. out' \in [Obj -> Seq(Entries)] /\ calls' \in [Obj -> Nat]
  BY <1>1, <1>4, <1>5, <1>7 DEF a, c
<1>9. out'[d] = a /\ calls'[d] = c /\ \A x \in Obj : x # d => out'[x] = out[x] /\ calls'[x] = calls[x]
  BY <1>1, <1>5, <1>7 DEF a, c
<1> QED
  BY <1>1, <1>2, <1>3, <1>6, <1>8, <1>9 DEF Worked, a, c

\* A block is offered as it is.
LEMMA BlockOffered ==
    ASSUME TransformInv, NEW o \in Obj, life[o] = "live", NEW d, d = under[o]
    PROVE  \E n \in Nat : HeldAt(o, d, n) /\ Offers(d, n, buf[o], given[d])
<1>1. PICK n \in Nat : HeldAt(o, d, n)
  BY LiveIs
<1>2. buf[o] \in Seq(Entries)
  BY LiveIs
<1>3. Offers(d, n, buf[o], given[d])
  BY <1>1, <1>2 DEF HeldAt, Offers
<1> QED
  BY <1>1, <1>3

\* overflow: the block starts afresh with the next character.
Overflows(o, d, r, m) ==
    /\ kind' = kind /\ text' = text /\ under'[o] = d
    /\ buf'[o] = IdRange(m + 1, m + 1) /\ given'[d] = m + 1
    /\ out'[d] = out[d] \o r.made /\ calls'[d] = calls[d] + r.calls
    /\ ~lost'[d] => ~lost[d] /\ ~(r.kept > 0)
    /\ ~again'[d] => ~again[d]

\* After a full block was handed over the object holds what the function left.
LEMMA OverflowHeld ==
    ASSUME NEW o \in Obj, NEW d \in Obj, NEW n \in Nat, NEW s, NEW m \in Nat, Offers(d, n, s, m),
           StreamTypes(d), NEW r \in Results(d, s, FALSE), r.fate = "ok",
           Overflows(o, d, r, m)
    PROVE  HeldOK(o)'
<1>1. s \in Seq(Entries) /\ Len(s) \in Nat /\ m = n + Len(s) /\ \A i \in 1 .. Len(s) : s[i].id = n + i
  BY DEF Offers
<1>2. ResultOK(d, s, FALSE, r)
  BY <1>1, ResultsOK DEF StreamTypes
<1>3. r.kept \in Nat /\ r.kept <= Len(s)
  BY <1>2 DEF ResultOK
<1>4. /\ Len(IdRange(m + 1, m + 1)) = 1 /\ IdRange(m + 1, m + 1)[1] = Named(m + 1)
  <2>1. m + 1 \in Nat /\ m <= m + 1 /\ (m + 1) - m = 1
    OBVIOUS
  <2>2. Len(IdRange(m + 1, m + 1)) = (m + 1) - m
        /\ \A k \in 1 .. (m + 1) - m : IdRange(m + 1, m + 1)[k] = Named(m + k)
    BY <2>1, IdRangeIs
  <2> QED
    BY <2>1, <2>2
<1>5. given'[d] = m + Len(buf'[o]) /\ \A i \in 1 .. Len(buf'[o]) : buf'[o][i].id = m + i
  <2> DEFINE b == IdRange(m + 1, m + 1)
  <2>1. buf'[o] = b /\ given'[d] = m + 1
    BY DEF Overflows
  <2>2. Len(b) = 1 /\ b[1].id = m + 1
    BY <1>4 DEF Named
  <2> HIDE DEF b
  <2> QED
    BY <2>1, <2>2
<1>6. Whole(m)' = Whole(m) /\ AsGiven(d, m)' = AsGiven(d, m)
  <2>1. kind' = kind /\ text' = text
    BY DEF Overflows
  <2> QED
    BY <2>1, GivenSame, WholeSame
<1>7. ~lost'[d] => Whole(m)' /\ \A i \in 1 .. m : i \in Ids(out[d])'
  <2> SUFFICES ASSUME ~lost'[d] PROVE Whole(m) /\ \A i \in 1 .. m : i \in Ids(out'[d])
    BY <1>6 DEF Ids
  <2>1. ~lost[d] /\ r.kept = 0
    BY <1>3 DEF Overflows
  <2>2. Whole(n) /\ \A i \in 1 .. n : i \in Ids(out[d])
    BY <2>1 DEF Offers
  <2>3. Whole(n + (Len(s) - r.kept)) /\ \A i \in 1 .. n + (Len(s) - r.kept) : i \in Ids(out[d] \o r.made)
    BY <1>1, <2>2, TakenAll DEF StreamTypes
  <2>4. n + (Len(s) - r.kept) = m
    BY <1>1, <2>1
  <2> QED
    BY <2>3, <2>4 DEF Overflows
<1>8. ~lost'[d] /\ ~again'[d] => buf'[o] = IdRange(m + 1, given'[d]) /\ Handed(d, m)'
  <2> SUFFICES ASSUME ~lost'[d], ~again'[d] PROVE Handed(d, m)'
    BY DEF Overflows
  <2>1. ~lost[d] /\ r.kept = 0 /\ ~again[d]
    BY <1>3 DEF Overflows
  <2>2. s = IdRange(n + 1, m) /\ Handed(d, n) /\ n <= m
    BY <1>1, <2>1 DEF Offers
  <2>3. r \in Results(d, IdRange(n + 1, m), FALSE)
    BY <2>2
  <2>4. /\ Whole(m - r.kept)
        /\ out[d] \o r.made = AsGiven(d, m - r.kept)
        /\ kind = "cipher" => calls[d] + r.calls = (m - r.kept) \div BlockSize
    <3>1. calls[d] \in Nat /\ kind \in {"text", "cipher"}
      BY DEF StreamTypes
    <3>2. HandsOn(d, n, m, r)
      BY <2>2, <2>3, <3>1, AllHandedOver
    <3> QED
      BY <3>2 DEF HandsOn
  <2>5. m - r.kept = m
    BY <2>1
  <2> QED
    BY <1>6, <2>4, <2>5 DEF Handed, Overflows
<1>9. IdRange(m + 1, given[d])' = IdRange(m + 1, given'[d])
  BY DEF IdRange, Named
<1>10. HeldAt(o, d, m)'
  BY <1>5, <1>7, <1>8, <1>9 DEF HeldAt
<1> QED
  BY <1>10 DEF HeldOK, Overflows

\* overflow, which puts one character after a block, keeps the invariant.
LEMMA PutPreserves ==
    ASSUME TransformInv, NEW o \in Obj, Put(o)
    PROVE  TransformInv'
<1> DEFINE d == under[o]  s == buf[o]  g == given[d]
<1>0. life[o] = "live" /\ Calm /\ AtRest
  BY DEF Put, Live, AtRest, Calm
<1>1. TransformTypes /\ d \in Obj
  BY <1>0, LiveIs DEF TransformInv
<1>2. /\ Len(s) \in Nat /\ Len(s) <= BufferSize /\ rest[o] = 0 /\ g \in Nat
      /\ g + 1 <= Len(text[d]) /\ Len(text[d]) \in Nat /\ trouble \in Nat
      /\ lost[d] \in BOOLEAN /\ again[d] \in BOOLEAN
  BY <1>0, LiveIs DEF AtRest, Put, Has
<1>3. /\ kind' = kind /\ text' = text /\ under' = under /\ life' = life /\ rest' = rest
  BY DEF Put
<1>4. CASE /\ Len(s) < BufferSize
           /\ buf' = [buf EXCEPT ![o] = Copied(o, 1)]
           /\ given' = [given EXCEPT ![d] = @ + 1]
           /\ UNCHANGED <<out, calls, again, lost, trouble>>
  <2>1. Copied(o, 1) \in Seq(Entries) /\ Len(Copied(o, 1)) = Len(s) + 1
    <3>1. PICK n \in Nat : HeldAt(o, d, n)
      BY <1>0, LiveIs
    <3>2. 1 \in Nat
      OBVIOUS
    <3> QED
      BY <1>1, <3>1, <3>2, CopiedIs
  <2>2. TransformTypes'
    <3>1. buf' \in [Obj -> Seq(Entries)]
      BY <1>1, <1>4, <2>1 DEF TransformTypes
    <3>2. given' \in [Obj -> Nat]
      BY <1>1, <1>4 DEF TransformTypes
    <3> QED
      BY <1>1, <1>3, <1>4, <3>1, <3>2 DEF TransformTypes
  <2>3. /\ buf'[o] = Copied(o, 1) /\ given'[d] = g + 1
        /\ \A e \in Obj : e # o => buf'[e] = buf[e] /\ rest'[e] = rest[e]
    BY <1>1, <1>3, <1>4 DEF TransformTypes
  <2>4. \A x \in Obj : x # d => StreamSame(x)
    BY <1>1, <1>4 DEF TransformTypes, StreamSame
  <2>5. HeldOK(o)'
    <3>1. 1 \in Nat /\ out'[d] = out[d] /\ calls'[d] = calls[d] /\ again'[d] = again[d] /\ lost'[d] = lost[d]
      BY <1>4
    <3> QED
      BY <1>0, <1>1, <1>3, <2>3, <3>1, HeldCopied
  <2>6. Len(buf'[o]) <= BufferSize /\ given'[d] + rest'[o] <= Len(text[d])
    <3>1. Len(buf'[o]) <= BufferSize
      BY <1>2, <1>4, <2>1, <2>3, BlocksAre DEF BlockIs
    <3>2. given'[d] + rest'[o] = g + 1
      BY <1>2, <1>3, <2>3
    <3> QED
      BY <1>2, <3>1, <3>2
  <2>7. lost'[d] => trouble' > 0 \/ (kind = "cipher" /\ BufferSize % BlockSize # 0)
    BY <1>0, <1>4, LiveIs
  <2>8. trouble > 0 => trouble' > 0
    BY <1>4
  <2> HIDE DEF d
  <2> QED
    BY <1>0, <1>1, <1>3, <2>2, <2>3, <2>4, <2>5, <2>6, <2>7, <2>8, OneStream DEF d
<1>5. CASE Len(s) = BufferSize /\ \E r \in Results(d, s, FALSE) :
                  /\ Goes(d, r)
                  /\ trouble' = Troubled(r)
                  /\ IF r.fate = "throws"
                     THEN /\ buf' = [buf EXCEPT ![o] = r.block]
                          /\ again' = [again EXCEPT ![d] = TRUE]
                          /\ UNCHANGED <<given, lost>>
                     ELSE /\ buf' = [buf EXCEPT ![o] =
                                        IdRange(given[d] + 1, given[d] + 1)]
                          /\ given' = [given EXCEPT ![d] = @ + 1]
                          /\ lost' = [lost EXCEPT ![d] = @ \/ r.kept > 0]
                          /\ UNCHANGED again
  <2>1. PICK r \in Results(d, s, FALSE) :
                  /\ Goes(d, r)
                  /\ trouble' = Troubled(r)
                  /\ IF r.fate = "throws"
                     THEN /\ buf' = [buf EXCEPT ![o] = r.block]
                          /\ again' = [again EXCEPT ![d] = TRUE]
                          /\ UNCHANGED <<given, lost>>
                     ELSE /\ buf' = [buf EXCEPT ![o] =
                                        IdRange(given[d] + 1, given[d] + 1)]
                          /\ given' = [given EXCEPT ![d] = @ + 1]
                          /\ lost' = [lost EXCEPT ![d] = @ \/ r.kept > 0]
                          /\ UNCHANGED again
    BY <1>5
  <2>2. /\ ResultOK(d, s, FALSE, r) /\ StreamTypes(d)
        /\ out' \in [Obj -> Seq(Entries)] /\ calls' \in [Obj -> Nat]
        /\ out'[d] = out[d] \o r.made /\ calls'[d] = calls[d] + r.calls
        /\ \A x \in Obj : x # d => out'[x] = out[x] /\ calls'[x] = calls[x]
        /\ trouble' \in Nat /\ (trouble > 0 => trouble' > 0)
    <3>1. Goes(under[o], r) /\ trouble' = Troubled(r) /\ r \in Results(under[o], buf[o], FALSE)
      BY <2>1
    <3>2. Worked(under[o], buf[o], FALSE, r)
      BY <1>0, <3>1, ResultTypes
    <3> QED
      BY <3>1, <3>2 DEF Worked
  <2>3. r.fate \in {"ok", "throws"} /\ r.kept \in Nat /\ SameIds(s, r.block)
    BY <2>2 DEF ResultOK
  <2>4. PICK n \in Nat : Offers(d, n, s, g)
    BY <1>0, BlockOffered
  <2>5. CASE r.fate = "throws"
    <3>1. /\ buf' = [buf EXCEPT ![o] = r.block] /\ again' = [again EXCEPT ![d] = TRUE]
          /\ given' = given /\ lost' = lost
      BY <2>1, <2>5
    <3>2. r.block \in Seq(Entries) /\ Len(r.block) = Len(s)
      BY <2>3 DEF SameIds
    <3>3. TransformTypes'
      <4>1. buf' \in [Obj -> Seq(Entries)] /\ again' \in [Obj -> BOOLEAN]
        BY <1>1, <3>1, <3>2 DEF TransformTypes
      <4> QED
        BY <1>1, <1>3, <2>2, <3>1, <4>1 DEF TransformTypes
    <3>4. /\ buf'[o] = r.block /\ again'[d] /\ \A x \in Obj : x # d => again'[x] = again[x]
          /\ \A e \in Obj : e # o => buf'[e] = buf[e] /\ rest'[e] = rest[e]
      BY <1>1, <1>3, <3>1 DEF TransformTypes
    <3>5. \A x \in Obj : x # d => StreamSame(x)
      BY <2>2, <3>1, <3>4 DEF StreamSame
    <3>6. HeldOK(o)'
      <4>1. HandsOver(o, d, r, r.block, g)
        BY <1>3, <2>2, <3>1, <3>4 DEF HandsOver
      <4> HIDE DEF d, s, g
      <4> QED
        BY <1>1, <1>2, <2>2, <2>4, <3>4, <4>1, KeptHeld
    <3>7. Len(buf'[o]) <= BufferSize /\ given'[d] + rest'[o] <= Len(text[d])
      <4>1. given'[d] + rest'[o] = g
        BY <1>2, <1>3, <3>1
      <4>2. Len(buf'[o]) = Len(s)
        BY <3>2, <3>4
      <4> QED
        BY <1>2, <4>1, <4>2
    <3>8. lost'[d] => trouble' > 0 \/ (kind = "cipher" /\ BufferSize % BlockSize # 0)
      BY <1>0, <2>2, <3>1, LiveIs
    <3> HIDE DEF d
    <3> QED
      BY <1>0, <1>1, <1>3, <2>2, <3>3, <3>4, <3>5, <3>6, <3>7, <3>8, OneStream DEF d
  <2>6. CASE r.fate = "ok"
    <3>1. /\ buf' = [buf EXCEPT ![o] = IdRange(g + 1, g + 1)] /\ again' = again
          /\ given' = [given EXCEPT ![d] = @ + 1] /\ lost' = [lost EXCEPT ![d] = @ \/ r.kept > 0]
      BY <2>1, <2>6
    <3>2. IdRange(g + 1, g + 1) \in Seq(Entries) /\ Len(IdRange(g + 1, g + 1)) = 1
      <4>1. g + 1 \in Nat /\ g <= g + 1 /\ (g + 1) - g = 1
        BY <1>2
      <4>2. IdRange(g + 1, g + 1) \in Seq(Entries) /\ Len(IdRange(g + 1, g + 1)) = (g + 1) - g
        BY <1>2, <4>1, IdRangeIs
      <4> QED
        BY <4>1, <4>2
    <3>3. TransformTypes'
      <4>1. buf' \in [Obj -> Seq(Entries)]
        BY <1>1, <3>1, <3>2 DEF TransformTypes
      <4>2. given' \in [Obj -> Nat] /\ lost' \in [Obj -> BOOLEAN]
        BY <1>1, <3>1 DEF TransformTypes
      <4> QED
        BY <1>1, <1>3, <2>2, <3>1, <4>1, <4>2 DEF TransformTypes
    <3>4. /\ buf'[o] = IdRange(g + 1, g + 1) /\ given'[d] = g + 1
          /\ lost'[d] = (lost[d] \/ r.kept > 0)
          /\ \A x \in Obj : x # d => given'[x] = given[x] /\ lost'[x] = lost[x]
          /\ \A e \in Obj : e # o => buf'[e] = buf[e] /\ rest'[e] = rest[e]
      BY <1>1, <1>3, <3>1 DEF TransformTypes
    <3>5. \A x \in Obj : x # d => StreamSame(x)
      BY <2>2, <3>1, <3>4 DEF StreamSame
    <3>6. HeldOK(o)'
      <4>1. Overflows(o, d, r, g)
        BY <1>2, <1>3, <2>2, <3>1, <3>4 DEF Overflows
      <4> HIDE DEF d, s, g
      <4> QED
        BY <1>1, <1>2, <2>2, <2>4, <2>6, <4>1, OverflowHeld
    <3>7. Len(buf'[o]) <= BufferSize /\ given'[d] + rest'[o] <= Len(text[d])
      <4>1. given'[d] + rest'[o] = g + 1
        BY <1>2, <1>3, <3>4
      <4>2. Len(buf'[o]) = 1
        BY <3>2, <3>4
      <4> QED
        BY <1>2, <4>1, <4>2, BlocksAre DEF BlockIs
    <3>8. lost'[d] => trouble' > 0 \/ (kind = "cipher" /\ BufferSize % BlockSize # 0)
      <4>1. CASE lost[d]
        BY <1>0, <2>2, <4>1, LiveIs
      <4>2. CASE r.kept > 0
        <5>1. kind = "cipher" /\ r.kept = Len(s) % BlockSize
          BY <2>2, <2>3, <2>6, <4>2 DEF ResultOK, StreamTypes
        <5>2. BufferSize % BlockSize # 0
          BY <1>5, <2>3, <4>2, <5>1
        <5> QED
          BY <5>1, <5>2
      <4> QED
        BY <1>2, <3>4, <4>1, <4>2
    <3> HIDE DEF d
    <3> QED
      BY <1>0, <1>1, <1>3, <2>2, <3>3, <3>4, <3>5, <3>6, <3>7, <3>8, OneStream DEF d
  <2> QED
    BY <2>3, <2>5, <2>6
<1> QED
  BY <1>4, <1>5 DEF Put

(***************************************************************************)
(* Finishing a stream                                                      *)
(***************************************************************************)

\* What the call r that ends the stream d does to it.
Ends(d, r) ==
    /\ kind' = kind /\ text' = text
    /\ out'[d] = out[d] \o r.made /\ given'[d] = given[d] /\ again'[d] = again[d]
    /\ ~lost'[d] => ~lost[d] /\ r.fate # "throws"

\* What was offered to a call that ends well is below, all of it.
LEMMA FinishedLeft ==
    ASSUME NEW d \in Obj, NEW n \in Nat, NEW s, NEW m \in Nat, Offers(d, n, s, m), given[d] = m,
           StreamTypes(d), NEW r \in Results(d, s, TRUE), r.fate # "wild", Ends(d, r)
    PROVE  LeftOK(d)'
<1>1. s \in Seq(Entries) /\ Len(s) \in Nat /\ m = n + Len(s) /\ \A i \in 1 .. Len(s) : s[i].id = n + i
  BY DEF Offers
<1>2. ResultOK(d, s, TRUE, r)
  BY <1>1, ResultsOK DEF StreamTypes
<1>3. given'[d] = m
  BY DEF Ends
<1>4. LeftAt(d, m)'
  <2> SUFFICES ASSUME ~lost'[d] PROVE LeftAt(d, m)'
    BY DEF LeftAt
  <2>1. ~lost[d] /\ r.fate = "ok" /\ r.kept = 0
    BY <1>2 DEF ResultOK, Ends
  <2>2. Whole(n) /\ \A i \in 1 .. n : i \in Ids(out[d])
    BY <2>1 DEF Offers
  <2>3. \A i \in 1 .. m : i \in Ids(out[d] \o r.made)
    <3>1. \A i \in 1 .. n + (Len(s) - r.kept) : i \in Ids(out[d] \o r.made)
      BY <1>1, <2>1, <2>2, TakenAll DEF StreamTypes
    <3>2. n + (Len(s) - r.kept) = m
      BY <1>1, <2>1
    <3> QED
      BY <3>1, <3>2
  <2> DEFINE w == out[d] \o r.made
  <2>4. ASSUME ~again[d]
        PROVE  IF kind = "cipher" /\ m > 0
               THEN IsPrefix(AsGiven(d, m), w) /\ Len(w) % BlockSize = 0 /\ Len(w) - m \in 1 .. BlockSize
               ELSE w = AsGiven(d, m)
    <3>1. s = IdRange(n + 1, m) /\ Handed(d, n) /\ n <= m
      BY <1>1, <2>1, <2>4 DEF Offers
    <3>2. r \in Results(d, IdRange(n + 1, m), TRUE) /\ kind \in {"text", "cipher"} /\ calls[d] \in Nat
      BY <3>1 DEF StreamTypes
    <3>3. /\ kind = "text" => w = AsGiven(d, m)
          /\ kind = "cipher" =>
                IsPrefix(AsGiven(d, m), w) /\ Len(w) % BlockSize = 0 /\ Len(w) - m \in 1 .. BlockSize
      BY <2>1, <3>1, <3>2, Finished
    <3>4. kind = "cipher" => m # 0
      <4> SUFFICES ASSUME kind = "cipher", m = 0 PROVE FALSE
        OBVIOUS
      <4>1. Len(s) = 0 /\ Len(s) % BlockSize # 0
        BY <1>1, <1>2, <2>1 DEF ResultOK
      <4>2. 0 % BlockSize = 0
        BY BlocksAre, QuotientOfNone DEF BlockIs
      <4> QED
        BY <4>1, <4>2
    <3> HIDE DEF w
    <3> QED
      BY <3>2, <3>3, <3>4
  <2>5. AsGiven(d, m)' = AsGiven(d, m) /\ kind' = kind /\ out'[d] = w /\ again'[d] = again[d]
    <3>1. kind' = kind /\ text' = text
      BY DEF Ends
    <3> QED
      BY <3>1, GivenSame DEF Ends
  <2>6. \A i \in 1 .. m : i \in Ids(out[d])'
    BY <2>3, <2>5 DEF Ids
  <2> HIDE DEF w
  <2> QED
    BY <2>4, <2>5, <2>6 DEF LeftAt
<1> QED
  BY <1>3, <1>4 DEF LeftOK

\* The padding does not end when what is offered ends at a block boundary.
LEMMA WildAligned ==
    ASSUME NEW d, NEW n \in Nat, NEW s, NEW m \in Nat, Offers(d, n, s, m), StreamTypes(d),
           NEW r \in Results(d, s, TRUE), r.fate = "wild"
    PROVE  kind = "cipher" /\ (m % BlockSize = 0 \/ lost[d])
<1>1. s \in Seq(Entries) /\ Len(s) \in Nat /\ m = n + Len(s)
  BY DEF Offers
<1>2. ResultOK(d, s, TRUE, r)
  BY <1>1, ResultsOK DEF StreamTypes
<1>3. kind = "cipher" /\ Len(s) % BlockSize = 0
  BY <1>2 DEF ResultOK
<1>4. ASSUME ~lost[d] PROVE m % BlockSize = 0
  <2>1. n % BlockSize = 0
    BY <1>3, <1>4 DEF Offers, Whole
  <2>2. (n + Len(s)) % BlockSize = Len(s) % BlockSize
    BY <1>1, <2>1, BlocksAre, QuotientOfSum DEF BlockIs
  <2> QED
    BY <1>1, <1>3, <2>2
<1> QED
  BY <1>3, <1>4

(***************************************************************************)
(* Steps between writes                                                    *)
(***************************************************************************)

Rearranges ==
    /\ kind' = kind /\ text' = text /\ rest' = rest /\ given' = given
    /\ trouble' \in Nat /\ (trouble > 0 => trouble' > 0)
    /\ \A x \in Obj : lost'[x] => lost[x] \/ trouble' > 0

\* What a step between writes has to keep.
LEMMA Rearranged ==
    ASSUME TransformInv, AtRest, Rearranges, TransformTypes', Holders',
           \A e \in Obj : Len(buf'[e]) <= BufferSize,
           \A e \in Obj : life'[e] = "live" => HeldOK(e)',
           Calm' => \A x \in Obj : (\A e \in Obj : life'[e] = "live" => under'[e] # x) => LeftOK(x)',
           WildOnlyAligned'
    PROVE  TransformInv'
<1>1. TransformTypes /\ Room /\ LostForReason
  BY DEF TransformInv, StreamsOK
<1>2. Room'
  BY <1>1 DEF Room, Rearranges, AtRest
<1>3. LostForReason'
  BY <1>1 DEF LostForReason, Rearranges
<1>4. StreamsOK'
  BY <1>3 DEF StreamsOK
<1> QED
  BY <1>2, <1>4 DEF TransformInv

\* A flush or a close that runs wild.
LEMMA GoesWild ==
    ASSUME TransformInv, AtRest, Rearranges, TransformTypes', NEW o \in Obj, life[o] = "live",
           life' = [life EXCEPT ![o] = "wild"], under' = under,
           \A e \in Obj : Len(buf'[e]) <= BufferSize,
           \A e \in Obj : e # o => buf'[e] = buf[e],
           \A x \in Obj : x # under[o] => StreamSame(x),
           kind = "cipher", given[under[o]] % BlockSize = 0 \/ lost'[under[o]]
    PROVE  TransformInv'
<1>1. TransformTypes /\ Holders /\ StreamsOK
  BY DEF TransformInv
<1>2. /\ life'[o] = "wild" /\ \A e \in Obj : e # o => life'[e] = life[e]
      /\ kind' = kind /\ text' = text /\ given' = given
  BY <1>1 DEF TransformTypes, Rearranges
<1>3. \A e \in Obj : e # o /\ life[e] = "live" => under[e] # under[o] /\ under[e] \in Obj
  BY <1>1 DEF Holders, TransformTypes
<1>4. Holders'
  <2>1. ASSUME NEW e \in Obj, life'[e] = "unborn"
        PROVE  /\ under'[e] = e /\ buf'[e] = <<>> /\ out'[e] = <<>> /\ calls'[e] = 0 /\ given'[e] = 0
               /\ ~again'[e] /\ ~lost'[e]
    <3>1. e # o /\ life[e] = "unborn"
      BY <1>2, <2>1
    <3>2. e # under[o]
      BY <1>1, <3>1 DEF Holders
    <3>3. StreamSame(e)
      BY <3>2
    <3> QED
      BY <1>1, <3>1, <3>3 DEF Holders, StreamSame
  <2>2. \A e, r \in Obj : e # r /\ life'[e] = "live" /\ life'[r] = "live" => under'[e] # under'[r]
    BY <1>1, <1>2 DEF Holders
  <2>3. \A e \in Obj : life'[e] # "unborn" => life'[under'[e]] # "unborn"
    BY <1>1, <1>2 DEF Holders, TransformTypes
  <2> QED
    BY <2>1, <2>2, <2>3 DEF Holders
<1>5. \A e \in Obj : life'[e] = "live" => HeldOK(e)'
  <2> SUFFICES ASSUME NEW e \in Obj, life'[e] = "live" PROVE HeldOK(e)'
    OBVIOUS
  <2>1. e # o /\ life[e] = "live"
    BY <1>2
  <2>2. HeldOK(e) /\ StreamSame(under[e]) /\ buf'[e] = buf[e]
    BY <1>1, <1>3, <2>1 DEF StreamsOK
  <2> QED
    BY <1>2, <2>2, HeldSame
<1>6. ~Calm'
  BY <1>2 DEF Calm
<1>7. WildOnlyAligned'
  <2> SUFFICES ASSUME NEW e \in Obj, life'[e] = "wild"
               PROVE  kind' = "cipher" /\ (given'[under'[e]] % BlockSize = 0 \/ lost'[under'[e]])
    BY DEF WildOnlyAligned
  <2>1. e = o
    BY <1>2 DEF AtRest
  <2> QED
    BY <1>2, <2>1
<1> QED
  BY <1>4, <1>5, <1>6, <1>7, Rearranged

\* flush hands the block over and keeps it.
LEMMA FlushPreserves ==
    ASSUME TransformInv, NEW o \in Obj, Flush(o)
    PROVE  TransformInv'
<1> DEFINE d == under[o]  s == buf[o]  g == given[d]
<1>0. life[o] = "live" /\ Calm /\ AtRest
  BY DEF Flush, Live, AtRest, Calm
<1>1. TransformTypes /\ d \in Obj
  BY <1>0, LiveIs DEF TransformInv
<1>2. /\ Len(s) \in Nat /\ Len(s) <= BufferSize /\ rest[o] = 0 /\ g \in Nat
      /\ g <= Len(text[d]) /\ Len(text[d]) \in Nat /\ trouble \in Nat
      /\ lost[d] \in BOOLEAN /\ again[d] \in BOOLEAN /\ s \in Seq(Entries)
  BY <1>0, LiveIs DEF AtRest
<1>3. /\ kind' = kind /\ text' = text /\ under' = under /\ rest' = rest /\ given' = given
      /\ lost' = lost /\ trouble' = trouble + 1
      /\ again' = [again EXCEPT ![d] = @ \/ kind = "cipher" \/ s # <<>>]
  BY DEF Flush
<1>4. PICK r \in Results(d, s, TRUE) :
            /\ Goes(d, r)
            /\ buf' = [buf EXCEPT ![o] = r.block]
            /\ life' = [life EXCEPT ![o] = IF r.fate = "wild" THEN "wild" ELSE @]
  BY DEF Flush
<1>5. Worked(under[o], buf[o], TRUE, r)
  <2>1. Goes(under[o], r) /\ r \in Results(under[o], buf[o], TRUE)
    BY <1>4
  <2> QED
    BY <1>0, <2>1, ResultTypes
<1>6. ResultOK(d, s, TRUE, r) /\ StreamTypes(d)
  BY <1>5 DEF Worked
<1>7. r.block \in Seq(Entries) /\ Len(r.block) = Len(s)
  BY <1>6 DEF ResultOK, SameIds
<1>8. /\ buf' \in [Obj -> Seq(Entries)] /\ buf'[o] = r.block
      /\ \A e \in Obj : e # o => buf'[e] = buf[e]
  BY <1>1, <1>4, <1>7 DEF TransformTypes
<1>9. /\ again' \in [Obj -> BOOLEAN] /\ \A x \in Obj : x # d => again'[x] = again[x]
      /\ ~again'[d] => kind = "text" /\ s = <<>> /\ ~again[d]
  <2>1. kind \in {"text", "cipher"}
    BY <1>1 DEF TransformTypes
  <2> QED
    BY <1>1, <1>3, <2>1 DEF TransformTypes
<1>10. TransformTypes'
  <2>1. life' \in [Obj -> Lives]
    BY <1>1, <1>4 DEF TransformTypes, Lives
  <2>2. trouble + 1 \in Nat
    BY <1>2
  <2> QED
    BY <1>1, <1>3, <1>5, <1>8, <1>9, <2>1, <2>2 DEF TransformTypes, Worked
<1>11. \A x \in Obj : x # d => StreamSame(x)
  BY <1>3, <1>5, <1>9 DEF StreamSame, Worked
<1>12. PICK n \in Nat : Offers(d, n, s, g)
  BY <1>0, BlockOffered
<1>13. \A e \in Obj : Len(buf'[e]) <= BufferSize
  <2> TAKE e \in Obj
  <2>1. CASE e = o
    BY <1>2, <1>7, <1>8, <2>1
  <2>2. CASE e # o
    BY <1>8, <2>2 DEF TransformInv, Room
  <2> QED
    BY <2>1, <2>2
<1>14. trouble + 1 > 0 /\ trouble + 1 \in Nat
  BY <1>2
<1>15. CASE r.fate = "wild"
  <2>1. life' = [life EXCEPT ![o] = "wild"]
    BY <1>4, <1>15
  <2>2. Rearranges
    BY <1>3, <1>14 DEF Rearranges
  <2>3. kind = "cipher" /\ (given[under[o]] % BlockSize = 0 \/ lost'[under[o]])
    <3>1. kind = "cipher" /\ (g % BlockSize = 0 \/ lost[d])
      BY <1>2, <1>6, <1>12, <1>15, WildAligned
    <3> QED
      BY <1>3, <3>1
  <2> QED
    BY <1>0, <1>3, <1>8, <1>10, <1>11, <1>13, <2>1, <2>2, <2>3, GoesWild
<1>16. CASE r.fate # "wild"
  <2>1. life' = life
    BY <1>1, <1>4, <1>16 DEF TransformTypes
  <2>2. HeldOK(o)'
    <3>1. CASE again'[d]
      <4>1. HandsOver(o, d, r, r.block, g)
        BY <1>3, <1>5, <1>8 DEF HandsOver, Worked
      <4> HIDE DEF d, s, g
      <4> QED
        BY <1>1, <1>2, <1>6, <1>12, <3>1, <4>1, KeptHeld
    <3>2. CASE ~again'[d]
      <4>1. kind = "text" /\ s = <<>> /\ ~again[d]
        BY <1>9, <3>2
      <4>2. r.made = <<>> /\ r.calls = 0 /\ r.block = s
        BY <1>6, <4>1 DEF ResultOK
      <4>3. out'[d] = out[d] /\ calls'[d] = calls[d]
        <5>1. out'[d] = out[d] \o r.made /\ calls'[d] = calls[d] + r.calls
          BY <1>5 DEF Worked
        <5> QED
          BY <1>6, <4>2, <5>1 DEF StreamTypes
      <4>4. StreamSame(d)
        <5>1. again'[d] = again[d]
          BY <1>1, <1>3, <4>1 DEF TransformTypes
        <5> QED
          BY <1>3, <4>3, <5>1 DEF StreamSame
      <4>5. HeldOK(o)
        BY <1>0 DEF TransformInv, StreamsOK
      <4> QED
        BY <1>3, <1>8, <4>2, <4>4, <4>5, HeldSame
    <3> QED
      BY <3>1, <3>2
  <2>3. Len(buf'[o]) <= BufferSize /\ given'[d] + rest'[o] <= Len(text[d])
    <3>1. given'[d] + rest'[o] = g
      BY <1>2, <1>3
    <3> QED
      BY <1>2, <1>13, <3>1
  <2>4. lost'[d] => trouble' > 0 \/ (kind = "cipher" /\ BufferSize % BlockSize # 0)
    BY <1>3, <1>14
  <2>5. trouble > 0 => trouble' > 0
    BY <1>3, <1>14
  <2>6. \A e \in Obj : e # o => buf'[e] = buf[e] /\ rest'[e] = rest[e]
    BY <1>3, <1>8
  <2> HIDE DEF d
  <2> QED
    BY <1>0, <1>1, <1>3, <1>10, <1>11, <2>1, <2>2, <2>3, <2>4, <2>5, <2>6, OneStream DEF d
<1> QED
  BY <1>15, <1>16

\* A new object holds a stream to which nothing was given.
LEMMA BuildPreserves ==
    ASSUME TransformInv, NEW o \in Obj, Build(o)
    PROVE  TransformInv'
<1>1. TransformTypes /\ Holders /\ StreamsOK /\ Room
  BY DEF TransformInv
<1>2. /\ AtRest /\ Calm /\ life[o] = "unborn" /\ life' = [life EXCEPT ![o] = "live"]
      /\ kind' = kind /\ text' = text /\ buf' = buf /\ under' = under /\ rest' = rest /\ out' = out
      /\ calls' = calls /\ given' = given /\ again' = again /\ lost' = lost /\ trouble' = trouble
  BY DEF Build, AtRest, Calm, stream
<1>3. /\ under[o] = o /\ buf[o] = <<>> /\ out[o] = <<>> /\ calls[o] = 0 /\ given[o] = 0
      /\ ~again[o] /\ ~lost[o]
  BY <1>1, <1>2 DEF Holders
<1>4. life'[o] = "live" /\ \A e \in Obj : e # o => life'[e] = life[e]
  BY <1>1, <1>2 DEF TransformTypes
<1>5. \A x \in Obj : StreamSame(x)
  BY <1>2 DEF StreamSame
<1>6. TransformTypes'
  <2>1. life' \in [Obj -> Lives]
    BY <1>1, <1>2 DEF TransformTypes, Lives
  <2> QED
    BY <1>1, <1>2, <2>1 DEF TransformTypes
<1>7. HeldOK(o)
  <2>1. 0 % BlockSize = 0 /\ 0 \div BlockSize = 0
    BY BlocksAre, QuotientOfNone DEF BlockIs
  <2>2. Handed(o, 0) /\ Whole(0)
    BY <1>3, <2>1, NothingGiven DEF Handed, Whole
  <2>3. IdRange(0 + 1, 0) = <<>>
    BY EmptyRange
  <2>4. HeldAt(o, o, 0)
    BY <1>3, <2>2, <2>3 DEF HeldAt
  <2> QED
    BY <1>3, <2>4 DEF HeldOK
<1>8. \A e \in Obj : e # o /\ life[e] = "live" => under[e] # o
  BY <1>1, <1>2 DEF Holders
<1>9. Holders'
  <2>1. \A e, r \in Obj : e # r /\ life'[e] = "live" /\ life'[r] = "live" => under'[e] # under'[r]
    <3>1. \A e \in Obj : under'[e] = under[e]
      BY <1>2
    <3>2. \A e \in Obj : e # o /\ life'[e] = "live" => life[e] = "live" /\ under[e] # under[o]
      BY <1>3, <1>4, <1>8
    <3>3. \A e, r \in Obj : e # r /\ life[e] = "live" /\ life[r] = "live" => under[e] # under[r]
      BY <1>1 DEF Holders
    <3> QED
      BY <3>1, <3>2, <3>3
  <2>2. \A e \in Obj : life'[e] # "unborn" => life'[under'[e]] # "unborn"
    <3> SUFFICES ASSUME NEW e \in Obj, life'[e] # "unborn" PROVE life'[under[e]] # "unborn"
      BY <1>2
    <3>1. CASE e = o
      BY <1>3, <1>4, <3>1
    <3>2. CASE e # o
      <4>1. life[under[e]] # "unborn" /\ under[e] \in Obj
        BY <1>1, <1>4, <3>2 DEF Holders, TransformTypes
      <4> QED
        BY <1>4, <4>1
    <3> QED
      BY <3>1, <3>2
  <2>3. \A e \in Obj : life'[e] = "unborn" =>
           /\ under'[e] = e /\ buf'[e] = <<>> /\ out'[e] = <<>> /\ calls'[e] = 0 /\ given'[e] = 0
           /\ ~again'[e] /\ ~lost'[e]
    BY <1>1, <1>2, <1>4 DEF Holders
  <2> QED
    BY <2>1, <2>2, <2>3 DEF Holders
<1>10. \A e \in Obj : life'[e] = "live" => HeldOK(e)'
  <2> SUFFICES ASSUME NEW e \in Obj, life'[e] = "live" PROVE HeldOK(e)'
    OBVIOUS
  <2>1. HeldOK(e)
    BY <1>1, <1>4, <1>7 DEF StreamsOK
  <2>2. under[e] \in Obj
    BY <1>1 DEF TransformTypes
  <2> QED
    BY <1>2, <1>5, <2>1, <2>2, HeldSame
<1>11. \A x \in Obj : (\A e \in Obj : life'[e] = "live" => under'[e] # x) => LeftOK(x)'
  <2> SUFFICES ASSUME NEW x \in Obj, \A e \in Obj : life'[e] = "live" => under'[e] # x
               PROVE  LeftOK(x)'
    OBVIOUS
  <2>1. \A e \in Obj : life[e] = "live" => under[e] # x
    BY <1>2, <1>4
  <2>2. LeftOK(x)
    BY <1>1, <1>2, <2>1 DEF StreamsOK
  <2> QED
    BY <1>2, <1>5, <2>2, LeftSame
<1>12. WildOnlyAligned'
  BY <1>2, <1>4 DEF WildOnlyAligned, Calm
<1>13. Rearranges
  BY <1>1, <1>2 DEF Rearranges, TransformTypes
<1>14. \A e \in Obj : Len(buf'[e]) <= BufferSize
  BY <1>1, <1>2 DEF Room
<1> QED
  BY <1>2, <1>6, <1>9, <1>10, <1>11, <1>12, <1>13, <1>14, Rearranged

(***************************************************************************)
(* Closing and moving                                                      *)
(***************************************************************************)

\* What close leaves alone.
Quiet ==
    /\ kind' = kind /\ text' = text /\ rest' = rest /\ given' = given /\ again' = again

\* What close does.
Closed(o, next) ==
    /\ Rearranges
    /\ out' \in [Obj -> Seq(Entries)] /\ calls' \in [Obj -> Nat] /\ lost' \in [Obj -> BOOLEAN]
    /\ life[o] \in {"live", "moved"}
    /\ \A x \in Obj : (life[o] = "live" => x # under[o]) => StreamSame(x)
    /\ \/ life' = next /\ (life[o] = "live" => \A x \in Obj : x = under[o] => LeftOK(x)')
       \/ /\ life[o] = "live" /\ life' = [life EXCEPT ![o] = "wild"] /\ kind = "cipher"
          /\ given[under[o]] % BlockSize = 0 \/ lost'[under[o]]

\* What close does to an object, its stream and its block.
LEMMA CloseIs ==
    ASSUME TransformInv, AtRest, NEW o \in Obj, NEW next, Close(o, next), Quiet
    PROVE  Closed(o, next)
<1>1. TransformTypes
  BY DEF TransformInv
<1> DEFINE d == under[o]
<1>2. CASE /\ life[o] = "moved"
           /\ life' = next
           /\ UNCHANGED <<out, calls, lost, trouble>>
  <2>1. Rearranges
    BY <1>1, <1>2 DEF Rearranges, Quiet, TransformTypes
  <2>2. \A x \in Obj : StreamSame(x)
    BY <1>2 DEF StreamSame, Quiet
  <2> QED
    BY <1>1, <1>2, <2>1, <2>2 DEF Closed, TransformTypes
<1>3. CASE /\ life[o] = "live"
           /\ \E r \in Results(d, buf[o], TRUE) :
               /\ Goes(d, r)
               /\ lost' = [lost EXCEPT ![d] = @ \/ r.fate = "throws"]
               /\ life' = IF r.fate = "wild" THEN [life EXCEPT ![o] = "wild"] ELSE next
               /\ trouble' = Troubled(r)
  <2>1. PICK r \in Results(d, buf[o], TRUE) :
               /\ Goes(d, r)
               /\ lost' = [lost EXCEPT ![d] = @ \/ r.fate = "throws"]
               /\ life' = IF r.fate = "wild" THEN [life EXCEPT ![o] = "wild"] ELSE next
               /\ trouble' = Troubled(r)
    BY <1>3
  <2>2. Worked(under[o], buf[o], TRUE, r)
    <3>1. Goes(under[o], r) /\ r \in Results(under[o], buf[o], TRUE)
      BY <2>1
    <3> QED
      BY <1>3, <3>1, ResultTypes
  <2>3. ResultOK(d, buf[o], TRUE, r) /\ StreamTypes(d) /\ d \in Obj /\ given[d] \in Nat
    BY <1>3, <2>2, LiveIs DEF Worked
  <2>4. /\ lost' \in [Obj -> BOOLEAN] /\ \A x \in Obj : x # d => lost'[x] = lost[x]
        /\ lost'[d] => lost[d] \/ r.fate = "throws"
        /\ ~lost'[d] => ~lost[d] /\ r.fate # "throws"
    BY <1>1, <2>1, <2>3 DEF TransformTypes
  <2>5. trouble' \in Nat /\ (trouble > 0 => trouble' > 0) /\ (r.fate = "throws" => trouble' > 0)
    <3>1. trouble' = Troubled(r)
      BY <2>1
    <3> QED
      BY <2>2, <3>1 DEF Worked
  <2>6. Rearranges
    <3>1. \A x \in Obj : lost'[x] => lost[x] \/ trouble' > 0
      BY <2>4, <2>5
    <3> QED
      BY <2>5, <3>1 DEF Rearranges, Quiet
  <2>7. \A x \in Obj : (life[o] = "live" => x # under[o]) => StreamSame(x)
    BY <1>3, <2>2, <2>4 DEF StreamSame, Quiet, Worked
  <2>8. PICK n \in Nat : Offers(d, n, buf[o], given[d])
    BY <1>3, BlockOffered
  <2>9. CASE r.fate = "wild"
    <3>1. kind = "cipher" /\ (given[d] % BlockSize = 0 \/ lost[d])
      BY <2>3, <2>8, <2>9, WildAligned
    <3>2. life' = [life EXCEPT ![o] = "wild"]
      BY <2>1, <2>9
    <3> QED
      BY <1>3, <2>2, <2>4, <2>6, <2>7, <3>1, <3>2 DEF Closed, Worked
  <2>10. CASE r.fate # "wild"
    <3>1. life' = next
      BY <2>1, <2>10
    <3>2. Ends(d, r)
      BY <2>2, <2>4 DEF Ends, Quiet, Worked
    <3>3. ASSUME NEW x \in Obj, x = under[o] PROVE LeftOK(x)'
      <4> DEFINE g == given[d]  s == buf[o]
      <4>1. /\ g \in Nat /\ given[x] = g /\ Offers(x, n, s, g) /\ r \in Results(x, s, TRUE)
            /\ StreamTypes(x) /\ Ends(x, r)
        BY <2>3, <2>8, <3>2, <3>3
      <4> HIDE DEF g, s, d
      <4> QED
        BY <2>10, <4>1, FinishedLeft
    <3> QED
      BY <1>3, <2>2, <2>4, <2>6, <2>7, <3>1, <3>3 DEF Closed, Worked
  <2> QED
    BY <2>9, <2>10
<1> QED
  BY <1>2, <1>3 DEF Close

\* The destructor.
LEMMA DestroyPreserves ==
    ASSUME TransformInv, NEW o \in Obj, Destroy(o)
    PROVE  TransformInv'
<1> DEFINE next == [life EXCEPT ![o] = "dead"]
<1>1. TransformTypes /\ Holders /\ StreamsOK /\ Room
  BY DEF TransformInv
<1>2. /\ AtRest /\ Calm /\ Close(o, next) /\ Quiet /\ under' = under
      /\ buf' = [buf EXCEPT ![o] = <<>>]
  BY DEF Destroy, AtRest, Calm, Quiet
<1>3. Closed(o, next)
  <2> HIDE DEF next
  <2> QED
    BY <1>2, CloseIs
<1>4. /\ Rearranges /\ life[o] \in {"live", "moved"}
      /\ out' \in [Obj -> Seq(Entries)] /\ calls' \in [Obj -> Nat] /\ lost' \in [Obj -> BOOLEAN]
      /\ \A x \in Obj : (life[o] = "live" => x # under[o]) => StreamSame(x)
  BY <1>3 DEF Closed
<1>5. /\ kind' = kind /\ text' = text /\ rest' = rest /\ given' = given /\ again' = again /\ trouble' \in Nat
  BY <1>2, <1>4 DEF Quiet, Rearranges
<1>6. buf' \in [Obj -> Seq(Entries)] /\ buf'[o] = <<>> /\ \A e \in Obj : e # o => buf'[e] = buf[e]
  <2>1. <<>> \in Seq(Entries)
    OBVIOUS
  <2> QED
    BY <1>1, <1>2, <2>1 DEF TransformTypes
<1>7. \A e \in Obj : Len(buf'[e]) <= BufferSize
  <2>1. Len(<<>>) <= BufferSize
    BY BlocksAre DEF BlockIs
  <2> QED
    BY <1>1, <1>6, <2>1 DEF Room
<1>8. CASE life' = next /\ (life[o] = "live" => \A x \in Obj : x = under[o] => LeftOK(x)')
  <2>1. life' \in [Obj -> Lives] /\ life'[o] = "dead" /\ \A e \in Obj : e # o => life'[e] = life[e]
    BY <1>1, <1>8 DEF TransformTypes, Lives
  <2>2. TransformTypes'
    BY <1>1, <1>2, <1>4, <1>5, <1>6, <2>1 DEF TransformTypes
  <2>3. \A e \in Obj : life'[e] = "live" =>
           e # o /\ life[e] = "live" /\ under[e] \in Obj /\ StreamSame(under[e])
    <3> SUFFICES ASSUME NEW e \in Obj, life'[e] = "live"
                 PROVE  e # o /\ life[e] = "live" /\ under[e] \in Obj /\ StreamSame(under[e])
      OBVIOUS
    <3>1. e # o /\ life[e] = "live" /\ under[e] \in Obj
      BY <1>1, <2>1 DEF TransformTypes
    <3>2. life[o] = "live" => under[e] # under[o]
      BY <1>1, <3>1 DEF Holders
    <3>3. StreamSame(under[e])
      <4>1. \A x \in Obj : (life[o] = "live" => x # under[o]) => StreamSame(x)
        BY <1>4
      <4> QED
        BY <3>1, <3>2, <4>1
    <3> QED
      BY <3>1, <3>3
  <2>4. Holders'
    <3>1. \A e, r \in Obj : e # r /\ life'[e] = "live" /\ life'[r] = "live" => under'[e] # under'[r]
      BY <1>1, <1>2, <2>3 DEF Holders
    <3>2. \A e \in Obj : life'[e] # "unborn" => life'[under'[e]] # "unborn"
      <4> SUFFICES ASSUME NEW e \in Obj, life'[e] # "unborn" PROVE life'[under'[e]] # "unborn"
        OBVIOUS
      <4>1. under'[e] = under[e] /\ under[e] \in Obj
        BY <1>1, <1>2 DEF TransformTypes
      <4>2. life[e] # "unborn"
        BY <1>4, <2>1
      <4>3. life[under[e]] # "unborn"
        BY <1>1, <4>2 DEF Holders
      <4>4. life'[under[e]] = life[under[e]] \/ life'[under[e]] = "dead"
        BY <2>1, <4>1
      <4> QED
        BY <4>1, <4>3, <4>4
    <3>3. ASSUME NEW e \in Obj, life'[e] = "unborn"
          PROVE  /\ under'[e] = e /\ buf'[e] = <<>> /\ out'[e] = <<>> /\ calls'[e] = 0 /\ given'[e] = 0
                 /\ ~again'[e] /\ ~lost'[e]
      <4>1. e # o /\ life[e] = "unborn"
        BY <2>1, <3>3
      <4>2. life[under[o]] # "unborn"
        BY <1>1, <1>4 DEF Holders
      <4>3. StreamSame(e)
        BY <1>4, <4>1, <4>2
      <4> QED
        BY <1>1, <1>2, <1>6, <4>1, <4>3 DEF Holders, StreamSame
    <3> QED
      BY <3>1, <3>2, <3>3 DEF Holders
  <2>5. \A e \in Obj : life'[e] = "live" => HeldOK(e)'
    <3> SUFFICES ASSUME NEW e \in Obj, life'[e] = "live" PROVE HeldOK(e)'
      OBVIOUS
    <3>1. e # o /\ HeldOK(e) /\ StreamSame(under[e])
      BY <1>1, <2>3 DEF StreamsOK
    <3> QED
      BY <1>2, <1>5, <1>6, <3>1, HeldSame
  <2>6. \A x \in Obj : (\A e \in Obj : life'[e] = "live" => under'[e] # x) => LeftOK(x)'
    <3> SUFFICES ASSUME NEW x \in Obj, \A e \in Obj : life'[e] = "live" => under'[e] # x
                 PROVE  LeftOK(x)'
      OBVIOUS
    <3>1. CASE life[o] = "live" /\ x = under[o]
      BY <1>8, <3>1
    <3>2. CASE life[o] = "live" => x # under[o]
      <4>1. \A e \in Obj : life[e] = "live" => under[e] # x
        BY <1>2, <2>1, <3>2
      <4>2. LeftOK(x)
        BY <1>1, <1>2, <4>1 DEF StreamsOK
      <4> QED
        BY <1>4, <1>5, <3>2, <4>2, LeftSame
    <3> QED
      BY <3>1, <3>2
  <2>7. WildOnlyAligned'
    BY <1>2, <2>1 DEF WildOnlyAligned, Calm
  <2> QED
    BY <1>2, <1>4, <1>7, <2>2, <2>4, <2>5, <2>6, <2>7, Rearranged
<1>9. CASE /\ life[o] = "live" /\ life' = [life EXCEPT ![o] = "wild"] /\ kind = "cipher"
           /\ given[under[o]] % BlockSize = 0 \/ lost'[under[o]]
  <2>1. TransformTypes'
    <3>1. life' \in [Obj -> Lives]
      BY <1>1, <1>9 DEF TransformTypes, Lives
    <3> QED
      BY <1>1, <1>2, <1>4, <1>5, <1>6, <3>1 DEF TransformTypes
  <2>2. \A x \in Obj : x # under[o] => StreamSame(x)
    BY <1>4
  <2> QED
    BY <1>2, <1>4, <1>6, <1>7, <1>9, <2>1, <2>2, GoesWild
<1> QED
  BY <1>3, <1>8, <1>9 DEF Closed

\* A new object takes what another one holds.
LEMMA MoveConstructPreserves ==
    ASSUME TransformInv, NEW o \in Obj, NEW r \in Obj, MoveConstruct(o, r)
    PROVE  TransformInv'
<1>1. TransformTypes /\ Holders /\ StreamsOK /\ Room
  BY DEF TransformInv
<1>2. /\ AtRest /\ Calm /\ life[o] = "unborn" /\ life[r] \in {"live", "moved"} /\ o # r
      /\ life' = [life EXCEPT ![o] = life[r], ![r] = "moved"]
      /\ buf' = [buf EXCEPT ![o] = buf[r]] /\ under' = [under EXCEPT ![o] = under[r]]
      /\ kind' = kind /\ text' = text /\ rest' = rest /\ out' = out
      /\ calls' = calls /\ given' = given /\ again' = again /\ lost' = lost /\ trouble' = trouble
  BY DEF MoveConstruct, Takes, LeaveSource, AtRest, Calm, stream
<1>3. /\ buf' \in [Obj -> Seq(Entries)] /\ under' \in [Obj -> Obj] /\ life' \in [Obj -> Lives]
      /\ life'[o] = life[r] /\ life'[r] = "moved" /\ buf'[o] = buf[r] /\ under'[o] = under[r]
      /\ \A e \in Obj : e # o /\ e # r => life'[e] = life[e]
      /\ \A e \in Obj : e # o => buf'[e] = buf[e] /\ under'[e] = under[e]
  BY <1>1, <1>2 DEF TransformTypes, Lives
<1>4. \A x \in Obj : StreamSame(x)
  BY <1>2 DEF StreamSame
<1>5. TransformTypes'
  BY <1>1, <1>2, <1>3 DEF TransformTypes
<1>6. \A e \in Obj : life'[e] = "live" =>
         \/ e = o /\ life[r] = "live" /\ under'[e] = under[r]
         \/ e # o /\ e # r /\ life[e] = "live" /\ under'[e] = under[e]
  BY <1>2, <1>3
<1>7. Holders'
  <2>1. \A e, f \in Obj : e # f /\ life'[e] = "live" /\ life'[f] = "live" => under'[e] # under'[f]
    BY <1>1, <1>6 DEF Holders
  <2>2. \A e \in Obj : life'[e] # "unborn" => life'[under'[e]] # "unborn"
    <3>1. \A e \in Obj : life[e] # "unborn" => life'[e] # "unborn"
      BY <1>2, <1>3
    <3>2. \A e \in Obj : e # o /\ life'[e] # "unborn" => life[e] # "unborn" /\ under'[e] = under[e]
      BY <1>2, <1>3
    <3>3. life[r] # "unborn" /\ under'[o] = under[r]
      BY <1>2, <1>3
    <3>4. \A e \in Obj : under[e] \in Obj
      BY <1>1 DEF TransformTypes
    <3> QED
      BY <1>1, <3>1, <3>2, <3>3, <3>4 DEF Holders
  <2>3. \A e \in Obj : life'[e] = "unborn" =>
           /\ under'[e] = e /\ buf'[e] = <<>> /\ out'[e] = <<>> /\ calls'[e] = 0 /\ given'[e] = 0
           /\ ~again'[e] /\ ~lost'[e]
    <3>1. \A e \in Obj : life'[e] = "unborn" => e # o /\ e # r /\ life[e] = "unborn"
      BY <1>2, <1>3
    <3> QED
      BY <1>1, <1>2, <1>3, <3>1 DEF Holders
  <2> QED
    BY <2>1, <2>2, <2>3 DEF Holders
<1>8. \A e \in Obj : life'[e] = "live" => HeldOK(e)'
  <2> SUFFICES ASSUME NEW e \in Obj, life'[e] = "live" PROVE HeldOK(e)'
    OBVIOUS
  <2>1. CASE e = o
    <3>1. HeldOK(r) /\ StreamSame(under[r])
      BY <1>1, <1>4, <1>6, <2>1 DEF StreamsOK, TransformTypes
    <3>2. HeldOK(o)'
      BY <1>2, <1>3, <3>1, HeldMoves
    <3> QED
      BY <2>1, <3>2
  <2>2. CASE e # o
    <3>1. HeldOK(e) /\ StreamSame(under[e])
      BY <1>1, <1>4, <1>6, <2>2 DEF StreamsOK, TransformTypes
    <3> QED
      BY <1>2, <1>3, <2>2, <3>1, HeldSame
  <2> QED
    BY <2>1, <2>2
<1>9. \A x \in Obj : (\A e \in Obj : life'[e] = "live" => under'[e] # x) => LeftOK(x)'
  <2> SUFFICES ASSUME NEW x \in Obj, \A e \in Obj : life'[e] = "live" => under'[e] # x
               PROVE  LeftOK(x)'
    OBVIOUS
  <2>1. ASSUME NEW e \in Obj, life[e] = "live" PROVE under[e] # x
    <3>1. CASE e = r
      BY <1>3, <2>1, <3>1
    <3>2. CASE e # r
      BY <1>2, <1>3, <2>1, <3>2
    <3> QED
      BY <3>1, <3>2
  <2>2. LeftOK(x)
    BY <1>1, <1>2, <2>1 DEF StreamsOK
  <2> QED
    BY <1>2, <1>4, <2>2, LeftSame
<1>10. WildOnlyAligned'
  BY <1>2, <1>3 DEF WildOnlyAligned, Calm
<1>11. Rearranges
  BY <1>1, <1>2 DEF Rearranges, TransformTypes
<1>12. \A e \in Obj : Len(buf'[e]) <= BufferSize
  BY <1>1, <1>3 DEF Room
<1> QED
  BY <1>2, <1>5, <1>7, <1>8, <1>9, <1>10, <1>11, <1>12, Rearranged

\* An object closes its stream and takes what another one holds.
LEMMA MoveAssignPreserves ==
    ASSUME TransformInv, NEW o \in Obj, NEW r \in Obj, MoveAssign(o, r)
    PROVE  TransformInv'
<1> DEFINE next == [life EXCEPT ![o] = life[r], ![r] = "moved"]
<1>1. TransformTypes /\ Holders /\ StreamsOK /\ Room
  BY DEF TransformInv
<1>2. /\ AtRest /\ Calm /\ o # r /\ life[r] \in {"live", "moved"} /\ Close(o, next) /\ Quiet
      /\ IF life'[o] = "wild" THEN UNCHANGED <<buf, under>> ELSE Takes(o, r)
  BY DEF MoveAssign, AtRest, Calm, Quiet, LeaveSource
<1>3. Closed(o, next)
  <2> HIDE DEF next
  <2> QED
    BY <1>2, CloseIs
<1>4. /\ Rearranges /\ life[o] \in {"live", "moved"}
      /\ out' \in [Obj -> Seq(Entries)] /\ calls' \in [Obj -> Nat] /\ lost' \in [Obj -> BOOLEAN]
      /\ \A x \in Obj : (life[o] = "live" => x # under[o]) => StreamSame(x)
  BY <1>3 DEF Closed
<1>5. /\ kind' = kind /\ text' = text /\ rest' = rest /\ given' = given /\ again' = again /\ trouble' \in Nat
  BY <1>2, <1>4 DEF Quiet, Rearranges
<1>6. CASE life' = next /\ (life[o] = "live" => \A x \in Obj : x = under[o] => LeftOK(x)')
  <2>1. /\ life' \in [Obj -> Lives] /\ life'[o] = life[r] /\ life'[r] = "moved"
        /\ \A e \in Obj : e # o /\ e # r => life'[e] = life[e]
    BY <1>1, <1>2, <1>6 DEF TransformTypes, Lives
  <2>2. buf' = [buf EXCEPT ![o] = buf[r]] /\ under' = [under EXCEPT ![o] = under[r]]
    BY <1>2, <2>1 DEF Takes
  <2>3. /\ buf' \in [Obj -> Seq(Entries)] /\ under' \in [Obj -> Obj]
        /\ buf'[o] = buf[r] /\ under'[o] = under[r]
        /\ \A e \in Obj : e # o => buf'[e] = buf[e] /\ under'[e] = under[e]
    BY <1>1, <2>2 DEF TransformTypes
  <2>4. TransformTypes'
    BY <1>1, <1>4, <1>5, <2>1, <2>3 DEF TransformTypes
  <2>5. \A e \in Obj : life'[e] = "live" =>
           \/ e = o /\ life[r] = "live" /\ under'[e] = under[r]
           \/ e # o /\ e # r /\ life[e] = "live" /\ under'[e] = under[e]
    BY <1>2, <2>1, <2>3
  <2>6. ASSUME NEW e \in Obj, e # o, life[e] = "live" PROVE StreamSame(under[e])
    <3>1. life[o] = "live" => under[e] # under[o]
      BY <1>1, <2>6 DEF Holders
    <3>2. under[e] \in Obj
      BY <1>1 DEF TransformTypes
    <3> QED
      BY <1>4, <3>1, <3>2
  <2>7. Holders'
    <3>1. \A e, f \in Obj : e # f /\ life'[e] = "live" /\ life'[f] = "live" => under'[e] # under'[f]
      BY <1>1, <2>5 DEF Holders
    <3>2. \A e \in Obj : life'[e] # "unborn" => life'[under'[e]] # "unborn"
      <4>1. \A e \in Obj : life[e] # "unborn" => life'[e] # "unborn"
        BY <1>2, <2>1
      <4>2. \A e \in Obj : e # o /\ life'[e] # "unborn" => life[e] # "unborn" /\ under'[e] = under[e]
        BY <1>2, <2>1, <2>3
      <4>3. life[r] # "unborn" /\ under'[o] = under[r]
        BY <1>2, <2>3
      <4>4. \A e \in Obj : under[e] \in Obj
        BY <1>1 DEF TransformTypes
      <4> QED
        BY <1>1, <4>1, <4>2, <4>3, <4>4 DEF Holders
    <3>3. ASSUME NEW e \in Obj, life'[e] = "unborn"
          PROVE  /\ under'[e] = e /\ buf'[e] = <<>> /\ out'[e] = <<>> /\ calls'[e] = 0 /\ given'[e] = 0
                 /\ ~again'[e] /\ ~lost'[e]
      <4>1. e # o /\ e # r /\ life[e] = "unborn"
        BY <1>2, <2>1, <3>3
      <4>2. life[under[o]] # "unborn"
        BY <1>1, <1>4 DEF Holders
      <4>3. StreamSame(e)
        BY <1>4, <4>1, <4>2
      <4> QED
        BY <1>1, <2>3, <4>1, <4>3 DEF Holders, StreamSame
    <3> QED
      BY <3>1, <3>2, <3>3 DEF Holders
  <2>8. \A e \in Obj : life'[e] = "live" => HeldOK(e)'
    <3> SUFFICES ASSUME NEW e \in Obj, life'[e] = "live" PROVE HeldOK(e)'
      OBVIOUS
    <3>1. CASE e = o
      <4>1. HeldOK(r) /\ StreamSame(under[r])
        BY <1>1, <1>2, <2>5, <2>6, <3>1 DEF StreamsOK
      <4>2. HeldOK(o)'
        BY <1>5, <2>3, <4>1, HeldMoves
      <4> QED
        BY <3>1, <4>2
    <3>2. CASE e # o
      <4>1. HeldOK(e) /\ StreamSame(under[e])
        BY <1>1, <2>5, <2>6, <3>2 DEF StreamsOK
      <4> QED
        BY <1>5, <2>3, <3>2, <4>1, HeldSame
    <3> QED
      BY <3>1, <3>2
  <2>9. \A x \in Obj : (\A e \in Obj : life'[e] = "live" => under'[e] # x) => LeftOK(x)'
    <3> SUFFICES ASSUME NEW x \in Obj, \A e \in Obj : life'[e] = "live" => under'[e] # x
                 PROVE  LeftOK(x)'
      OBVIOUS
    <3>1. CASE life[o] = "live" /\ x = under[o]
      BY <1>6, <3>1
    <3>2. CASE life[o] = "live" => x # under[o]
      <4>1. ASSUME NEW e \in Obj, life[e] = "live" PROVE under[e] # x
        <5>1. CASE e = o
          BY <3>2, <4>1, <5>1
        <5>2. CASE e = r
          BY <2>1, <2>3, <4>1, <5>2
        <5>3. CASE e # o /\ e # r
          BY <2>1, <2>3, <4>1, <5>3
        <5> QED
          BY <5>1, <5>2, <5>3
      <4>2. LeftOK(x)
        BY <1>1, <1>2, <4>1 DEF StreamsOK
      <4> QED
        BY <1>4, <1>5, <3>2, <4>2, LeftSame
    <3> QED
      BY <3>1, <3>2
  <2>10. WildOnlyAligned'
    BY <1>2, <2>1 DEF WildOnlyAligned, Calm
  <2>11. \A e \in Obj : Len(buf'[e]) <= BufferSize
    BY <1>1, <2>3 DEF Room
  <2> QED
    BY <1>2, <1>4, <2>4, <2>7, <2>8, <2>9, <2>10, <2>11, Rearranged
<1>7. CASE /\ life[o] = "live" /\ life' = [life EXCEPT ![o] = "wild"] /\ kind = "cipher"
           /\ given[under[o]] % BlockSize = 0 \/ lost'[under[o]]
  <2>1. life' \in [Obj -> Lives] /\ life'[o] = "wild"
    BY <1>1, <1>7 DEF TransformTypes, Lives
  <2>2. buf' = buf /\ under' = under
    BY <1>2, <2>1
  <2>3. TransformTypes'
    BY <1>1, <1>4, <1>5, <2>1, <2>2 DEF TransformTypes
  <2>4. \A x \in Obj : x # under[o] => StreamSame(x)
    BY <1>4
  <2>5. \A e \in Obj : Len(buf'[e]) <= BufferSize /\ buf'[e] = buf[e]
    BY <1>1, <2>2 DEF Room
  <2> QED
    BY <1>2, <1>4, <1>7, <2>2, <2>3, <2>4, <2>5, GoesWild
<1> QED
  BY <1>3, <1>6, <1>7 DEF Closed

(***************************************************************************)
(* The invariant                                                           *)
(***************************************************************************)

\* At first nothing is built and nothing given.
LEMMA TransformStarts == TransformInit => TransformInv
<1> SUFFICES ASSUME TransformInit PROVE TransformInv
  OBVIOUS
<1>1. TransformTypes
  <2>1. <<>> \in Seq(Entries)
    OBVIOUS
  <2>2. text \in [Obj -> Seq(Character)]
    BY TextsAssumption DEF TransformInit
  <2> QED
    BY <2>1, <2>2, KindsAssumption DEF TransformInit, TransformTypes, Lives
<1>2. Calm
  BY DEF TransformInit, Calm
<1>3. Room
  <2>1. 0 <= BufferSize /\ Len(<<>>) = 0
    BY BlocksAre DEF BlockIs
  <2>2. \A d \in Obj : Len(text[d]) \in Nat /\ given[d] = 0
    BY <1>1 DEF TransformTypes, TransformInit
  <2> QED
    BY <1>2, <2>1, <2>2 DEF TransformInit, Room
<1>4. Holders
  BY DEF TransformInit, Holders
<1>5. \A d \in Obj : LeftOK(d)
  <2> TAKE d \in Obj
  <2>1. given[d] = 0 /\ out[d] = <<>>
    BY DEF TransformInit
  <2>2. LeftAt(d, 0)
    BY <2>1, NothingGiven DEF LeftAt
  <2> QED
    BY <2>1, <2>2 DEF LeftOK
<1>6. StreamsOK
  BY <1>5 DEF TransformInit, StreamsOK, LostForReason, WildOnlyAligned
<1> QED
  BY <1>1, <1>3, <1>4, <1>6 DEF TransformInv

\* Every operation keeps the invariant.
LEMMA TransformSteps == TransformInv /\ TransformNext => TransformInv'
<1> SUFFICES ASSUME TransformInv, TransformNext PROVE TransformInv'
  OBVIOUS
<1>1. PICK o \in Obj :
        \/ Build(o) \/ Turn(o) \/ Put(o) \/ Flush(o) \/ Destroy(o)
        \/ \E k \in 1 .. MaxWrite : Write(o, k)
        \/ \E r \in Obj : MoveConstruct(o, r) \/ MoveAssign(o, r)
  BY DEF TransformNext
<1>2. CASE Build(o)
  BY <1>2, BuildPreserves
<1>3. CASE Turn(o)
  BY <1>3, TurnPreserves
<1>4. CASE Put(o)
  BY <1>4, PutPreserves
<1>5. CASE Flush(o)
  BY <1>5, FlushPreserves
<1>6. CASE Destroy(o)
  BY <1>6, DestroyPreserves
<1>7. CASE \E k \in 1 .. MaxWrite : Write(o, k)
  BY <1>7, WritePreserves
<1>8. CASE \E r \in Obj : MoveConstruct(o, r)
  BY <1>8, MoveConstructPreserves
<1>9. CASE \E r \in Obj : MoveAssign(o, r)
  BY <1>9, MoveAssignPreserves
<1> QED
  BY <1>1, <1>2, <1>3, <1>4, <1>5, <1>6, <1>7, <1>8, <1>9

\* What leaves the streams alone keeps the invariant.
LEMMA TransformRests == TransformInv /\ UNCHANGED transformVars => TransformInv'
<1> SUFFICES ASSUME TransformInv, UNCHANGED transformVars PROVE TransformInv'
  OBVIOUS
<1>1. /\ kind' = kind /\ text' = text /\ life' = life /\ buf' = buf /\ under' = under /\ rest' = rest
      /\ out' = out /\ calls' = calls /\ given' = given /\ again' = again /\ lost' = lost
      /\ trouble' = trouble
  BY DEF transformVars, object, stream
<1>2. TransformTypes /\ Room /\ Holders /\ StreamsOK
  BY DEF TransformInv
<1>3. TransformTypes'
  BY <1>1, <1>2 DEF TransformTypes
<1>4. Room' /\ Calm' = Calm
  BY <1>1, <1>2 DEF Room, Calm
<1>5. Holders'
  BY <1>1, <1>2 DEF Holders
<1>6. \A x \in Obj : StreamSame(x)
  BY <1>1 DEF StreamSame
<1>7. \A e \in Obj : life'[e] = "live" => HeldOK(e)'
  <2> SUFFICES ASSUME NEW e \in Obj, life'[e] = "live" PROVE HeldOK(e)'
    OBVIOUS
  <2>1. HeldOK(e) /\ under[e] \in Obj
    BY <1>1, <1>2 DEF StreamsOK, TransformTypes
  <2> QED
    BY <1>1, <1>6, <2>1, HeldSame
<1>8. Calm' => \A x \in Obj : (\A e \in Obj : life'[e] = "live" => under'[e] # x) => LeftOK(x)'
  <2> SUFFICES ASSUME Calm', NEW x \in Obj, \A e \in Obj : life'[e] = "live" => under'[e] # x
               PROVE  LeftOK(x)'
    OBVIOUS
  <2>1. \A e \in Obj : life[e] = "live" => under[e] # x
    BY <1>1
  <2>2. LeftOK(x)
    BY <1>2, <1>4, <2>1 DEF StreamsOK
  <2> QED
    BY <1>1, <1>6, <2>2, LeftSame
<1>9. LostForReason' /\ WildOnlyAligned'
  BY <1>1, <1>2 DEF StreamsOK, LostForReason, WildOnlyAligned
<1> QED
  BY <1>3, <1>4, <1>5, <1>7, <1>8, <1>9 DEF TransformInv, StreamsOK

(***************************************************************************)
(* What the invariant says of the streams below                            *)
(***************************************************************************)

\* The object that holds a stream, when there is one.
LEMMA PendingIs ==
    ASSUME NEW d \in Obj
    PROVE  \/ Holder(d) = {} /\ Pending(d) = <<>> /\ \A o \in Obj : life[o] = "live" => under[o] # d
           \/ /\ Holder(d) # {}
              /\ \E o \in Obj : life[o] = "live" /\ under[o] = d /\ Pending(d) = buf[o]
<1>1. CASE Holder(d) = {}
  BY <1>1 DEF Holder, Pending
<1>2. CASE Holder(d) # {}
  <2> DEFINE o == CHOOSE o \in Holder(d) : TRUE
  <2>1. o \in Holder(d)
    BY <1>2
  <2>2. Pending(d) = buf[o]
    BY <1>2 DEF Pending
  <2> HIDE DEF o
  <2> QED
    BY <1>2, <2>1, <2>2 DEF Holder
<1> QED
  BY <1>1, <1>2

\* The invariant gives the type invariant.
LEMMA InvTypes == TransformInv => TransformOK
  BY DEF TransformInv, TransformTypes, Lives, Room, Holders, TransformOK

\* Under the invariant characters are handed over once and in turn.
LEMMA InvHandedOnce == TransformInv => HandedOnce
<1> SUFFICES ASSUME TransformInv, NEW d \in Obj, Calm, ~again[d], ~lost[d]
             PROVE  LET passed == AsGiven(d, given[d] - Len(Pending(d)))
                    IN  /\ Pending(d) = IdRange(given[d] - Len(Pending(d)) + 1, given[d])
                        /\ IF kind = "cipher" /\ Holder(d) = {} /\ given[d] > 0
                           THEN /\ IsPrefix(passed, out[d]) /\ Len(out[d]) % BlockSize = 0
                                /\ Len(out[d]) - given[d] \in 1 .. BlockSize
                           ELSE out[d] = passed
  BY DEF HandedOnce, Calm
<1> DEFINE g == given[d]  p == Pending(d)
<1>1. StreamsOK /\ g \in Nat
  BY DEF TransformInv, TransformTypes
<1>2. CASE Holder(d) = {} /\ p = <<>> /\ \A o \in Obj : life[o] = "live" => under[o] # d
  <2>1. LeftOK(d)
    BY <1>1, <1>2 DEF StreamsOK
  <2>2. LeftAt(d, g)
    BY <2>1 DEF LeftOK
  <2>3. g - Len(p) = g
    BY <1>1, <1>2
  <2>4. p = IdRange(g + 1, g)
    BY <1>1, <1>2, EmptyRange
  <2> QED
    BY <1>2, <2>2, <2>3, <2>4 DEF LeftAt
<1>3. CASE /\ Holder(d) # {}
           /\ \E o \in Obj : life[o] = "live" /\ under[o] = d /\ p = buf[o]
  <2>1. PICK o \in Obj : life[o] = "live" /\ under[o] = d /\ p = buf[o]
    BY <1>3
  <2>2. PICK n \in Nat : HeldAt(o, d, n)
    BY <1>1, <2>1 DEF StreamsOK, HeldOK
  <2>3. g = n + Len(p) /\ p = IdRange(n + 1, g) /\ out[d] = AsGiven(d, n)
    BY <2>1, <2>2 DEF HeldAt, Handed
  <2>4. Len(p) \in Nat
    BY <2>1, LiveIs
  <2>5. g - Len(p) = n
    BY <2>3, <2>4
  <2> HIDE DEF g, p
  <2> QED
    BY <1>3, <2>3, <2>5 DEF g, p
<1> QED
  BY <1>2, <1>3, PendingIs

\* Under the invariant every character is below, or in the block of the object that holds the stream.
LEMMA InvNothingLost == TransformInv => NothingLost
<1> SUFFICES ASSUME TransformInv, NEW d \in Obj
             PROVE  /\ Calm /\ ~lost[d] =>
                         \A i \in 1 .. given[d] : \E e \in ToSet(out[d] \o Pending(d)) : e.id = i
                    /\ lost[d] => trouble > 0 \/ (kind = "cipher" /\ BufferSize % BlockSize # 0)
  BY DEF NothingLost, Calm
<1>1. StreamsOK /\ given[d] \in Nat /\ out[d] \in Seq(Entries)
  BY DEF TransformInv, TransformTypes
<1>2. lost[d] => trouble > 0 \/ (kind = "cipher" /\ BufferSize % BlockSize # 0)
  BY <1>1 DEF StreamsOK, LostForReason
<1>3. ASSUME Calm, ~lost[d], NEW i \in 1 .. given[d]
      PROVE  \E e \in ToSet(out[d] \o Pending(d)) : e.id = i
  <2> DEFINE p == Pending(d)
  <2>1. p \in Seq(Entries) /\ i \in Ids(out[d]) \cup Ids(p)
    <3>1. CASE Holder(d) = {} /\ p = <<>> /\ \A o \in Obj : life[o] = "live" => under[o] # d
      <4>1. LeftOK(d)
        BY <1>1, <1>3, <3>1 DEF StreamsOK
      <4> QED
        BY <1>3, <3>1, <4>1 DEF LeftOK, LeftAt
    <3>2. CASE \E o \in Obj : life[o] = "live" /\ under[o] = d /\ p = buf[o]
      <4>1. PICK o \in Obj : life[o] = "live" /\ under[o] = d /\ p = buf[o]
        BY <3>2
      <4>2. PICK n \in Nat : HeldAt(o, d, n)
        BY <1>1, <4>1 DEF StreamsOK, HeldOK
      <4>3. p \in Seq(Entries) /\ Len(p) \in Nat
        BY <4>1, LiveIs
      <4>4. /\ given[d] = n + Len(p) /\ \A j \in 1 .. Len(p) : p[j].id = n + j
            /\ \A j \in 1 .. n : j \in Ids(out[d])
        BY <1>3, <4>1, <4>2 DEF HeldAt
      <4> HIDE DEF p
      <4>5. CASE i <= n
        BY <4>3, <4>4, <4>5
      <4>6. CASE ~(i <= n)
        <5>1. i - n \in 1 .. Len(p) /\ n + (i - n) = i
          BY <4>3, <4>4, <4>6
        <5>2. p[i - n].id = i
          BY <4>4, <5>1
        <5> QED
          BY <4>3, <5>1, <5>2 DEF Ids
      <4> QED
        BY <4>5, <4>6
    <3> QED
      BY <3>1, <3>2, PendingIs
  <2> HIDE DEF p
  <2>2. i \in Ids(out[d] \o p)
    BY <1>1, <2>1, IdsOfParts
  <2>3. out[d] \o p \in Seq(Entries)
    BY <1>1, <2>1, ConcatProperties
  <2> DEFINE w == out[d] \o p
  <2>4. PICK j \in 1 .. Len(w) : w[j].id = i
    BY <2>2 DEF Ids
  <2> HIDE DEF w
  <2>5. j \in DOMAIN w
    BY <2>3, <2>4 DEF w
  <2>6. w[j] \in ToSet(w)
    BY <2>5 DEF ToSet
  <2> QED
    BY <2>4, <2>6 DEF p, w
<1> QED
  BY <1>2, <1>3

\* Under the invariant nothing is dropped.
LEMMA InvNothingDropped == TransformInv => NothingDropped
  BY InvNothingLost DEF TransformInv, StreamsOK, NothingDropped

\* Under the invariant the checked EachOnce holds.
LEMMA InvEachOnce == TransformInv => EachOnce
  BY InvTypes, InvHandedOnce DEF EachOnce

(***************************************************************************)
(* The reader                                                              *)
(***************************************************************************)

\* Where the text below a stream goes on after its first n characters.
After(d, n) == Len(AsText(d, IdRange(1, n)))

NoPairs(d) ==
    \A i \in 1 .. Len(text[d]) - 1 : ~(text[d][i] = "cr" /\ text[d][i + 1] = "nl")

\* The block has the characters b + 1 to c of the text, and the reader got what it read
\* of them and all before.
ReaderAt(d, b, c) ==
    /\ b <= c /\ c <= given[d] /\ consumed = After(d, c)
    /\ block = IdRange(b + 1, c) /\ position \in 0 .. c - b
    /\ returned = IdRange(1, b + position)
    /\ ended => b = given[d]

ReaderOK ==
    /\ from = 0 => returned = <<>> /\ consumed = 0 /\ block = <<>> /\ position = 0 /\ ~ended
    /\ from # 0 =>
        /\ from \in Obj /\ kind = "text" /\ life[from] # "unborn"
        /\ \A o \in Obj : life[o] \in {"unborn", "moved", "dead"}
        /\ ~again[from] /\ ~lost[from] /\ NoPairs(from) =>
              \E d \in Obj, b, c \in Nat : d = from /\ ReaderAt(d, b, c)

PipeInv == TransformInv /\ ReaderOK

(***************************************************************************)
(* The reader: what the function makes of the stream below                 *)
(***************************************************************************)

\* One character, or a pair, of the block that f fills.
Filled(f, m, room, i) ==
    IF i > Len(m) \/ room = 0 THEN [chars |-> <<>>, next |-> i]
    ELSE IF CharOf(m[i]) # "cr" \/ i = Len(m) \/ (room = 1 /\ CharOf(m[i + 1]) # "nl")
    THEN LET more == f[IF CharOf(m[i]) = "cr" THEN 0 ELSE room - 1][i + 1]
         IN  [more EXCEPT !.chars = <<m[i]>> \o @]
    ELSE IF CharOf(m[i + 1]) = "nl"
    THEN [f[room - 1][i + 2] EXCEPT !.chars = <<m[i + 1]>> \o @]
    ELSE [f[room - 2][i + 2] EXCEPT !.chars = <<m[i], m[i + 1]>> \o @]

Fills(f, m, n) == f = [room \in 0 .. n |-> [i \in 1 .. Len(m) + 2 |-> Filled(f, m, room, i)]]

\* More room is filled by what fills less.
LEMMA FilledFromLess ==
    ASSUME NEW m, NEW n \in Nat, NEW f, NEW h, \A r \in 0 .. n : h[r] = f[r],
           NEW room \in 0 .. n + 1, NEW i
    PROVE  Filled(h, m, room, i) = Filled(f, m, room, i)
<1>1. room # 0 => 0 \in 0 .. n /\ room - 1 \in 0 .. n
  OBVIOUS
<1>2. room # 0 /\ room # 1 => room - 2 \in 0 .. n
  OBVIOUS
<1>3. room # 0 => h[0] = f[0] /\ h[room - 1] = f[room - 1]
  BY <1>1
<1>4. room # 0 /\ room # 1 => h[room - 2] = f[room - 2]
  BY <1>2
<1>5. CASE i > Len(m) \/ room = 0
  BY <1>5 DEF Filled
<1>6. CASE /\ ~(i > Len(m) \/ room = 0)
           /\ CharOf(m[i]) # "cr" \/ i = Len(m) \/ (room = 1 /\ CharOf(m[i + 1]) # "nl")
  BY <1>3, <1>6 DEF Filled
<1>7. CASE /\ ~(i > Len(m) \/ room = 0)
           /\ ~(CharOf(m[i]) # "cr" \/ i = Len(m) \/ (room = 1 /\ CharOf(m[i + 1]) # "nl"))
           /\ CharOf(m[i + 1]) = "nl"
  BY <1>3, <1>7 DEF Filled
<1>8. CASE /\ ~(i > Len(m) \/ room = 0)
           /\ ~(CharOf(m[i]) # "cr" \/ i = Len(m) \/ (room = 1 /\ CharOf(m[i + 1]) # "nl"))
           /\ CharOf(m[i + 1]) # "nl"
  BY <1>4, <1>8 DEF Filled
<1> QED
  BY <1>5, <1>6, <1>7, <1>8

\* The function that ReadProxy chooses exists.
LEMMA FillExists ==
    ASSUME NEW m
    PROVE  \A n \in Nat : \E f : Fills(f, m, n)
<1> DEFINE S == {n \in Nat : \E f : Fills(f, m, n)}  D == 1 .. Len(m) + 2
<1>1. 0 \in S
  <2> DEFINE f == [room \in 0 .. 0 |-> [i \in D |-> [chars |-> <<>>, next |-> i]]]
  <2>1. \A room \in 0 .. 0 : \A i \in D : Filled(f, m, room, i) = [chars |-> <<>>, next |-> i]
    BY DEF Filled
  <2>2. Fills(f, m, 0)
    BY <2>1 DEF Fills
  <2> QED
    BY <2>2
<1>2. ASSUME NEW n \in Nat, n \in S PROVE n + 1 \in S
  <2>1. PICK f : Fills(f, m, n)
    BY <1>2
  <2> DEFINE h == [room \in 0 .. n + 1 |-> [i \in D |-> Filled(f, m, room, i)]]
  <2>2. \A r \in 0 .. n : h[r] = f[r]
    <3> TAKE r \in 0 .. n
    <3>1. r \in 0 .. n + 1
      OBVIOUS
    <3>2. f[r] = [i \in D |-> Filled(f, m, r, i)]
      <4> HIDE DEF h
      <4> QED
        BY <2>1, Zenon DEF Fills
    <3> QED
      BY <3>1, <3>2, Zenon
  <2>3. \A room \in 0 .. n + 1 : \A i \in D : Filled(h, m, room, i) = Filled(f, m, room, i)
    <3> TAKE room \in 0 .. n + 1
    <3> TAKE i \in D
    <3> HIDE DEF h, D
    <3> QED
      BY <2>2, FilledFromLess
  <2>4. h = [room \in 0 .. n + 1 |-> [i \in D |-> Filled(h, m, room, i)]]
    <3> DEFINE H(room) == [i \in D |-> Filled(h, m, room, i)]
               F(room) == [i \in D |-> Filled(f, m, room, i)]
    <3>1. \A room \in 0 .. n + 1 : H(room) = F(room)
      BY <2>3, Zenon
    <3> HIDE DEF H
    <3>2. h = [room \in 0 .. n + 1 |-> H(room)]
      BY <3>1, Zenon
    <3> QED
      BY <3>2, Zenon DEF H
  <2> HIDE DEF h
  <2>5. Fills(h, m, n + 1)
    BY <2>4, Zenon DEF Fills
  <2> QED
    BY <2>5
<1> HIDE DEF S
<1>3. \A n \in Nat : n \in S
  BY <1>1, <1>2, AllNumbers
<1> QED
  BY <1>3 DEF S

\* f, which is what ReadProxy makes of m, has each room and place filled.
FillsAll(f, m) ==
    /\ ReadProxy(m) = f[InSize][consumed + 1]
    /\ \A room \in 0 .. InSize : \A i \in 1 .. Len(m) + 2 : f[room][i] = Filled(f, m, room, i)

\* ReadProxy is a value of such a function.
LEMMA ReadProxyIs ==
    ASSUME NEW m
    PROVE  \E f : FillsAll(f, m)
<1> DEFINE f == CHOOSE f : Fills(f, m, InSize)
<1>1. Fills(f, m, InSize)
  BY InSizeAssumption, FillExists
<1>2. ReadProxy(m) = f[InSize][consumed + 1]
  BY DEF ReadProxy, Fills, Filled
<1> HIDE DEF f
<1>3. \A room \in 0 .. InSize : \A i \in 1 .. Len(m) + 2 : f[room][i] = Filled(f, m, room, i)
  <2> TAKE room \in 0 .. InSize
  <2>1. f[room] = [i \in 1 .. Len(m) + 2 |-> Filled(f, m, room, i)]
    BY <1>1, Zenon DEF Fills
  <2> QED
    BY <2>1, Zenon
<1>4. FillsAll(f, m)
  BY <1>2, <1>3 DEF FillsAll
<1> QED
  BY <1>4

\* Where the part between two others is.
LEMMA MiddlePart ==
    ASSUME NEW a \in Seq(Entries), NEW p \in Seq(Entries), NEW q \in Seq(Entries)
    PROVE  /\ Len((a \o p) \o q) \in Nat /\ Len(a) + Len(p) <= Len((a \o p) \o q)
           /\ \A j \in 1 .. Len(p) : ((a \o p) \o q)[Len(a) + j] = p[j]
<1> DEFINE w == a \o p
<1>1. /\ w \in Seq(Entries) /\ Len(w) = Len(a) + Len(p)
      /\ \A i \in 1 .. Len(a) + Len(p) : w[i] = IF i <= Len(a) THEN a[i] ELSE p[i - Len(a)]
  BY ConcatProperties
<1> HIDE DEF w
<1>2. /\ Len(w \o q) = Len(w) + Len(q)
      /\ \A i \in 1 .. Len(w) + Len(q) : (w \o q)[i] = IF i <= Len(w) THEN w[i] ELSE q[i - Len(w)]
  <2>1. w \in Seq(Entries)
    BY <1>1
  <2> QED
    BY <2>1, ConcatProperties
<1>3. Len(a) \in Nat /\ Len(p) \in Nat /\ Len(q) \in Nat /\ Len(w) \in Nat
  BY <1>1
<1>4. ASSUME NEW j \in 1 .. Len(p) PROVE (w \o q)[Len(a) + j] = p[j]
  <2>1. /\ Len(a) + j \in 1 .. Len(a) + Len(p) /\ Len(a) + j \in 1 .. Len(w) + Len(q)
        /\ Len(a) + j <= Len(w) /\ ~(Len(a) + j <= Len(a)) /\ (Len(a) + j) - Len(a) = j
    BY <1>1, <1>3
  <2> QED
    BY <1>1, <1>2, <2>1
<1>5. Len(w \o q) \in Nat /\ Len(a) + Len(p) <= Len(w \o q)
  BY <1>1, <1>2, <1>3
<1> QED
  BY <1>4, <1>5 DEF w

\* The text below, around the next character of the text that was given.
TextAt(d, m, k) ==
    /\ After(d, k) \in Nat /\ After(d, k + 1) \in Nat /\ Len(m) \in Nat /\ After(d, k + 1) <= Len(m)
    /\ text[d][k + 1] = "nl" =>
          /\ After(d, k + 1) = After(d, k) + 2
          /\ m[After(d, k) + 1] = Cr /\ m[After(d, k) + 2] = Named(k + 1)
    /\ text[d][k + 1] # "nl" =>
          /\ After(d, k + 1) = After(d, k) + 1
          /\ m[After(d, k) + 1] = Named(k + 1)

\* The place of each character, and of its carriage return, in what binary_to_text made of a text.
LEMMA TextPlaces ==
    ASSUME NEW d, NEW g \in Nat, NEW k \in Nat, k + 1 <= g
    PROVE  TextAt(d, AsText(d, IdRange(1, g)), k)
<1> DEFINE x == IdRange(1, k)  e == <<Named(k + 1)>>  y == IdRange((k + 1) + 1, g)
           xe == IdRange(1, k + 1)
           a == AsText(d, x)  p == AsText(d, e)  q == AsText(d, y)
<1>0. k + 1 \in Nat /\ k <= k + 1
  OBVIOUS
<1>1. x \in Seq(Entries) /\ e \in Seq(Entries) /\ y \in Seq(Entries) /\ xe \in Seq(Entries)
  <2>1. Named(k + 1) \in Entries
    BY NamedEntries
  <2>2. x \in Seq(Entries) /\ xe \in Seq(Entries)
    BY <1>0, FirstRange
  <2>3. y \in Seq(Entries)
    BY <1>0, IdRangeIs
  <2> QED
    BY <2>1, <2>2, <2>3
<1>2. xe = x \o e
  <2>1. IdRange(k + 1, k + 1) = e
    <3> DEFINE t == IdRange(k + 1, k + 1)
    <3>1. (k + 1) - k = 1
      OBVIOUS
    <3>2. t \in Seq(Entries) /\ Len(t) = (k + 1) - k /\ \A i \in 1 .. (k + 1) - k : t[i] = Named(k + i)
      BY <1>0, IdRangeIs
    <3> HIDE DEF t
    <3>3. Len(t) = 1 /\ t[1] = Named(k + 1)
      BY <3>1, <3>2
    <3>4. t = <<t[1]>>
      BY <3>2, <3>3
    <3> QED
      BY <3>3, <3>4 DEF t
  <2>2. IdRange(1, k) \o IdRange(k + 1, k + 1) = IdRange(1, k + 1)
    BY <1>0, RangesFromFirst
  <2> QED
    BY <2>1, <2>2
<1>3. IdRange(1, g) = xe \o y
  BY <1>0, RangesFromFirst
<1> HIDE DEF x, e, y, xe
<1>4. /\ a \in Seq(Entries) /\ p \in Seq(Entries) /\ q \in Seq(Entries)
      /\ AsText(d, xe) = a \o p /\ AsText(d, IdRange(1, g)) = (a \o p) \o q
  <2>1. AsText(d, x \o e) = a \o p /\ a \in Seq(Entries)
    BY <1>1, TextOfParts
  <2>2. AsText(d, xe \o y) = AsText(d, xe) \o q /\ p \in Seq(Entries) /\ q \in Seq(Entries)
    BY <1>1, TextOfParts
  <2> QED
    BY <1>2, <1>3, <2>1, <2>2
<1>5. p = IF text[d][k + 1] = "nl" THEN <<Cr, Named(k + 1)>> ELSE <<Named(k + 1)>>
  <2>1. Named(k + 1) \in Entries /\ Named(k + 1).id = k + 1
    BY NamedEntries DEF Named
  <2> QED
    BY <2>1, TextOfOne DEF e
<1>6. After(d, k) = Len(a) /\ After(d, k + 1) = Len(a \o p)
  BY <1>4 DEF After, x, xe
<1> HIDE DEF a, p, q
<1> DEFINE m == (a \o p) \o q
<1>7. /\ Len(m) \in Nat /\ Len(a) + Len(p) <= Len(m) /\ \A j \in 1 .. Len(p) : m[Len(a) + j] = p[j]
      /\ Len(a \o p) = Len(a) + Len(p) /\ Len(a) \in Nat /\ Len(p) \in Nat
  <2>1. a \in Seq(Entries) /\ p \in Seq(Entries) /\ q \in Seq(Entries)
    BY <1>4
  <2>2. Len(m) \in Nat /\ Len(a) + Len(p) <= Len(m) /\ \A j \in 1 .. Len(p) : m[Len(a) + j] = p[j]
    BY <2>1, MiddlePart
  <2>3. Len(a \o p) = Len(a) + Len(p)
    BY <2>1, ConcatProperties
  <2> QED
    BY <2>1, <2>2, <2>3
<1> HIDE DEF m
<1>8. CASE text[d][k + 1] = "nl"
  <2>1. Len(p) = 2 /\ p[1] = Cr /\ p[2] = Named(k + 1)
    BY <1>5, <1>8
  <2>2. m[Len(a) + 1] = Cr /\ m[Len(a) + 2] = Named(k + 1)
    BY <1>7, <2>1
  <2>3. TextAt(d, m, k)
    BY <1>6, <1>7, <1>8, <2>1, <2>2 DEF TextAt
  <2> QED
    BY <1>4, <2>3 DEF m
<1>9. CASE text[d][k + 1] # "nl"
  <2>1. Len(p) = 1 /\ p[1] = Named(k + 1)
    BY <1>5, <1>9
  <2>2. m[Len(a) + 1] = Named(k + 1)
    BY <1>7, <2>1
  <2>3. TextAt(d, m, k)
    BY <1>6, <1>7, <1>9, <2>1, <2>2 DEF TextAt
  <2> QED
    BY <1>4, <2>3 DEF m
<1> QED
  BY <1>8, <1>9

\* What f fills from the text below the stream, after the first k characters.
Back(f, r, k, g) ==
    \E n \in k .. g :
        /\ f[r][After(from, k) + 1] = [chars |-> IdRange(k + 1, n), next |-> After(from, n) + 1]
        /\ n = k => k = g \/ r = 0

Reads(f, m, g) ==
    /\ from \in Obj /\ text[from] \in Seq(Character) /\ NoPairs(from)
    /\ m = AsText(from, IdRange(1, g)) /\ g <= Len(text[from])
    /\ \A r \in 0 .. InSize : \A i \in 1 .. Len(m) + 2 : f[r][i] = Filled(f, m, r, i)

\* The first k characters stand before place i of m, or all of them.
LEMMA AtBoundary ==
    ASSUME NEW g \in Nat, NEW f, NEW m, Reads(f, m, g), NEW k \in 0 .. g
    PROVE  /\ After(from, k) \in Nat /\ Len(m) \in Nat /\ After(from, k) + 1 \in 1 .. Len(m) + 2
           /\ k = g => After(from, k) + 1 > Len(m)
           /\ k < g => TextAt(from, m, k) /\ ~(After(from, k) + 1 > Len(m))
<1>1. m = AsText(from, IdRange(1, g)) /\ m \in Seq(Entries)
  <2>1. IdRange(1, g) \in Seq(Entries)
    BY FirstRange
  <2>2. AsText(from, IdRange(1, g)) \in Seq(Entries)
    BY <2>1, TextOfParts
  <2> QED
    BY <2>2 DEF Reads
<1>2. Len(m) \in Nat
  BY <1>1
<1>3. CASE k = g
  <2>1. After(from, k) = Len(m)
    BY <1>1, <1>3 DEF After
  <2> HIDE DEF After
  <2> QED
    BY <1>2, <1>3, <2>1
<1>4. CASE k < g
  <2>1. k \in Nat /\ k + 1 <= g
    BY <1>4
  <2>2. TextAt(from, m, k)
    BY <1>1, <2>1, TextPlaces
  <2>3. /\ After(from, k) \in Nat /\ After(from, k + 1) \in Nat /\ After(from, k + 1) <= Len(m)
        /\ After(from, k + 1) = After(from, k) + 2 \/ After(from, k + 1) = After(from, k) + 1
    BY <2>2 DEF TextAt
  <2> QED
    BY <1>2, <1>4, <2>2, <2>3
<1> QED
  BY <1>3, <1>4

\* A range begins with its first character.
LEMMA RangeBegins ==
    ASSUME NEW k \in Nat, NEW n \in Nat, k + 1 <= n
    PROVE  <<Named(k + 1)>> \o IdRange((k + 1) + 1, n) = IdRange(k + 1, n)
<1>0. k + 1 \in Nat /\ k <= k + 1 /\ (k + 1) - k = 1
  OBVIOUS
<1>1. IdRange(k + 1, k + 1) = <<Named(k + 1)>>
  <2> DEFINE t == IdRange(k + 1, k + 1)
  <2>1. t \in Seq(Entries) /\ Len(t) = (k + 1) - k /\ \A i \in 1 .. (k + 1) - k : t[i] = Named(k + i)
    BY <1>0, IdRangeIs
  <2> HIDE DEF t
  <2>2. Len(t) = 1 /\ t[1] = Named(k + 1)
    BY <1>0, <2>1
  <2>3. t = <<t[1]>>
    BY <2>1, <2>2
  <2> QED
    BY <2>2, <2>3 DEF t
<1>2. IdRange(k + 1, k + 1) \o IdRange((k + 1) + 1, n) = IdRange(k + 1, n)
  BY <1>0, RangesConcat
<1> QED
  BY <1>1, <1>2

\* ... and with its first two.
LEMMA RangeBeginsTwo ==
    ASSUME NEW k \in Nat, NEW n \in Nat, (k + 1) + 1 <= n
    PROVE  <<Named(k + 1), Named((k + 1) + 1)>> \o IdRange(((k + 1) + 1) + 1, n) = IdRange(k + 1, n)
<1>0. k + 1 \in Nat /\ (k + 1) + 1 \in Nat /\ k + 1 <= n
  OBVIOUS
<1> DEFINE e == Named(k + 1)  h == Named((k + 1) + 1)  t == IdRange(((k + 1) + 1) + 1, n)
<1>1. e \in Entries /\ h \in Entries /\ t \in Seq(Entries)
  <2>1. e \in Entries /\ h \in Entries
    BY <1>0, NamedEntries
  <2>2. t \in Seq(Entries)
    <3> DEFINE j == (k + 1) + 1
    <3>1. j \in Nat /\ j <= n
      BY <1>0
    <3> HIDE DEF j
    <3>2. IdRange(j + 1, n) \in Seq(Entries)
      BY <3>1, IdRangeIs
    <3> QED
      BY <3>2 DEF j
  <2> QED
    BY <2>1, <2>2
<1>2. <<h>> \o t = IdRange((k + 1) + 1, n)
  BY <1>0, RangeBegins
<1>3. <<e>> \o IdRange((k + 1) + 1, n) = IdRange(k + 1, n)
  BY <1>0, RangeBegins
<1> HIDE DEF e, h, t
<1>4. <<e, h>> = <<e>> \o <<h>> /\ <<e>> \in Seq(Entries) /\ <<h>> \in Seq(Entries)
  <2>1. <<e>> \in Seq(Entries) /\ <<h>> \in Seq(Entries)
    BY <1>1
  <2>2. <<e, h>> = <<e>> \o <<h>>
    <3> DEFINE w == <<e>> \o <<h>>
    <3>1. w \in Seq(Entries) /\ Len(w) = Len(<<e>>) + Len(<<h>>)
          /\ \A i \in 1 .. Len(<<e>>) + Len(<<h>>) :
                w[i] = IF i <= Len(<<e>>) THEN <<e>>[i] ELSE <<h>>[i - Len(<<e>>)]
      BY <2>1, ConcatProperties
    <3> HIDE DEF w
    <3>2. Len(w) = 2 /\ w[1] = e /\ w[2] = h
      BY <3>1
    <3>3. w = <<w[1], w[2]>>
      BY <3>1, <3>2
    <3> QED
      BY <3>2, <3>3 DEF w
  <2> QED
    BY <2>1, <2>2
<1>5. (<<e>> \o <<h>>) \o t = <<e>> \o (<<h>> \o t)
  <2>1. Associate(<<e>>, <<h>>, t)
    BY <1>1, <1>4, EntriesAssociative
  <2> QED
    BY <2>1 DEF Associate
<1> QED
  BY <1>2, <1>3, <1>4, <1>5 DEF e, h, t

\* One more character before what was filled.
LEMMA OneMore ==
    ASSUME NEW g \in Nat, NEW k \in Nat, k + 1 <= g, NEW f, NEW r, NEW q, Back(f, q, k + 1, g),
           f[r][After(from, k) + 1] =
               [f[q][After(from, k + 1) + 1] EXCEPT !.chars = <<Named(k + 1)>> \o @]
    PROVE  Back(f, r, k, g)
<1>1. PICK n \in k + 1 .. g :
         f[q][After(from, k + 1) + 1] =
             [chars |-> IdRange((k + 1) + 1, n), next |-> After(from, n) + 1]
  BY DEF Back
<1>2. n \in Nat /\ k + 1 <= n /\ n \in k .. g /\ n # k
  OBVIOUS
<1>3. f[r][After(from, k) + 1] =
         [chars |-> <<Named(k + 1)>> \o IdRange((k + 1) + 1, n), next |-> After(from, n) + 1]
  <2> DEFINE v == f[q][After(from, k + 1) + 1]  c == IdRange((k + 1) + 1, n)
             x == After(from, n) + 1  w == f[r][After(from, k) + 1]  e == <<Named(k + 1)>>
  <2>1. v = [chars |-> c, next |-> x] /\ w = [v EXCEPT !.chars = e \o @]
    BY <1>1
  <2> HIDE DEF v, c, x, w, e
  <2>2. w = [chars |-> e \o c, next |-> x]
    BY <2>1
  <2> QED
    BY <2>2 DEF w, e, c, x
<1>4. <<Named(k + 1)>> \o IdRange((k + 1) + 1, n) = IdRange(k + 1, n)
  BY <1>2, RangeBegins
<1> QED
  BY <1>2, <1>3, <1>4 DEF Back

\* Two more.
LEMMA TwoMore ==
    ASSUME NEW g \in Nat, NEW k \in Nat, (k + 1) + 1 <= g, NEW f, NEW r, NEW q,
           Back(f, q, (k + 1) + 1, g),
           f[r][After(from, k) + 1] =
               [f[q][After(from, (k + 1) + 1) + 1] EXCEPT !.chars =
                   <<Named(k + 1), Named((k + 1) + 1)>> \o @]
    PROVE  Back(f, r, k, g)
<1>1. PICK n \in (k + 1) + 1 .. g :
         f[q][After(from, (k + 1) + 1) + 1] =
             [chars |-> IdRange(((k + 1) + 1) + 1, n), next |-> After(from, n) + 1]
  BY DEF Back
<1>2. n \in Nat /\ (k + 1) + 1 <= n /\ n \in k .. g /\ n # k
  OBVIOUS
<1> DEFINE e == <<Named(k + 1), Named((k + 1) + 1)>>
<1>3. f[r][After(from, k) + 1] =
         [chars |-> e \o IdRange(((k + 1) + 1) + 1, n), next |-> After(from, n) + 1]
  <2> DEFINE v == f[q][After(from, (k + 1) + 1) + 1]  c == IdRange(((k + 1) + 1) + 1, n)
             x == After(from, n) + 1  w == f[r][After(from, k) + 1]
  <2>1. v = [chars |-> c, next |-> x] /\ w = [v EXCEPT !.chars = e \o @]
    BY <1>1
  <2> HIDE DEF v, c, x, w, e
  <2>2. w = [chars |-> e \o c, next |-> x]
    BY <2>1
  <2> QED
    BY <2>2 DEF w, c, x
<1>4. e \o IdRange(((k + 1) + 1) + 1, n) = IdRange(k + 1, n)
  BY <1>2, RangeBeginsTwo
<1> HIDE DEF e
<1> QED
  BY <1>2, <1>3, <1>4 DEF Back

\* Nothing is filled without room, or at the end.
LEMMA NoneMore ==
    ASSUME NEW g \in Nat, NEW k \in 0 .. g, NEW f, NEW r, k = g \/ r = 0,
           f[r][After(from, k) + 1] = [chars |-> <<>>, next |-> After(from, k) + 1]
    PROVE  Back(f, r, k, g)
<1>1. IdRange(k + 1, k) = <<>> /\ k \in k .. g
  BY EmptyRange
<1> QED
  BY <1>1 DEF Back

\* What room r takes, when less room takes what it should.
LEMMA BackStep ==
    ASSUME NEW g \in Nat, NEW f, NEW m, Reads(f, m, g), NEW r \in 0 .. InSize, NEW k \in 0 .. g,
           \A q \in 0 .. InSize : q < r => \A n \in 0 .. g : Back(f, q, n, g)
    PROVE  Back(f, r, k, g)
<1> DEFINE i == After(from, k) + 1
<1>1. f[r][i] = Filled(f, m, r, i)
  <2>1. i \in 1 .. Len(m) + 2
    BY AtBoundary
  <2> HIDE DEF i
  <2> QED
    BY <2>1 DEF Reads
<1>2. CASE k = g \/ r = 0
  <2>1. i > Len(m) \/ r = 0
    BY <1>2, AtBoundary
  <2>2. f[r][i] = [chars |-> <<>>, next |-> i]
    <3> HIDE DEF i
    <3> QED
      BY <1>1, <2>1 DEF Filled
  <2> QED
    BY <1>2, <2>2, NoneMore
<1>3. CASE k # g /\ r # 0
  <2>1. k \in Nat /\ k + 1 \in 0 .. g /\ k + 1 <= g /\ k < g /\ r - 1 \in 0 .. InSize /\ r - 1 < r
        /\ 0 \in 0 .. InSize /\ 0 < r
    BY <1>3, InSizeAssumption
  <2>2. TextAt(from, m, k) /\ ~(i > Len(m) \/ r = 0)
    BY <1>3, <2>1, AtBoundary
  <2>3. i \in Nat /\ Len(m) \in Nat /\ After(from, k) \in Nat /\ After(from, k + 1) \in Nat
    BY AtBoundary, <2>2 DEF TextAt
  <2>4. CharOf(Cr) = "cr" /\ CharOf(Named(k + 1)) = text[from][k + 1]
    <3>1. Cr.id = 0 /\ Named(k + 1).id = k + 1 /\ k + 1 # 0
      BY <2>1 DEF Cr, Named
    <3> QED
      BY <3>1 DEF CharOf
  <2>5. CASE text[from][k + 1] = "nl"
    <3>1. /\ After(from, k + 1) + 1 = i + 2 /\ m[i] = Cr /\ m[i + 1] = Named(k + 1) /\ i # Len(m)
      <4>1. /\ After(from, k + 1) = After(from, k) + 2 /\ After(from, k + 1) <= Len(m)
            /\ m[After(from, k) + 1] = Cr /\ m[After(from, k) + 2] = Named(k + 1)
        BY <2>2, <2>5 DEF TextAt
      <4>2. (After(from, k) + 1) + 1 = After(from, k) + 2
        BY <2>3
      <4> QED
        BY <2>3, <4>1, <4>2
    <3>2. f[r][i] = [f[r - 1][i + 2] EXCEPT !.chars = <<Named(k + 1)>> \o @]
      <4> HIDE DEF i
      <4> QED
        BY <1>1, <2>2, <2>4, <2>5, <3>1 DEF Filled
    <3>3. Back(f, r - 1, k + 1, g)
      BY <2>1
    <3>4. f[r][After(from, k) + 1] =
              [f[r - 1][After(from, k + 1) + 1] EXCEPT !.chars = <<Named(k + 1)>> \o @]
      BY <3>1, <3>2
    <3> QED
      BY <2>1, <3>3, <3>4, OneMore
  <2>6. CASE text[from][k + 1] # "nl"
    <3>1. After(from, k + 1) = i /\ m[i] = Named(k + 1)
      BY <2>2, <2>6 DEF TextAt
    <3>2. CASE CharOf(m[i]) # "cr" \/ i = Len(m) \/ (r = 1 /\ CharOf(m[i + 1]) # "nl")
      <4> DEFINE q == IF CharOf(m[i]) = "cr" THEN 0 ELSE r - 1
      <4>1. q \in 0 .. InSize /\ q < r
        BY <2>1
      <4>2. f[r][i] = [f[q][i + 1] EXCEPT !.chars = <<Named(k + 1)>> \o @]
        <5>1. f[r][i] = [f[q][i + 1] EXCEPT !.chars = <<m[i]>> \o @]
          <6> HIDE DEF i
          <6> QED
            BY <1>1, <2>2, <3>2 DEF Filled
        <5> QED
          BY <3>1, <5>1
      <4>3. Back(f, q, k + 1, g)
        <5> HIDE DEF q
        <5> QED
          BY <2>1, <4>1
      <4>4. f[r][After(from, k) + 1] =
                [f[q][After(from, k + 1) + 1] EXCEPT !.chars = <<Named(k + 1)>> \o @]
        BY <3>1, <4>2
      <4> HIDE DEF q
      <4> QED
        BY <2>1, <4>3, <4>4, OneMore
    <3>3. CASE ~(CharOf(m[i]) # "cr" \/ i = Len(m) \/ (r = 1 /\ CharOf(m[i + 1]) # "nl"))
      <4>1. text[from][k + 1] = "cr" /\ i # Len(m)
        BY <2>4, <3>1, <3>3
      <4>2. k + 1 # g
        <5>1. k + 1 = g => After(from, k + 1) + 1 > Len(m)
          BY <2>1, AtBoundary
        <5> QED
          BY <2>2, <2>3, <3>1, <4>1, <5>1
      <4>3. k + 1 \in Nat /\ (k + 1) + 1 <= g /\ (k + 1) + 1 \in 0 .. g /\ k + 1 < g
        BY <2>1, <4>2
      <4>4. TextAt(from, m, k + 1)
        BY <4>3, <2>1, AtBoundary
      <4>5. text[from][(k + 1) + 1] # "nl"
        <5>1. Len(text[from]) \in Nat /\ g <= Len(text[from]) /\ NoPairs(from)
          BY DEF Reads
        <5>2. k + 1 \in 1 .. Len(text[from]) - 1
          BY <2>1, <4>3, <5>1
        <5> QED
          BY <4>1, <5>1, <5>2 DEF NoPairs
      <4>6. m[i + 1] = Named((k + 1) + 1) /\ After(from, (k + 1) + 1) = i + 1
        BY <3>1, <4>4, <4>5 DEF TextAt
      <4>7. CharOf(m[i + 1]) # "nl"
        <5>1. Named((k + 1) + 1).id = (k + 1) + 1 /\ (k + 1) + 1 # 0
          BY <4>3 DEF Named
        <5> QED
          BY <4>5, <4>6, <5>1 DEF CharOf
      <4>8. r - 2 \in 0 .. InSize /\ r - 2 < r
        BY <1>3, <3>3, <4>7, InSizeAssumption
      <4>9. f[r][i] = [f[r - 2][i + 2] EXCEPT !.chars = <<m[i], m[i + 1]>> \o @]
        <5> HIDE DEF i
        <5> QED
          BY <1>1, <2>2, <3>3, <4>7 DEF Filled
      <4>10. Back(f, r - 2, (k + 1) + 1, g)
        BY <4>3, <4>8
      <4>11. (i + 1) + 1 = i + 2
        BY <2>3
      <4>12. f[r][After(from, k) + 1] =
                [f[r - 2][After(from, (k + 1) + 1) + 1] EXCEPT !.chars =
                    <<Named(k + 1), Named((k + 1) + 1)>> \o @]
        BY <3>1, <4>6, <4>9, <4>11
      <4> QED
        BY <2>1, <4>3, <4>10, <4>12, TwoMore
    <3> QED
      BY <3>2, <3>3
  <2> QED
    BY <2>5, <2>6
<1> QED
  BY <1>2, <1>3

\* ... so every room does.
LEMMA BackAll ==
    ASSUME NEW g \in Nat, NEW f, NEW m, Reads(f, m, g)
    PROVE  \A r \in 0 .. InSize : \A k \in 0 .. g : Back(f, r, k, g)
<1> DEFINE A == {r \in Nat : r <= InSize => \A k \in 0 .. g : Back(f, r, k, g)}
<1>1. ASSUME NEW r \in Nat, \A q \in Nat : q < r => q \in A PROVE r \in A
  <2> SUFFICES ASSUME r <= InSize, NEW k \in 0 .. g PROVE Back(f, r, k, g)
    OBVIOUS
  <2>1. r \in 0 .. InSize
    BY InSizeAssumption
  <2>2. \A q \in 0 .. InSize : q < r => \A n \in 0 .. g : Back(f, q, n, g)
    BY <1>1
  <2> QED
    BY <2>1, <2>2, BackStep
<1> HIDE DEF A
<1>2. \A r \in Nat : r \in A
  BY <1>1, AllNumbersFromLess
<1> QED
  BY <1>2, InSizeAssumption DEF A

\* What the reader's function makes of the text below: the characters that were given, from
\* where it stands, and at least one unless all were read.
LEMMA ReadProxyReads ==
    ASSUME NEW g \in Nat, NEW m, from \in Obj, text[from] \in Seq(Character), NoPairs(from),
           m = AsText(from, IdRange(1, g)), g <= Len(text[from]), NEW k \in 0 .. g,
           consumed = After(from, k)
    PROVE  \E n \in k .. g :
              /\ ReadProxy(m) = [chars |-> IdRange(k + 1, n), next |-> After(from, n) + 1]
              /\ n = k => k = g
<1>1. PICK f : FillsAll(f, m)
  BY ReadProxyIs
<1>2. Reads(f, m, g)
  BY <1>1 DEF Reads, FillsAll
<1>3. InSize \in 0 .. InSize /\ InSize # 0
  BY InSizeAssumption
<1>4. Back(f, InSize, k, g)
  BY <1>2, <1>3, BackAll
<1> QED
  BY <1>1, <1>3, <1>4 DEF Back, FillsAll

(***************************************************************************)
(* The reader: its steps                                                   *)
(***************************************************************************)

\* A part of a range.
Middle(b, c, p, l) == SubSeq(IdRange(b + 1, c), p + 1, p + l) = IdRange((b + p) + 1, (b + p) + l)

\* The middle of a range of the text is a range.
LEMMA MiddleOfRange ==
    ASSUME NEW b \in Nat, NEW c \in Nat, b <= c, NEW p \in Nat, NEW l \in Nat, p + l <= c - b
    PROVE  Middle(b, c, p, l)
<1> DEFINE s == IdRange(b + 1, c)  t == SubSeq(s, p + 1, p + l)  i == b + p  j == i + l
<1>1. s \in Seq(Entries) /\ Len(s) = c - b /\ \A k \in 1 .. c - b : s[k] = Named(b + k)
  BY IdRangeIs
<1> HIDE DEF s
<1>2. t \in Seq(Entries) /\ Len(t) = l /\ \A k \in 1 .. l : t[k] = s[p + k]
  <2>1. \A k \in p + 1 .. p + l : k \in 1 .. Len(s)
    BY <1>1
  <2>2. t \in Seq(Entries)
    BY <1>1, <2>1
  <2>3. Len(t) = l
    BY <1>1
  <2>4. \A k \in 1 .. l : t[k] = s[p + k]
    BY <1>1
  <2> QED
    BY <2>2, <2>3, <2>4
<1> HIDE DEF t
<1>3. i \in Nat /\ j \in Nat /\ i <= j /\ j - i = l
  OBVIOUS
<1>4. \A k \in 1 .. l : p + k \in 1 .. c - b /\ b + (p + k) = i + k
  OBVIOUS
<1> HIDE DEF i, j
<1>5. \A k \in 1 .. j - i : t[k] = Named(i + k)
  BY <1>1, <1>2, <1>3, <1>4
<1>6. t = IdRange(i + 1, j)
  BY <1>2, <1>3, <1>5, IsRange
<1> QED
  BY <1>6 DEF Middle, t, s, i, j

\* The lesser of two numbers.
LEMMA LeastIs ==
    ASSUME NEW i \in Nat, NEW j \in Nat
    PROVE  Least(i, j) \in Nat /\ Least(i, j) <= i /\ Least(i, j) <= j
           /\ (Least(i, j) = i \/ Least(i, j) = j)
  BY DEF Least

\* The text below the stream that is read.
LEMMA BelowReader ==
    ASSUME TransformInv, ReaderOK, from # 0, ~again[from], ~lost[from]
    PROVE  /\ from \in Obj /\ given[from] \in Nat /\ text[from] \in Seq(Character)
           /\ given[from] <= Len(text[from])
           /\ out[from] = AsText(from, IdRange(1, given[from]))
<1>1. /\ from \in Obj /\ kind = "text" /\ \A o \in Obj : life[o] # "live" /\ life[o] # "wild"
  BY DEF ReaderOK
<1>2. given[from] \in Nat /\ text[from] \in Seq(Character) /\ given[from] <= Len(text[from])
  BY <1>1 DEF TransformInv, TransformTypes, Room
<1>3. LeftOK(from)
  BY <1>1 DEF TransformInv, StreamsOK, Calm
<1>4. out[from] = AsGiven(from, given[from])
  BY <1>1, <1>3 DEF LeftOK, LeftAt
<1> QED
  BY <1>1, <1>2, <1>4 DEF AsGiven

\* How the block is filled.
LEMMA FillIs ==
    ASSUME TransformInv, ReaderOK, from # 0, ~again[from], ~lost[from], NoPairs(from),
           NEW b \in Nat, NEW c \in Nat, ReaderAt(from, b, c)
    PROVE  \E n \in Nat :
              /\ c <= n /\ n <= given[from]
              /\ ReadProxy(out[from]).chars = IdRange(c + 1, n)
              /\ ReadProxy(out[from]).next - 1 = After(from, n)
              /\ n = c => c = given[from]
<1> DEFINE g == given[from]  m == out[from]
<1>1. /\ from \in Obj /\ g \in Nat /\ text[from] \in Seq(Character) /\ g <= Len(text[from])
      /\ m = AsText(from, IdRange(1, g))
  BY BelowReader
<1>2. c \in 0 .. g /\ consumed = After(from, c)
  BY <1>1 DEF ReaderAt
<1>3. PICK n \in c .. g :
              /\ ReadProxy(m) = [chars |-> IdRange(c + 1, n), next |-> After(from, n) + 1]
              /\ n = c => c = g
  <2> HIDE DEF g, m
  <2> QED
    BY <1>1, <1>2, ReadProxyReads
<1>4. n \in Nat /\ c <= n /\ n <= g
  BY <1>1
<1>5. After(from, n) \in Nat
  <2>1. AsText(from, IdRange(1, n)) \in Seq(Entries)
    BY <1>4, FirstRange, TextOfParts
  <2> QED
    BY <2>1 DEF After
<1>6. (After(from, n) + 1) - 1 = After(from, n)
  BY <1>5
<1> QED
  BY <1>3, <1>4, <1>6

\* What is still to read below the stream is the same after a step of the reader.
LEMMA AfterSame == ASSUME text' = text, NEW d, NEW n PROVE After(d, n)' = After(d, n)
  BY DEF After, AsText, IdRange, Named, Cr

\* What no step of the reader changes.
Reading ==
    /\ from' = from /\ kind' = kind /\ text' = text /\ life' = life /\ out' = out /\ given' = given
    /\ again' = again /\ lost' = lost

\* A step of the reader leaves the writers alone.
LEMMA ReadingIs == UNCHANGED <<transformVars, from>> => Reading
  BY DEF Reading, transformVars, object, stream

\* A step of the reader keeps its invariant when it does so for a text that comes back.
LEMMA ReaderStep ==
    ASSUME ReaderOK, from # 0, Reading,
           NEW d \in Obj, d = from,
           ~again[d] /\ ~lost[d] /\ NoPairs(d) => \E b, c \in Nat : ReaderAt(d, b, c)'
    PROVE  ReaderOK'
<1>1. NoPairs(d)' = NoPairs(d)
  BY DEF NoPairs, Reading
<1>2. from' = d /\ again' = again /\ lost' = lost /\ life' = life /\ kind' = kind
  BY DEF Reading
<1>3. /\ from \in Obj /\ kind = "text" /\ life[from] # "unborn"
      /\ \A o \in Obj : life[o] \in {"unborn", "moved", "dead"}
  BY DEF ReaderOK
<1>4. ASSUME ~again[d], ~lost[d], NoPairs(d)
      PROVE  \E x \in Obj, b, c \in Nat : x = from' /\ ReaderAt(x, b, c)'
  BY <1>2, <1>4
<1>5. NoPairs(from)' = NoPairs(d)'
  BY <1>2 DEF NoPairs
<1> QED
  BY <1>1, <1>2, <1>3, <1>4, <1>5 DEF ReaderOK

\* The arithmetic of a read.
LEMMA ReadNumbers ==
    ASSUME NEW b \in Nat, NEW c \in Nat, b <= c, NEW p \in 0 .. c - b, NEW l \in Nat, l <= (c - b) - p
    PROVE  /\ p \in Nat /\ p + l <= c - b /\ b + p \in Nat /\ (b + p) + l \in Nat /\ b + p <= (b + p) + l
           /\ ((b + p) + l) - (b + p) = l /\ (b + p) + l = b + (p + l) /\ p + l \in 0 .. c - b
           /\ (p + l = c - b => (b + p) + l = c)
  OBVIOUS

\* The rest of the block, as far as it goes.
FirstPart(k) == SubSeq(block, position + 1, position + Least(k, Len(block) - position))

PartAt(b, c, k, l) ==
    /\ l <= k /\ l <= (c - b) - position /\ (l = k \/ l = (c - b) - position)
    /\ Len(FirstPart(k)) = l /\ FirstPart(k) \in Seq(Entries) /\ Len(block) = c - b
    /\ returned \o FirstPart(k) = IdRange(1, (b + position) + l)

\* The first copy of a read takes what the block has, up to what is asked for.
LEMMA FirstPartIs ==
    ASSUME NEW d, NEW b \in Nat, NEW c \in Nat, ReaderAt(d, b, c), NEW k \in Nat
    PROVE  \E l \in Nat : PartAt(b, c, k, l)
<1>0. PICK p \in Nat : p = position
  BY DEF ReaderAt
<1>1. b <= c /\ block = IdRange(b + 1, c) /\ p \in 0 .. c - b /\ returned = IdRange(1, b + p)
  BY <1>0 DEF ReaderAt
<1>2. Len(block) = c - b
  BY <1>1, IdRangeIs
<1>3. Len(block) - p \in Nat /\ Len(block) - p = (c - b) - p
  BY <1>1, <1>2
<1>9. PICK l \in Nat : l = Least(k, Len(block) - p)
  BY <1>3, LeastIs
<1>4. l \in Nat /\ l <= k /\ l <= (c - b) - p /\ (l = k \/ l = (c - b) - p)
  BY <1>3, <1>9, LeastIs
<1>5. /\ p \in Nat /\ p + l <= c - b /\ b + p \in Nat /\ (b + p) + l \in Nat /\ b + p <= (b + p) + l
      /\ ((b + p) + l) - (b + p) = l
  BY <1>1, <1>4, ReadNumbers
<1>6. FirstPart(k) = IdRange((b + p) + 1, (b + p) + l)
  <2>1. FirstPart(k) = SubSeq(IdRange(b + 1, c), p + 1, p + l)
    BY <1>0, <1>1, <1>9 DEF FirstPart
  <2>2. SubSeq(IdRange(b + 1, c), p + 1, p + l) = IdRange((b + p) + 1, (b + p) + l)
    <3>1. b <= c /\ p \in Nat /\ l \in Nat /\ p + l <= c - b
      BY <1>1, <1>4, <1>5
    <3>2. Middle(b, c, p, l)
      BY <3>1, MiddleOfRange
    <3> QED
      BY <3>2, Zenon DEF Middle
  <2> QED
    BY <2>1, <2>2
<1>7. Len(FirstPart(k)) = l /\ FirstPart(k) \in Seq(Entries)
  <2> DEFINE i == b + p  j == (b + p) + l
  <2>1. i \in Nat /\ j \in Nat /\ i <= j /\ j - i = l /\ FirstPart(k) = IdRange(i + 1, j)
    BY <1>5, <1>6
  <2> HIDE DEF i, j
  <2>2. IdRange(i + 1, j) \in Seq(Entries) /\ Len(IdRange(i + 1, j)) = j - i
    BY <2>1, IdRangeIs
  <2> QED
    BY <2>1, <2>2
<1>8. returned \o FirstPart(k) = IdRange(1, (b + p) + l)
  <2> DEFINE i == b + p  j == (b + p) + l
  <2>1. i \in Nat /\ j \in Nat /\ i <= j /\ FirstPart(k) = IdRange(i + 1, j) /\ returned = IdRange(1, i)
    BY <1>1, <1>5, <1>6
  <2> HIDE DEF i, j
  <2>2. IdRange(1, i) \o IdRange(i + 1, j) = IdRange(1, j)
    BY <2>1, RangesFromFirst
  <2> QED
    BY <2>1, <2>2 DEF j
<1> QED
  BY <1>0, <1>2, <1>4, <1>7, <1>8 DEF PartAt

\* A text that comes back: what the reader's steps do to it.
LEMMA ReadBackPreserves ==
    ASSUME TransformInv, ReaderOK, NEW k \in 1 .. MaxRead, ReadBack(k)
    PROVE  ReaderOK'
<1> DEFINE first == FirstPart(k)  fill == ReadProxy(out[from])
           second == SubSeq(fill.chars, 1, Least(k - Len(first), Len(fill.chars)))
<1>1. /\ from # 0 /\ Reading /\ k \in Nat /\ k > 0
      /\ \/ /\ position + Len(first) < Len(block)
            /\ position' = position + Len(first)
            /\ returned' = returned \o first
            /\ consumed' = consumed /\ block' = block /\ ended' = ended
         \/ /\ position + Len(first) = Len(block)
            /\ block' = fill.chars /\ consumed' = fill.next - 1
            /\ position' = Len(second)
            /\ returned' = returned \o first \o second
            /\ ended' = (k > 0 /\ first \o second = <<>>)
  <2>1. k \in Nat /\ k > 0
    BY InSizeAssumption
  <2>2. from # 0 /\ UNCHANGED <<transformVars, from>>
    BY Zenon DEF ReadBack
  <2>3. \/ /\ position + Len(first) < Len(block)
           /\ position' = position + Len(first)
           /\ returned' = returned \o first
           /\ UNCHANGED <<consumed, block, ended>>
        \/ /\ position + Len(first) = Len(block)
           /\ block' = fill.chars /\ consumed' = fill.next - 1
           /\ position' = Len(second)
           /\ returned' = returned \o first \o second
           /\ ended' = (k > 0 /\ first \o second = <<>>)
    BY Zenon DEF ReadBack, FirstPart
  <2> HIDE DEF first, fill, second
  <2> QED
    BY <2>1, <2>2, <2>3, ReadingIs
<1>2. from \in Obj
  BY <1>1 DEF ReaderOK
<1>3. ASSUME NEW d \in Obj, d = from, ~again[d], ~lost[d], NoPairs(d)
      PROVE  \E b, c \in Nat : ReaderAt(d, b, c)'
  <2>1. PICK b \in Nat, c \in Nat : ReaderAt(d, b, c)
    BY <1>1, <1>3 DEF ReaderOK
  <2> DEFINE p == position  g == given[d]
  <2>2. b <= c /\ c <= g /\ p \in 0 .. c - b /\ consumed = After(d, c) /\ block = IdRange(b + 1, c)
        /\ (ended => b = g)
    BY <2>1 DEF ReaderAt
  <2>3. PICK l \in Nat :
              /\ l <= k /\ l <= (c - b) - p /\ (l = k \/ l = (c - b) - p)
              /\ Len(first) = l /\ first \in Seq(Entries) /\ Len(block) = c - b
              /\ returned \o first = IdRange(1, (b + p) + l)
    <3>1. PICK i \in Nat : PartAt(b, c, k, i)
      BY <1>1, <2>1, FirstPartIs
    <3> QED
      BY <3>1 DEF PartAt
  <2>4. /\ p \in Nat /\ (b + p) + l = b + (p + l) /\ p + l \in 0 .. c - b
        /\ (p + l = c - b => (b + p) + l = c)
    BY <2>2, <2>3, ReadNumbers
  <2>5. \A n : After(d, n)' = After(d, n)
    BY <1>1, AfterSame DEF Reading
  <2>6. given'[d] = g
    BY <1>1 DEF Reading
  <2>7. CASE /\ position + Len(first) < Len(block)
             /\ position' = position + Len(first)
             /\ returned' = returned \o first
             /\ consumed' = consumed /\ block' = block /\ ended' = ended
    <3>1. position' = p + l /\ returned' = IdRange(1, b + (p + l))
      BY <2>3, <2>4, <2>7
    <3> HIDE DEF p, g
    <3>2. returned' = IdRange(1, b + position')
      BY <3>1
    <3>3. ReaderAt(d, b, c)'
      BY <2>2, <2>4, <2>5, <2>6, <2>7, <3>1, <3>2 DEF ReaderAt, IdRange, Named
    <3> QED
      BY <3>3
  <2>8. CASE /\ position + Len(first) = Len(block)
             /\ block' = fill.chars /\ consumed' = fill.next - 1
             /\ position' = Len(second)
             /\ returned' = returned \o first \o second
             /\ ended' = (k > 0 /\ first \o second = <<>>)
    <3>1. PICK n \in Nat :
              /\ c <= n /\ n <= g /\ fill.chars = IdRange(c + 1, n) /\ fill.next - 1 = After(d, n)
              /\ n = c => c = g
      BY <1>1, <1>3, <2>1, FillIs
    <3>2. returned \o first = IdRange(1, c)
      BY <2>3, <2>4, <2>8
    <3>0. k - l \in Nat /\ n - c \in Nat
      BY <1>1, <2>3, <3>1
    <3>13. PICK q \in Nat : q = Least(k - l, n - c)
      BY <3>0, LeastIs
    <3>3. q \in Nat /\ q <= n - c /\ (q = 0 => k = l \/ n = c)
      <4>1. q \in Nat /\ q <= n - c /\ (q = k - l \/ q = n - c)
        BY <3>0, <3>13, LeastIs
      <4> QED
        BY <1>1, <2>3, <3>1, <4>1
    <3>4. second = IdRange(c + 1, c + q)
      <4>1. Len(fill.chars) = n - c
        BY <3>1, IdRangeIs
      <4>2. second = SubSeq(IdRange(c + 1, n), 1, q)
        BY <2>3, <3>1, <3>13, <4>1
      <4>3. SubSeq(IdRange(c + 1, n), 1, q) = IdRange(c + 1, c + q)
        <5>1. RangeCut(c, n, q)
          BY <3>1, <3>3, RangeIsCut
        <5> QED
          BY <5>1 DEF RangeCut
      <4> QED
        BY <4>2, <4>3
    <3>5. /\ c + q \in Nat /\ c <= c + q /\ (c + q) - c = q
      BY <3>3
    <3>6. second \in Seq(Entries) /\ Len(second) = q
      <4> HIDE DEF second
      <4>1. IdRange(c + 1, c + q) \in Seq(Entries) /\ Len(IdRange(c + 1, c + q)) = (c + q) - c
        BY <3>5, IdRangeIs
      <4> QED
        BY <3>4, <3>5, <4>1
    <3>7. returned \o first \o second = IdRange(1, c + q)
      <4>1. IdRange(1, c) \o IdRange(c + 1, c + q) = IdRange(1, c + q)
        BY <3>5, RangesFromFirst
      <4> HIDE DEF first, second
      <4> QED
        BY <3>2, <3>4, <4>1
    <3> HIDE DEF second, fill
    <3>8. ended' => c = g
      <4> SUFFICES ASSUME ended' PROVE c = g
        OBVIOUS
      <4>1. first \o second = <<>>
        BY <2>8
      <4>2. Len(first \o second) = l + q
        <5>1. first \in Seq(Entries)
          BY <2>3
        <5> HIDE DEF first
        <5>2. Len(first \o second) = Len(first) + Len(second)
          BY <3>6, <5>1, ConcatProperties
        <5> QED
          BY <2>3, <3>6, <5>2
      <4>3. l = 0 /\ q = 0
        BY <3>3, <4>1, <4>2
      <4> QED
        BY <1>1, <3>1, <3>3, <4>3
    <3>9. position' = q /\ returned' = IdRange(1, c + q) /\ block' = IdRange(c + 1, n)
          /\ consumed' = After(d, n)
      BY <2>8, <3>1, <3>6, <3>7
    <3>10. position' \in 0 .. n - c
      BY <3>1, <3>3, <3>9
    <3>11. returned' = IdRange(1, c + position')
      BY <3>9
    <3> HIDE DEF g, first
    <3>12. ReaderAt(d, c, n)'
      BY <2>5, <2>6, <3>1, <3>8, <3>9, <3>10, <3>11 DEF ReaderAt, IdRange, Named
    <3> QED
      BY <3>12
  <2> QED
    BY <1>1, <2>7, <2>8
<1> QED
  BY <1>1, <1>2, <1>3, ReaderStep

\* underflow fills the block when all of it was read.
LEMMA UnderflowPreserves ==
    ASSUME TransformInv, ReaderOK, Underflow
    PROVE  ReaderOK'
<1> DEFINE fill == ReadProxy(out[from])
<1>1. /\ from # 0 /\ Reading /\ position = Len(block)
      /\ block' = fill.chars /\ consumed' = fill.next - 1
      /\ position' = 0 /\ ended' = (fill.chars = <<>>) /\ returned' = returned
  BY ReadingIs DEF Underflow
<1>2. from \in Obj
  BY <1>1 DEF ReaderOK
<1>3. ASSUME NEW d \in Obj, d = from, ~again[d], ~lost[d], NoPairs(d)
      PROVE  \E b, c \in Nat : ReaderAt(d, b, c)'
  <2>1. PICK b \in Nat, c \in Nat : ReaderAt(d, b, c)
    BY <1>1, <1>3 DEF ReaderOK
  <2> DEFINE g == given[d]
  <2>2. b <= c /\ block = IdRange(b + 1, c) /\ returned = IdRange(1, b + position)
    BY <2>1 DEF ReaderAt
  <2>3. Len(block) = c - b
    BY <2>2, IdRangeIs
  <2>4. returned = IdRange(1, c)
    <3>1. b + position = c
      BY <1>1, <2>2, <2>3
    <3> QED
      BY <2>2, <3>1
  <2>5. PICK n \in Nat :
              /\ c <= n /\ n <= g /\ fill.chars = IdRange(c + 1, n) /\ fill.next - 1 = After(d, n)
              /\ n = c => c = g
    BY <1>1, <1>3, <2>1, FillIs
  <2>6. \A i : After(d, i)' = After(d, i)
    BY <1>1, AfterSame DEF Reading
  <2>7. given'[d] = g
    BY <1>1 DEF Reading
  <2>8. fill.chars = <<>> => c = g
    <3>1. Len(IdRange(c + 1, n)) = n - c
      <4>1. c <= n
        BY <2>5
      <4> QED
        BY <4>1, IdRangeIs
    <3> SUFFICES ASSUME fill.chars = <<>> PROVE c = g
      OBVIOUS
    <3> HIDE DEF fill
    <3>2. n - c = 0
      BY <2>5, <3>1
    <3> QED
      BY <2>5, <3>2
  <2> HIDE DEF fill
  <2>9. /\ consumed' = After(d, n) /\ block' = IdRange(c + 1, n) /\ position' = 0 /\ (ended' => c = g)
        /\ returned' = IdRange(1, c)
    BY <1>1, <2>4, <2>5, <2>8
  <2>10. returned' = IdRange(1, c + position') /\ position' \in 0 .. n - c
    <3>1. c + 0 = c /\ 0 \in 0 .. n - c
      BY <2>5
    <3> QED
      BY <2>9, <3>1
  <2> HIDE DEF g
  <2>11. ReaderAt(d, c, n)'
    BY <2>5, <2>6, <2>7, <2>9, <2>10 DEF ReaderAt, IdRange, Named
  <2> QED
    BY <2>11
<1> QED
  BY <1>1, <1>2, <1>3, ReaderStep

\* The reader starts before the text.
LEMMA OpenPreserves ==
    ASSUME TransformInv, ReaderOK, NEW d \in Obj, Open(d)
    PROVE  ReaderOK'
<1>1. /\ from = 0 /\ kind = "text" /\ life[d] # "unborn" /\ from' = d
      /\ \A o \in Obj : life[o] \in {"unborn", "moved", "dead"}
      /\ kind' = kind /\ text' = text /\ life' = life /\ given' = given
      /\ consumed' = consumed /\ block' = block /\ position' = position /\ returned' = returned
      /\ ended' = ended
  BY DEF Open, transformVars, object, stream
<1>2. returned = <<>> /\ consumed = 0 /\ block = <<>> /\ position = 0 /\ ~ended
  BY <1>1 DEF ReaderOK
<1>3. given[d] \in Nat
  BY DEF TransformInv, TransformTypes
<1>4. IdRange(1, 0) = <<>>
  <2>1. IdRange(0 + 1, 0) = <<>>
    BY EmptyRange
  <2> QED
    BY <2>1
<1>5. After(d, 0) = 0
  BY <1>4, TextOfNothing DEF After
<1>6. After(d, 0)' = After(d, 0)
  BY <1>1, AfterSame
<1>7. IdRange(0 + 1, 0) = <<>> /\ IdRange(1, 0 + 0) = <<>> /\ 0 \in 0 .. 0 - 0
  BY <1>4
<1>8. ReaderAt(d, 0, 0)'
  BY <1>1, <1>2, <1>3, <1>5, <1>6, <1>7 DEF ReaderAt
<1>9. d # 0
  BY ObjAssumption
<1> QED
  BY <1>1, <1>8, <1>9 DEF ReaderOK

(***************************************************************************)
(* What holds of every behaviour                                           *)
(***************************************************************************)

\* What comes back is what was given.
LEMMA InvRoundTrip == PipeInv => RoundTrip
<1> SUFFICES ASSUME TransformInv, ReaderOK, from # 0, ~again[from], ~lost[from], NoPairs(from)
             PROVE  /\ IsPrefix(returned, IdRange(1, given[from]))
                    /\ ended => returned = IdRange(1, given[from])
  BY DEF PipeInv, RoundTrip, NoPairs
<1> DEFINE g == given[from]
<1>1. PICK b \in Nat, c \in Nat : ReaderAt(from, b, c)
  BY DEF ReaderOK
<1>2. g \in Nat
  BY BelowReader
<1>3. PICK p \in Nat : p = position
  BY <1>1 DEF ReaderAt
<1>4. b <= c /\ c <= g /\ p \in 0 .. c - b /\ returned = IdRange(1, b + p) /\ (ended => b = g)
  BY <1>1, <1>3 DEF ReaderAt
<1>5. b + p \in Nat /\ b + p <= g
  BY <1>2, <1>4
<1>6. IsPrefix(returned, IdRange(1, g))
  <2> DEFINE n == b + p  s == IdRange(1, n)  t == IdRange(1, g)
  <2>1. n \in Nat /\ n <= g /\ s = returned
    BY <1>4, <1>5
  <2> HIDE DEF n, g
  <2>2. s \in Seq(Entries) /\ Len(s) = n /\ t \in Seq(Entries) /\ Len(t) = g
    BY <1>2, <2>1, FirstRange
  <2>3. SubSeq(t, 1, n) = s
    <3>1. 0 + 1 = 1 /\ 0 <= g /\ g - 0 = g /\ 0 + n = n /\ n <= g - 0
      BY <1>2, <2>1
    <3>2. RangeCut(0, g, n)
      BY <1>2, <2>1, <3>1, RangeIsCut
    <3>3. SubSeq(IdRange(0 + 1, g), 1, n) = IdRange(0 + 1, 0 + n)
      BY <3>2 DEF RangeCut
    <3> QED
      BY <3>1, <3>3
  <2> HIDE DEF s, t
  <2>4. IsPrefix(s, t)
    BY <2>1, <2>2, <2>3 DEF IsPrefix
  <2> QED
    BY <2>1, <2>4 DEF t, g
<1>7. ended => returned = IdRange(1, g)
  <2> SUFFICES ASSUME ended PROVE returned = IdRange(1, g)
    OBVIOUS
  <2>1. b + p = g
    BY <1>2, <1>4
  <2> QED
    BY <1>4, <2>1
<1> QED
  BY <1>6, <1>7

\* At first there is no reader.
LEMMA PipeStarts == PipeInit => PipeInv
  BY TransformStarts, ObjAssumption DEF PipeInit, PipeInv, ReaderOK

\* Neither a stream nor the reader breaks the invariant.
LEMMA PipeSteps == PipeInv /\ [PipeNext]_pipeVars => PipeInv'
<1> SUFFICES ASSUME TransformInv, ReaderOK, [PipeNext]_pipeVars PROVE TransformInv' /\ ReaderOK'
  BY DEF PipeInv
<1>1. CASE from = 0 /\ TransformNext /\ UNCHANGED reader
  <2>1. TransformInv'
    BY <1>1, TransformSteps
  <2>2. ReaderOK'
    <3>1. /\ from' = 0 /\ consumed' = consumed /\ block' = block /\ position' = position
          /\ returned' = returned /\ ended' = ended
      BY <1>1 DEF reader
    <3> QED
      BY <1>1, <3>1 DEF ReaderOK
  <2> QED
    BY <2>1, <2>2
<1>2. ASSUME NEW d \in Obj, Open(d) PROVE TransformInv' /\ ReaderOK'
  <2>1. UNCHANGED transformVars
    BY <1>2 DEF Open, transformVars, object, stream
  <2> QED
    BY <1>2, <2>1, TransformRests, OpenPreserves
<1>3. ASSUME NEW k \in 1 .. MaxRead, ReadBack(k) PROVE TransformInv' /\ ReaderOK'
  <2>1. UNCHANGED transformVars
    BY <1>3, Zenon DEF ReadBack
  <2> QED
    BY <1>3, <2>1, TransformRests, ReadBackPreserves
<1>4. CASE Underflow
  <2>1. UNCHANGED transformVars
    BY <1>4, Zenon DEF Underflow
  <2> QED
    BY <1>4, <2>1, TransformRests, UnderflowPreserves
<1>5. CASE UNCHANGED pipeVars
  <2>1. UNCHANGED transformVars /\ UNCHANGED reader
    BY <1>5 DEF pipeVars
  <2>2. TransformInv'
    BY <2>1, TransformRests
  <2>3. ReaderOK'
    <3>1. /\ from' = from /\ consumed' = consumed /\ block' = block /\ position' = position
          /\ returned' = returned /\ ended' = ended
      BY <2>1 DEF reader
    <3>2. Reading
      BY <2>1, <3>1, ReadingIs
    <3>3. CASE from = 0
      BY <3>1, <3>3 DEF ReaderOK
    <3>4. CASE from # 0
      <4>1. ASSUME NEW d \in Obj, d = from, ~again[d], ~lost[d], NoPairs(d)
            PROVE  \E b, c \in Nat : ReaderAt(d, b, c)'
        <5>1. PICK b \in Nat, c \in Nat : ReaderAt(d, b, c)
          BY <3>4, <4>1 DEF ReaderOK
        <5>2. After(d, c)' = After(d, c) /\ given'[d] = given[d]
          BY <3>2, AfterSame DEF Reading
        <5>3. ReaderAt(d, b, c)'
          BY <3>1, <5>1, <5>2 DEF ReaderAt, IdRange, Named
        <5> QED
          BY <5>3
      <4>2. from \in Obj
        BY <3>4 DEF ReaderOK
      <4> QED
        BY <3>2, <3>4, <4>1, <4>2, ReaderStep
    <3> QED
      BY <3>3, <3>4
  <2> QED
    BY <2>2, <2>3
<1> QED
  BY <1>1, <1>2, <1>3, <1>4, <1>5 DEF PipeNext

\* The invariant of writers and reader holds in every state, for every value of the constants.
LEMMA PipeAlways == PipeSpec => []PipeInv
<1>1. PipeInit => PipeInv
  BY PipeStarts
<1>2. PipeInv /\ [PipeNext]_pipeVars => PipeInv'
  BY PipeSteps
<1> QED
  BY <1>1, <1>2, PTL DEF PipeSpec

\* A character of a stream that nothing disturbed is below once and as the function makes
\* it, for every buffer size, block size and text, through any writes, moves and destructors.
THEOREM HandedOverOnce == PipeSpec => []EachOnce
<1>1. PipeInv => EachOnce
  BY InvEachOnce DEF PipeInv
<1> QED
  BY <1>1, PipeAlways, PTL

\* Flushes and exceptions repeat characters and lose none; the padding of a cipher stream
\* runs wild only at a block boundary.
THEOREM NothingIsDropped == PipeSpec => []NothingDropped
<1>1. PipeInv => NothingDropped
  BY InvNothingDropped DEF PipeInv
<1> QED
  BY <1>1, PipeAlways, PTL

\* A text comes back as it was given, whichever way its line ends lie over the blocks of
\* either side, and its end is told when all of it was read.
THEOREM TextComesBack == PipeSpec => []RoundTrip
<1>1. PipeInv => RoundTrip
  BY InvRoundTrip
<1> QED
  BY <1>1, PipeAlways, PTL

(***************************************************************************)
(* basic_ibuf                                                              *)
(***************************************************************************)

L == Len(Source)
Memory == [1..L -> Char \cup {Garbage, Hole}]
Block == [1..Size -> Char \cup {Garbage}]

USE SizeAssumption

LEMMA SourceFacts ==
    /\ L \in Nat
    /\ \A i \in 1..L : Source[i] \in Char
BY SourceAssumption DEF L

-------------------------------------------------------------------------------
(* Copying from the source *)

LEMMA CopyMemory ==
    ASSUME NEW g \in Memory, NEW p \in Nat, NEW src, NEW x \in Nat, NEW y \in Nat,
           \A i \in (x + 1)..y : src[i] \in Char \cup {Garbage, Hole}
    PROVE  Copy(g, p, src, x, y) \in Memory
BY SourceFacts DEF Copy, Memory

LEMMA CopyBlock ==
    ASSUME NEW m \in Block, NEW p \in Nat, NEW x \in Nat, NEW y \in Nat, y <= L
    PROVE  Copy(m, p, Source, x, y) \in Block
<1>1. \A i \in (x + 1)..y : Source[i] \in Char
    BY SourceFacts
<1> QED
    BY <1>1 DEF Copy, Block

\* The n characters of src after x are those of the source after t.
Matches(src, x, t, n) == \A i \in 1..n : src[x + i] = Source[t + i]

\* Copying n characters that are those of the source at t is copying from it.
LEMMA CopySame ==
    ASSUME NEW g \in Memory, NEW t \in Nat, NEW src, NEW x \in Nat, NEW n \in Nat,
           NEW y, y = x + n, NEW z, z = t + n,
           Matches(src, x, t, n)
    PROVE  Copy(g, t, src, x, y) = Copy(g, t, Source, t, z)
<1> DEFINE c == Copy(g, t, src, x, y)
           e == Copy(g, t, Source, t, z)
<1>1. c = [i \in 1..L |-> c[i]] /\ e = [i \in 1..L |-> e[i]]
    BY DEF Copy, Memory
<1>2. ASSUME NEW i \in 1..L PROVE c[i] = e[i]
  <2>0. i \in Int /\ L \in Nat
    BY SourceFacts
  <2>1. c[i] = IF t < i /\ i <= t + n THEN src[i - t + x] ELSE g[i]
    BY <2>0 DEF Copy, Memory
  <2>2. e[i] = IF t < i /\ i <= t + n THEN Source[i - t + t] ELSE g[i]
    BY <2>0 DEF Copy, Memory
  <2>3. CASE t < i /\ i <= t + n
    <3>1. i - t \in 1..n /\ i - t + x = x + (i - t) /\ i - t + t = t + (i - t)
      BY <2>0, <2>3
    <3> QED
      BY <2>1, <2>2, <2>3, <3>1 DEF Matches
  <2>4. CASE ~(t < i /\ i <= t + n)
    BY <2>1, <2>2, <2>4
  <2> QED
    BY <2>3, <2>4
<1> HIDE DEF c, e
<1>3. c = e
    BY <1>1, <1>2
<1> QED
    BY <1>3 DEF c, e

\* Two copies from the source, the second where the first ends, are one.
LEMMA CopyTwice ==
    ASSUME NEW g \in Memory, NEW t \in Nat, NEW y \in Nat, NEW z \in Nat,
           t <= y, y <= z
    PROVE  Copy(Copy(g, t, Source, t, y), y, Source, y, z)
             = Copy(g, t, Source, t, z)
<1> DEFINE f == Copy(g, t, Source, t, y)
           c == Copy(f, y, Source, y, z)
           e == Copy(g, t, Source, t, z)
<1>1. c = [i \in 1..L |-> c[i]] /\ e = [i \in 1..L |-> e[i]]
    BY DEF Copy, Memory
<1>2. ASSUME NEW i \in 1..L PROVE c[i] = e[i]
  <2>0. i \in Int /\ L \in Nat
    BY SourceFacts
  <2>1. f[i] = IF t < i /\ i <= y THEN Source[i] ELSE g[i]
    BY <2>0 DEF Copy, Memory
  <2>2. c[i] = IF y < i /\ i <= z THEN Source[i] ELSE f[i]
    BY <2>0 DEF Copy, Memory
  <2>3. e[i] = IF t < i /\ i <= z THEN Source[i] ELSE g[i]
    BY <2>0 DEF Copy, Memory
  <2> HIDE DEF f, c, e
  <2> QED
    BY <2>0, <2>1, <2>2, <2>3
<1> HIDE DEF c, e
<1>3. c = e
    BY <1>1, <1>2
<1> QED
    BY <1>3 DEF c, e

\* The client's memory stays the beginning of the source.
LEMMA CopyPrefix ==
    ASSUME NEW g \in Memory, NEW t \in Nat, NEW z \in 0..L, t <= z,
           \A i \in 1..t : g[i] = Source[i]
    PROVE  \A i \in 1..z : Copy(g, t, Source, t, z)[i] = Source[i]
<1> TAKE i \in 1..z
<1>1. i \in 1..L
    BY SourceFacts
<1>2. Copy(g, t, Source, t, z)[i]
        = IF t < i /\ i <= z THEN Source[i - t + t] ELSE g[i]
    BY <1>1 DEF Copy, Memory
<1> QED
    BY <1>2

\* What a refill leaves in the block.
LEMMA RefilledBlock ==
    ASSUME NEW m \in Block, NEW p \in Nat, NEW k \in 0..Size
    PROVE  \A i \in 1..k : Copy(m, 0, Source, p, p + k)[i] = Source[p + i]
BY DEF Copy, Block

-------------------------------------------------------------------------------
(* The state of the buffer, and what a step does to it *)

DataOK ==
    /\ warm \in BOOLEAN
    /\ mem \in Block
    /\ end \in 0..Size
    /\ curr \in 0..end
    /\ ~warm => end = 0
    /\ at \in 0..L
    /\ got \in Memory
    /\ taken \in 0..L
    /\ taken + Remain <= at

\* The client reads on where it was.
ReadsOn(n) ==
    /\ n \in 0..(L - taken)
    /\ taken' = taken + n
    /\ got' = Copy(got, taken, Source, taken, taken + n)

\* The outcome of a step that moves characters, maybe some to the client.
Good ==
    /\ DataOK'
    /\ InOrder => InOrder' /\ \E n \in 0..(L - taken) : ReadsOn(n)

LEMMA ArrivalsRange ==
    ASSUME NEW p \in 0..L, NEW n \in Nat, NEW k \in Arrivals(p, n)
    PROVE  k \in 0..n /\ p + k \in 0..L /\ (k = 0 <=> p = L)
BY SourceFacts DEF Arrivals, L

\* The client is given the next n characters of the block.
LEMMA DeliverOK ==
    ASSUME DataOK, NEW n \in 0..Remain, Deliver(n)
    PROVE  /\ got' \in Memory
           /\ taken' = taken + n
           /\ taken' \in 0..L
           /\ InOrder => /\ ReadsOn(n)
                         /\ \A i \in 1..taken' : got'[i] = Source[i]
<1>1. /\ n \in Nat /\ curr \in Nat /\ curr + n \in Nat /\ curr + n <= end
      /\ taken \in Nat /\ taken + n <= L /\ end <= Size /\ L \in Nat
      /\ n <= Remain /\ Remain \in Nat /\ got \in Memory
      /\ taken' = taken + n
      /\ got' = Copy(got, taken, mem, curr, curr + n)
    BY SourceFacts DEF DataOK, Deliver, Remain
<1>2. \A i \in (curr + 1)..(curr + n) : mem[i] \in Char \cup {Garbage, Hole}
    BY <1>1 DEF DataOK, Block
<1>3. got' \in Memory
    BY <1>1, <1>2, CopyMemory DEF DataOK
<1>4. ASSUME InOrder
      PROVE  ReadsOn(n) /\ \A i \in 1..taken' : got'[i] = Source[i]
  <2>1. Matches(mem, curr, taken, n)
    BY <1>1, <1>4 DEF InOrder, Matches
  <2>2. got' = Copy(got, taken, Source, taken, taken + n)
    BY <1>1, <2>1, CopySame
  <2>3. \A i \in 1..(taken + n) : got'[i] = Source[i]
    BY <1>1, <1>4, <2>2, CopyPrefix DEF InOrder
  <2>4. n \in 0..(L - taken)
    BY <1>1
  <2> QED
    BY <1>1, <2>2, <2>3, <2>4 DEF ReadsOn
<1> QED
    BY <1>1, <1>3, <1>4

\* The buffer after underflow, whatever the client was given before it.
LEMMA RefillOK ==
    ASSUME DataOK, NEW k, Refill(k)
    PROVE  /\ warm' \in BOOLEAN /\ warm' = TRUE
           /\ mem' \in Block
           /\ end' = k /\ curr' = 0 /\ k \in 0..Size
           /\ at' = at + k /\ at' \in 0..L
           /\ k = 0 <=> at = L
           /\ \A i \in 1..k : mem'[i] = Source[at + i]
<1>1. /\ k \in 0..Size /\ at + k \in 0..L /\ (k = 0 <=> at = L)
      /\ at \in Nat /\ at + k \in Nat /\ k \in Nat /\ at + k <= L /\ L \in Nat
    BY SourceFacts, ArrivalsRange DEF DataOK, Refill
<1>2. mem' = Copy(mem, 0, Source, at, at + k)
    BY DEF Refill
<1>3. mem' \in Block
    BY <1>1, <1>2, CopyBlock DEF DataOK
<1>4. \A i \in 1..k : mem'[i] = Source[at + i]
    BY <1>1, <1>2, RefilledBlock DEF DataOK
<1> QED
    BY <1>1, <1>3, <1>4 DEF Refill

\* The rest of the block goes to the client and the block is filled again.
LEMMA DrainRefillOK ==
    ASSUME DataOK, Deliver(Remain), NEW k, Refill(k)
    PROVE  Good /\ (InOrder /\ k = 0 => taken' = L)
<1>1. /\ Remain \in Nat /\ Remain \in 0..Remain /\ taken \in Nat /\ at \in Nat
      /\ L \in Nat
    BY SourceFacts DEF DataOK, Remain
<1>2. /\ got' \in Memory /\ taken' = taken + Remain /\ taken' \in 0..L
      /\ InOrder => /\ ReadsOn(Remain)
                    /\ \A i \in 1..taken' : got'[i] = Source[i]
    BY <1>1, DeliverOK
<1>3. /\ warm' \in BOOLEAN /\ warm' = TRUE
      /\ mem' \in Block
      /\ end' = k /\ curr' = 0 /\ k \in 0..Size
      /\ at' = at + k /\ at' \in 0..L
      /\ k = 0 <=> at = L
      /\ \A i \in 1..k : mem'[i] = Source[at + i]
    BY RefillOK
<1>4. Remain' = k
    BY <1>3 DEF Remain
<1>5. DataOK'
  <2>1. taken' + k <= at'
    BY <1>1, <1>2, <1>3 DEF DataOK
  <2> QED
    BY <1>2, <1>3, <1>4, <2>1 DEF DataOK
<1>6. ASSUME InOrder
      PROVE  InOrder' /\ (\E n \in 0..(L - taken) : ReadsOn(n)) /\ (k = 0 => taken' = L)
  <2>1. taken' = at
    BY <1>1, <1>2, <1>6 DEF InOrder
  <2>2. taken' = at' - Remain'
    BY <1>1, <1>3, <1>4, <2>1
  <2>3. \A i \in 1..Remain' : mem'[curr' + i] = Source[taken' + i]
    BY <1>3, <1>4, <2>1
  <2>4. InOrder'
    BY <1>2, <1>6, <2>2, <2>3 DEF InOrder
  <2>5. Remain \in 0..(L - taken)
    BY <1>1, <1>2
  <2> QED
    BY <1>2, <1>3, <1>6, <2>1, <2>4, <2>5
<1> QED
    BY <1>5, <1>6 DEF Good

\* The same for a client that was given part of the block, and no refill.
LEMMA DeliverInPlaceOK ==
    ASSUME DataOK, NEW n \in 0..Remain, Deliver(n), curr' = curr + n,
           UNCHANGED <<mem, end, at>>, warm' = warm \/ warm' = TRUE
    PROVE  Good
<1>1. /\ n \in Nat /\ curr \in Nat /\ end \in Nat /\ taken \in Nat
      /\ Remain = end - curr /\ Remain \in Nat /\ at \in Nat /\ L \in Nat
    BY SourceFacts DEF DataOK, Remain
<1>2. /\ got' \in Memory /\ taken' = taken + n /\ taken' \in 0..L
      /\ InOrder => /\ ReadsOn(n)
                    /\ \A i \in 1..taken' : got'[i] = Source[i]
    BY DeliverOK
<1>3. Remain' = Remain - n
    BY <1>1 DEF Remain
<1>4. DataOK'
  <2>1. warm' \in BOOLEAN /\ (~warm' => end' = 0)
    BY DEF DataOK
  <2>2. curr' \in 0..end'
    BY <1>1
  <2>3. taken' + Remain' <= at'
    BY <1>1, <1>2, <1>3 DEF DataOK
  <2> QED
    BY <1>2, <2>1, <2>2, <2>3 DEF DataOK
<1>5. ASSUME InOrder
      PROVE  InOrder' /\ \E m \in 0..(L - taken) : ReadsOn(m)
  <2>1. taken' = at' - Remain'
    BY <1>1, <1>2, <1>3, <1>5 DEF InOrder
  <2>2. ASSUME NEW i \in 1..Remain' PROVE mem'[curr' + i] = Source[taken' + i]
    <3>1. n + i \in 1..Remain /\ curr' + i = curr + (n + i)
          /\ taken' + i = taken + (n + i)
      BY <1>1, <1>2, <1>3
    <3> QED
      BY <1>5, <3>1 DEF InOrder
  <2>3. InOrder'
    BY <1>2, <1>5, <2>1, <2>2 DEF InOrder
  <2>4. n \in 0..(L - taken)
    BY <1>1, <1>2
  <2> QED
    BY <1>2, <1>5, <2>3, <2>4
<1> QED
    BY <1>4, <1>5 DEF Good

-------------------------------------------------------------------------------
(* The branches of ibuf_read *)

\* The rest of the block goes to the client, and m characters of src after it.
LEMMA DeliverBothOK ==
    ASSUME DataOK, NEW src, NEW x \in Nat, NEW m \in Nat, NEW y, y = x + m,
           taken + Remain + m <= L,
           \A i \in (x + 1)..y : src[i] \in Char \cup {Garbage, Hole},
           got' = Copy(Copy(got, taken, mem, curr, end), taken + Remain, src, x, y),
           taken' = taken + Remain + m
    PROVE  /\ got' \in Memory
           /\ taken' \in 0..L
           /\ InOrder /\ Matches(src, x, at, m)
                => /\ ReadsOn(Remain + m)
                   /\ \A i \in 1..taken' : got'[i] = Source[i]
<1> DEFINE g == Copy(got, taken, mem, curr, end)
           b == taken + Remain
           z == taken + Remain + m
<1>1. /\ Remain \in Nat /\ taken \in Nat /\ b \in Nat /\ L \in Nat /\ curr \in Nat
      /\ end \in Nat /\ end <= Size /\ got \in Memory /\ at \in Nat
      /\ end = curr + Remain /\ y \in Nat
    BY SourceFacts DEF DataOK, Remain
<1>2. \A i \in (curr + 1)..end : mem[i] \in Char \cup {Garbage, Hole}
    BY <1>1 DEF DataOK, Block
<1>3. g \in Memory
    BY <1>1, <1>2, CopyMemory
<1>4. /\ got' = Copy(g, b, src, x, y) /\ b = taken + Remain /\ taken <= b
      /\ taken' = z /\ z = b + m /\ b <= z /\ z \in 0..L /\ z \in Nat
    BY <1>1
<1> HIDE DEF g, b, z
<1>5. got' \in Memory
  <2>1. Copy(g, b, src, x, y) \in Memory
    BY <1>1, <1>3, CopyMemory
  <2> QED
    BY <1>4, <2>1
<1>6. ASSUME InOrder, Matches(src, x, at, m)
      PROVE  ReadsOn(Remain + m) /\ \A i \in 1..taken' : got'[i] = Source[i]
  <2>1. b = at
    BY <1>1, <1>4, <1>6 DEF InOrder
  <2>2. Matches(mem, curr, taken, Remain)
    BY <1>6 DEF InOrder, Matches
  <2>3. g = Copy(got, taken, Source, taken, b)
    BY <1>1, <1>4, <2>2, CopySame DEF g
  <2>4. got' = Copy(g, b, Source, b, z)
    BY <1>1, <1>3, <1>4, <1>6, <2>1, CopySame
  <2>5. got' = Copy(got, taken, Source, taken, z)
    BY <1>1, <1>4, <2>3, <2>4, CopyTwice
  <2>6. \A i \in 1..z : got'[i] = Source[i]
    BY <1>1, <1>4, <1>6, <2>5, CopyPrefix DEF InOrder
  <2>7. Remain + m \in 0..(L - taken) /\ z = taken + (Remain + m)
    BY <1>1, <1>4
  <2> QED
    BY <1>4, <2>5, <2>6, <2>7 DEF ReadsOn
<1> QED
    BY <1>4, <1>5, <1>6

\* What a call of ibuf_read for n characters that does not throw comes to.
Moved(n) ==
    /\ Good
    /\ gap' = gap
    /\ taken' \in taken..(taken + n)
    /\ InOrder /\ taken' = taken => taken = L

LEMMA FromBlockOK ==
    ASSUME DataOK, NEW n \in Nat \ {0}, FromBlock(n)
    PROVE  Moved(n)
<1>1. n \in 0..Remain /\ n # 0 /\ taken \in Nat /\ Remain \in Nat
    BY SourceFacts DEF FromBlock, DataOK, Remain
<1>2. Good
    BY <1>1, DeliverInPlaceOK DEF FromBlock
<1>3. taken' = taken + n
    BY DEF FromBlock, Deliver
<1> QED
    BY <1>1, <1>2, <1>3 DEF Moved, FromBlock

LEMMA StraightOK ==
    ASSUME DataOK, NEW n \in Nat \ {0}, NEW k, Straight(n, k)
    PROVE  Moved(n)
<1>1. /\ k \in 0..n /\ at + k \in 0..L /\ (k = 0 <=> at = L)
      /\ at \in Nat /\ k \in Nat /\ at + k \in Nat /\ taken \in Nat /\ L \in Nat
      /\ end = 0 /\ curr = 0 /\ Remain = 0 /\ taken <= at /\ at + k <= L
      /\ taken + k <= L /\ got \in Memory
    BY SourceFacts, ArrivalsRange DEF DataOK, Straight, Remain
<1>2. \A i \in (at + 1)..(at + k) : Source[i] \in Char \cup {Garbage, Hole}
    BY <1>1, SourceFacts
<1>3. got' \in Memory
    BY <1>1, <1>2, CopyMemory DEF Straight
<1>4. Remain' = 0 /\ taken' = taken + k /\ at' = at + k
    BY <1>1 DEF Remain, Straight
<1>5. DataOK'
    BY <1>1, <1>3, <1>4 DEF DataOK, Straight
<1>6. ASSUME InOrder
      PROVE  InOrder' /\ (\E m \in 0..(L - taken) : ReadsOn(m))
             /\ (taken' = taken => taken = L)
  <2>1. taken = at
    BY <1>1, <1>6 DEF InOrder
  <2>2. got' = Copy(got, taken, Source, taken, taken + k)
    BY <2>1 DEF Straight
  <2>3. \A i \in 1..(taken + k) : got'[i] = Source[i]
    BY <1>1, <1>6, <2>2, CopyPrefix DEF InOrder
  <2>4. k \in 0..(L - taken)
    BY <1>1
  <2>5. taken' = at' - Remain'
    BY <1>1, <1>4, <2>1
  <2>6. InOrder'
    BY <1>4, <2>3, <2>5 DEF InOrder
  <2>7. taken' = taken => taken = L
    BY <1>1, <1>4, <2>1
  <2> QED
    BY <1>4, <2>2, <2>4, <2>6, <2>7 DEF ReadsOn
<1>7. gap' = gap
    BY DEF Straight
<1>8. taken' \in taken..(taken + n)
    BY <1>1, <1>4
<1> QED
    BY <1>5, <1>6, <1>7, <1>8 DEF Moved, Good

LEMMA PatchedOK ==
    ASSUME DataOK, NEW n \in Nat \ {0}, NEW k, Patched(n, k)
    PROVE  Moved(n)
<1> DEFINE m == IF k < n - Remain THEN k ELSE n - Remain
<1>1. /\ k \in 0..Size /\ at + k \in 0..L /\ (k = 0 <=> at = L)
      /\ at \in Nat /\ k \in Nat /\ at + k \in Nat /\ taken \in Nat /\ L \in Nat
      /\ Remain \in Nat /\ taken + Remain <= at /\ at + k <= L
      /\ Remain < n /\ mem \in Block
    BY SourceFacts, ArrivalsRange DEF DataOK, Patched, Remain
<1>2. /\ m \in Nat /\ m <= k /\ m <= n - Remain /\ (m = 0 <=> k = 0)
      /\ taken + Remain + m <= L /\ m = 0 + m /\ 0 \in Nat
    BY <1>1
<1>3. /\ mem' = Copy(mem, 0, Source, at, at + k)
      /\ got' = Copy(Copy(got, taken, mem, curr, end), taken + Remain, mem', 0, m)
      /\ taken' = taken + Remain + m
      /\ curr' = m /\ end' = k /\ at' = at + k /\ warm' = TRUE /\ gap' = gap
    BY DEF Patched
<1>4. mem' \in Block
    BY <1>1, <1>3, CopyBlock
<1>5. \A i \in 1..k : mem'[i] = Source[at + i]
    BY <1>1, <1>3, RefilledBlock
<1> HIDE DEF m
<1>6. \A i \in (0 + 1)..m : mem'[i] \in Char \cup {Garbage, Hole}
    BY <1>1, <1>2, <1>4 DEF Block
<1>7. Matches(mem', 0, at, m)
    BY <1>1, <1>2, <1>5 DEF Matches
<1>8. /\ got' \in Memory
      /\ taken' \in 0..L
      /\ InOrder => /\ ReadsOn(Remain + m)
                    /\ \A i \in 1..taken' : got'[i] = Source[i]
    BY <1>2, <1>3, <1>6, <1>7, DeliverBothOK
<1>9. Remain' = k - m
    BY <1>3 DEF Remain
<1>10. DataOK'
  <2>1. curr' \in 0..end' /\ end' \in 0..Size /\ at' \in 0..L
        /\ taken' + Remain' <= at'
    BY <1>1, <1>2, <1>3, <1>9
  <2> QED
    BY <1>3, <1>4, <1>8, <2>1 DEF DataOK
<1>11. ASSUME InOrder
       PROVE  InOrder' /\ (\E j \in 0..(L - taken) : ReadsOn(j))
              /\ (taken' = taken => taken = L)
  <2>1. taken + Remain = at
    BY <1>1, <1>11 DEF InOrder
  <2>2. taken' = at' - Remain'
    BY <1>1, <1>2, <1>3, <1>9, <2>1
  <2>3. ASSUME NEW i \in 1..Remain' PROVE mem'[curr' + i] = Source[taken' + i]
    <3>1. m + i \in 1..k /\ curr' + i = m + i /\ taken' + i = at + (m + i)
      BY <1>1, <1>2, <1>3, <1>9, <2>1
    <3> QED
      BY <1>5, <3>1
  <2>4. InOrder'
    BY <1>8, <1>11, <2>2, <2>3 DEF InOrder
  <2>5. Remain + m \in 0..(L - taken)
    BY <1>1, <1>2
  <2>6. taken' = taken => taken = L
    BY <1>1, <1>2, <1>3, <2>1
  <2> QED
    BY <1>8, <1>11, <2>4, <2>5, <2>6
<1>12. taken' \in taken..(taken + n)
    BY <1>1, <1>2, <1>3
<1> QED
    BY <1>3, <1>10, <1>11, <1>12 DEF Moved, Good

LEMMA ShortOK ==
    ASSUME DataOK, NEW n \in Nat \ {0}, NEW k, Short(n, k)
    PROVE  Moved(n)
<1>1. /\ Remain \in Nat /\ Remain < n /\ n - Remain \in Nat /\ at \in 0..L
    BY SourceFacts DEF DataOK, Short, Remain
<1>2. /\ k \in 0..(n - Remain) /\ at + k \in 0..L /\ (k = 0 <=> at = L)
    BY <1>1, ArrivalsRange DEF Short
<1>3. /\ at \in Nat /\ k \in Nat /\ at + k \in Nat /\ taken \in Nat /\ L \in Nat
      /\ taken + Remain <= at /\ at + k <= L /\ taken + Remain + k <= L
    BY <1>1, <1>2, SourceFacts DEF DataOK
<1>4. /\ got' = Copy(Copy(got, taken, mem, curr, end),
                     taken + Remain, Source, at, at + k)
      /\ taken' = taken + Remain + k
      /\ curr' = 0 /\ end' = 0 /\ at' = at + k /\ gap' = gap
      /\ warm' = warm /\ mem' = mem
    BY DEF Short
<1>5. \A i \in (at + 1)..(at + k) : Source[i] \in Char \cup {Garbage, Hole}
    BY <1>3, SourceFacts
<1>6. Matches(Source, at, at, k)
    BY DEF Matches
<1>7. /\ got' \in Memory
      /\ taken' \in 0..L
      /\ InOrder => /\ ReadsOn(Remain + k)
                    /\ \A i \in 1..taken' : got'[i] = Source[i]
    BY <1>3, <1>4, <1>5, <1>6, DeliverBothOK
<1>8. Remain' = 0
    BY <1>4 DEF Remain
<1>9. DataOK'
  <2>1. curr' \in 0..end' /\ end' \in 0..Size /\ at' \in 0..L
        /\ taken' + Remain' <= at'
    BY <1>1, <1>2, <1>3, <1>4, <1>8
  <2> QED
    BY <1>4, <1>7, <2>1 DEF DataOK
<1>10. ASSUME InOrder
       PROVE  InOrder' /\ (\E j \in 0..(L - taken) : ReadsOn(j))
              /\ (taken' = taken => taken = L)
  <2>1. taken + Remain = at
    BY <1>1, <1>3, <1>10 DEF InOrder
  <2>2. taken' = at' - Remain'
    BY <1>1, <1>3, <1>4, <1>8, <2>1
  <2>3. InOrder'
    BY <1>7, <1>8, <1>10, <2>2 DEF InOrder
  <2>4. Remain + k \in 0..(L - taken)
    BY <1>1, <1>3
  <2>5. taken' = taken => taken = L
    BY <1>1, <1>2, <1>3, <1>4, <2>1
  <2> QED
    BY <1>7, <1>10, <2>3, <2>4, <2>5
<1>11. taken' \in taken..(taken + n)
    BY <1>1, <1>2, <1>3, <1>4
<1> QED
    BY <1>4, <1>9, <1>10, <1>11 DEF Moved, Good

LEMMA AmpleOK ==
    ASSUME DataOK, NEW n \in Nat \ {0}, NEW j, Ample(n, j)
    PROVE  Moved(n)
<1> DEFINE k == n - Remain
<1>1. /\ Remain \in Nat /\ Remain < n /\ k \in Nat /\ at \in 0..L /\ k > 0
    BY SourceFacts DEF DataOK, Ample, Remain
<1>2. at + k \in 0..L
    BY <1>1, ArrivalsRange DEF Ample
<1>3. /\ j \in 0..Size /\ at + k + j \in 0..L
    BY <1>1, <1>2, ArrivalsRange DEF Ample
<1>4. /\ at \in Nat /\ k \in Nat /\ at + k \in Nat /\ taken \in Nat /\ L \in Nat
      /\ taken + Remain <= at /\ at + k <= L /\ taken + Remain + k <= L
      /\ taken + Remain + k = taken + n /\ j \in Nat /\ at + k + j <= L
      /\ at + k + j \in Nat
    BY <1>1, <1>2, <1>3, SourceFacts DEF DataOK
<1>5. /\ got' = Copy(Copy(got, taken, mem, curr, end),
                     taken + Remain, Source, at, at + k)
      /\ taken' = taken + n
      /\ curr' = 0 /\ end' = j /\ at' = at + k + j /\ gap' = gap
      /\ warm' = warm /\ warm = TRUE
      /\ mem' = Copy(mem, 0, Source, at + k, at + k + j)
    BY DEF Ample, DataOK
<1> HIDE DEF k
<1>6. \A i \in (at + 1)..(at + k) : Source[i] \in Char \cup {Garbage, Hole}
    BY <1>4, SourceFacts
<1>7. Matches(Source, at, at, k)
    BY DEF Matches
<1>8. /\ got' \in Memory
      /\ taken' \in 0..L
      /\ InOrder => /\ ReadsOn(Remain + k)
                    /\ \A i \in 1..taken' : got'[i] = Source[i]
    BY <1>4, <1>5, <1>6, <1>7, DeliverBothOK
<1>9. mem' \in Block
    BY <1>4, <1>5, CopyBlock DEF DataOK
<1>10. \A i \in 1..j : mem'[i] = Source[at + k + i]
    BY <1>3, <1>4, <1>5, RefilledBlock DEF DataOK
<1>11. Remain' = j
    BY <1>3, <1>5 DEF Remain
<1>12. DataOK'
  <2>1. curr' \in 0..end' /\ end' \in 0..Size /\ at' \in 0..L
        /\ taken' + Remain' <= at'
    BY <1>1, <1>2, <1>3, <1>4, <1>5, <1>11
  <2> QED
    BY <1>5, <1>8, <1>9, <2>1 DEF DataOK
<1>13. ASSUME InOrder
       PROVE  InOrder' /\ (\E i \in 0..(L - taken) : ReadsOn(i))
  <2>1. taken + Remain = at
    BY <1>1, <1>4, <1>13 DEF InOrder
  <2>2. taken' = at' - Remain' /\ taken' = at + k
    BY <1>1, <1>4, <1>5, <1>11, <2>1
  <2>3. InOrder'
    BY <1>5, <1>8, <1>10, <1>11, <1>13, <2>2 DEF InOrder
  <2>4. Remain + k \in 0..(L - taken)
    BY <1>1, <1>4
  <2> QED
    BY <1>8, <1>13, <2>3, <2>4
<1>14. taken' \in taken..(taken + n) /\ taken' # taken
    BY <1>1, <1>4, <1>5
<1> QED
    BY <1>5, <1>12, <1>13, <1>14 DEF Moved, Good

LEMMA ReadSomeOK ==
    ASSUME DataOK, NEW n \in Nat \ {0}, ReadSome(n)
    PROVE  Moved(n)
BY FromBlockOK, StraightOK, PatchedOK, ShortOK, AmpleOK DEF ReadSome

-------------------------------------------------------------------------------
(* The invariant, action by action *)

CallOK ==
    /\ call \in Calls
    /\ call = Iterate => curr < end
    /\ told \in BOOLEAN
    /\ gap \in BOOLEAN

\* The inductive invariant: after a gap, the client still has no more than the
\* device gave and the block does not hold.
IInv ==
    /\ DataOK
    /\ CallOK
    /\ ~gap => InOrder

\* The part of a step that the client sees.
Heard ==
    /\ gap => gap'
    /\ ~gap' => \E n \in 0..(L - taken) : ReadsOn(n) /\ (told' => taken' = L)

StepOK == IInv' /\ Heard

\* A step that is a move of characters, and whose telling of the end is true.
LEMMA GoodStep ==
    ASSUME IInv, Good, gap' = gap, CallOK',
           InOrder => (told' => taken' = L)
    PROVE  StepOK
BY DEF StepOK, IInv, Heard, Good

LEMMA CopyNothing ==
    ASSUME NEW g \in Memory, NEW t \in Nat, NEW src, NEW x \in Nat
    PROVE  Copy(g, t, src, x, x) = g
<1> DEFINE c == Copy(g, t, src, x, x)
<1>1. c = [i \in 1..L |-> c[i]] /\ g = [i \in 1..L |-> g[i]]
    BY DEF Copy, Memory
<1>2. ASSUME NEW i \in 1..L PROVE c[i] = g[i]
    BY SourceFacts DEF Copy, Memory
<1> HIDE DEF c
<1>3. c = g
    BY <1>1, <1>2
<1> QED
    BY <1>3 DEF c

LEMMA KeepDelivers ==
    ASSUME DataOK, Keep
    PROVE  Deliver(0)
<1>1. got \in Memory /\ taken \in Nat /\ curr \in Nat /\ curr + 0 = curr
      /\ taken + 0 = taken
    BY SourceFacts DEF DataOK
<1>2. Copy(got, taken, mem, curr, curr) = got
    BY <1>1, CopyNothing
<1> QED
    BY <1>1, <1>2 DEF Deliver, Keep

\* A step that leaves characters and block alone.
LEMMA QuietOK ==
    ASSUME DataOK, Keep, UNCHANGED <<mem, curr, end, at>>,
           warm' = warm \/ warm' = TRUE
    PROVE  Good
<1>1. Deliver(0)
    BY KeepDelivers
<1>2. 0 \in 0..Remain /\ curr' = curr + 0
    BY DEF DataOK, Remain
<1> QED
    BY <1>1, <1>2, DeliverInPlaceOK

LEMMA ReadThrowsOK ==
    ASSUME IInv, NEW n \in Nat \ {0}, ReadThrows(n), CallOK', told' = FALSE
    PROVE  StepOK
<1>1. CASE UNCHANGED <<at, gap>>
  <2>1. warm' = warm \/ warm' = TRUE
    <3>1. warm' = (warm \/ n < Size)
      BY DEF ReadThrows
    <3>2. warm = TRUE \/ warm = FALSE
      BY DEF IInv, DataOK
    <3>3. CASE n < Size
      BY <3>1, <3>3, Zenon
    <3>4. CASE ~(n < Size)
      BY <3>1, <3>2, <3>4, Zenon
    <3> QED
      BY <3>3, <3>4
  <2>2. Good
    BY <1>1, <2>1, QuietOK DEF IInv, ReadThrows
  <2> QED
    BY <1>1, <2>2, GoodStep
<1>2. CASE /\ warm
           /\ Remain + Size < n
           /\ n - Remain \in Arrivals(at, n - Remain)
           /\ at' = at + (n - Remain)
           /\ gap' = TRUE
  <2>1. /\ Remain \in Nat /\ n - Remain \in Nat /\ at \in 0..L /\ L \in Nat
    BY <1>2, SourceFacts DEF DataOK, IInv, Remain
  <2>2. at' \in 0..L
    BY <1>2, <2>1, ArrivalsRange
  <2>3. warm' \in BOOLEAN
    BY DEF ReadThrows
  <2>4. warm' = TRUE
    BY <1>2, Zenon DEF ReadThrows
  <2>5. Remain' = Remain
    BY DEF Remain, ReadThrows
  <2>6. DataOK'
    <3>1. UNCHANGED <<mem, curr, end, got, taken>>
      BY DEF ReadThrows, Keep
    <3>2. taken' + Remain' <= at'
      BY <1>2, <2>1, <2>5, <3>1 DEF IInv, DataOK
    <3> QED
      BY <2>2, <2>4, <3>1, <3>2 DEF IInv, DataOK
  <2> QED
    BY <1>2, <2>6 DEF StepOK, IInv, Heard
<1> QED
    BY <1>1, <1>2 DEF ReadThrows

LEMMA ReadOK ==
    ASSUME IInv, NEW n \in Nat \ {0}, Read(n)
    PROVE  StepOK
<1>1. call = Idle /\ call' = Idle /\ Idle # Iterate /\ Idle \in Calls
    BY DEF Read, Idle, Iterate, Calls
<1>2. CASE ReadSome(n) /\ told' = (taken' = taken)
  <2>1. Moved(n)
    BY <1>2, ReadSomeOK DEF IInv
  <2>2. told' \in BOOLEAN
    BY <1>2
  <2>3. CallOK'
    BY <1>1, <2>1, <2>2 DEF CallOK, Moved, IInv
  <2>4. InOrder => (told' => taken' = L)
    BY <1>2, <2>1 DEF Moved
  <2> QED
    BY <2>1, <2>3, <2>4, GoodStep DEF Moved
<1>3. CASE ReadThrows(n) /\ told' = FALSE
  <2>1. gap' \in BOOLEAN
    BY <1>3 DEF ReadThrows, IInv, CallOK
  <2>2. CallOK'
    BY <1>1, <1>3, <2>1 DEF CallOK
  <2> QED
    BY <1>3, <2>2, ReadThrowsOK
<1> QED
    BY <1>2, <1>3 DEF Read

LEMMA Difference ==
    ASSUME NEW a \in Nat, NEW k \in Nat, NEW b \in a..(a + k)
    PROVE  b - a \in 0..k /\ (b - a = 0 => b = a)
OBVIOUS

LEMMA ReadAllStepOK ==
    ASSUME IInv, ReadAllStep
    PROVE  StepOK
<1>1. Idle # Iterate /\ Idle \in Calls
    BY DEF Idle, Iterate, Calls
<1>2. call.left \in Nat \ {0}
  <2>1. call \in Calls /\ call.op = "all"
    BY DEF IInv, CallOK, ReadAllStep
  <2> QED
    BY <2>1 DEF Calls, Idle, Iterate, SkipLine
<1> DEFINE n == taken' - taken
<1>3. CASE /\ ReadSome(call.left)
           /\ IF n \in {0, call.left}
                THEN call' = Idle /\ told' = (n = 0)
                ELSE call' = ReadAll(call.left - n) /\ told' = FALSE
  <2>1. Moved(call.left)
    BY <1>2, <1>3, ReadSomeOK DEF IInv
  <2>2. n \in 0..call.left /\ (n = 0 => taken' = taken)
    <3>1. taken \in Nat
      BY SourceFacts DEF IInv, DataOK
    <3>2. taken' \in taken..(taken + call.left) /\ call.left \in Nat
      BY <1>2, <2>1 DEF Moved
    <3> QED
      BY <3>1, <3>2, Difference
  <2>3. told' \in BOOLEAN /\ (told' => n = 0)
    BY <1>3
  <2>4. call' \in Calls /\ call' # Iterate
    <3>1. CASE n \in {0, call.left}
      BY <1>1, <1>3, <3>1
    <3>2. CASE n \notin {0, call.left}
      <4>1. call.left - n \in Nat \ {0}
        BY <1>2, <2>2, <3>2
      <4> QED
        BY <1>3, <3>2, <4>1 DEF ReadAll, Calls, Iterate
    <3> QED
      BY <3>1, <3>2
  <2>5. CallOK'
    BY <2>1, <2>3, <2>4 DEF CallOK, Moved, IInv
  <2>6. InOrder => (told' => taken' = L)
    BY <2>1, <2>2, <2>3 DEF Moved
  <2> QED
    BY <2>1, <2>5, <2>6, GoodStep DEF Moved
<1>4. CASE ReadThrows(call.left) /\ call' = Idle /\ told' = FALSE
  <2>1. gap' \in BOOLEAN
    BY <1>4 DEF ReadThrows, IInv, CallOK
  <2>2. CallOK'
    BY <1>1, <1>4, <2>1 DEF CallOK
  <2> QED
    BY <1>2, <1>4, <2>2, ReadThrowsOK
<1> QED
    BY <1>3, <1>4 DEF ReadAllStep

\* A step of the client's that moves nothing.
LEMMA NothingMovesOK ==
    ASSUME IInv, UNCHANGED <<bufVars, got, taken, gap>>, told' = FALSE,
           call' \in Calls, call' # Iterate
    PROVE  StepOK
<1>1. Good
    BY QuietOK, Zenon DEF IInv, bufVars, Keep
<1>2. CallOK'
    BY DEF CallOK, IInv
<1> QED
    BY <1>1, <1>2, GoodStep

\* The rest of the block to the client, and a refill that may find the end.
LEMMA NextBlockOK ==
    ASSUME IInv, Deliver(Remain), NEW k, Refill(k), gap' = gap,
           call' \in Calls, call' = Iterate => k # 0, told' = (k = 0)
    PROVE  StepOK
<1>1. Good /\ (InOrder /\ k = 0 => taken' = L)
    BY DrainRefillOK DEF IInv
<1>2. curr' = 0 /\ end' = k /\ k \in 0..Size
    BY RefillOK DEF IInv
<1>3. CallOK'
    BY <1>2 DEF CallOK, IInv
<1>4. InOrder => (told' => taken' = L)
    BY <1>1
<1> QED
    BY <1>1, <1>3, <1>4, GoodStep

\* n characters of the block to the client, which leaves its call.
LEMMA StopOK ==
    ASSUME IInv, NEW n \in 0..Remain, Deliver(n), curr' = curr + n,
           UNCHANGED <<mem, end, at, gap>>, warm' = warm \/ warm' = TRUE,
           call' \in Calls, call' = Iterate => curr' < end', told' = FALSE
    PROVE  StepOK
<1>1. Good
    BY DeliverInPlaceOK DEF IInv
<1>2. CallOK'
    BY DEF CallOK, IInv
<1> QED
    BY <1>1, <1>2, GoodStep

LEMMA CallFacts ==
    /\ {Idle, Iterate, SkipLine} \subseteq Calls
    /\ Idle # Iterate /\ SkipLine # Iterate
    /\ \A stop \in Stops : SkipUntil(stop) \in Calls /\ SkipUntil(stop) # Iterate
    /\ \A n \in Nat \ {0} : ReadAll(n) \in Calls /\ ReadAll(n) # Iterate
    /\ Iterate.op = "iterate"
BY StopsAssumption DEF Calls, Idle, Iterate, SkipLine, SkipUntil, ReadAll

LEMMA IgeneratorOK ==
    ASSUME IInv, Igenerator
    PROVE  StepOK
<1>1. Deliver(0) /\ gap' = gap /\ 0 \in 0..Remain /\ 0 \in Nat
    BY KeepDelivers DEF Igenerator, IInv, DataOK, Remain
<1>2. curr \in Nat /\ end \in Nat /\ curr <= end /\ curr + 0 = curr
    BY DEF IInv, DataOK
<1>3. CASE curr # end /\ call' = Iterate /\ told' = FALSE /\ UNCHANGED bufVars
  <2>1. curr' = curr + 0 /\ UNCHANGED <<mem, end, at, gap>> /\ warm' = warm
    BY <1>1, <1>2, <1>3 DEF bufVars
  <2>2. curr' < end'
    BY <1>2, <1>3 DEF bufVars
  <2> QED
    BY <1>1, <1>3, <2>1, <2>2, StopOK, CallFacts
<1>4. ASSUME curr = end, NEW k \in 0..Size, Refill(k),
             call' = IF k = 0 THEN Idle ELSE Iterate, told' = (k = 0)
      PROVE  StepOK
  <2>1. Deliver(Remain)
    BY <1>1, <1>2, <1>4 DEF Remain
  <2> QED
    BY <1>1, <1>4, <2>1, NextBlockOK, CallFacts
<1>5. CASE curr = end /\ RefillThrows(curr) /\ told' = FALSE /\ UNCHANGED call
  <2>1. curr' = curr + 0 /\ UNCHANGED <<mem, end, at, gap>> /\ warm' = TRUE
    BY <1>1, <1>2, <1>5 DEF RefillThrows
  <2>2. call' \in Calls /\ call' # Iterate
    BY <1>5, CallFacts DEF Igenerator
  <2> QED
    BY <1>1, <1>5, <2>1, <2>2, StopOK
<1> QED
    BY <1>3, <1>4, <1>5 DEF Igenerator

LEMMA IncrementOK ==
    ASSUME IInv, Increment
    PROVE  StepOK
<1>1. Deliver(1) /\ gap' = gap /\ call = Iterate
    BY DEF Increment
<1>2. curr \in Nat /\ end \in Nat /\ curr < end /\ Remain \in Nat /\ 1 \in 0..Remain
    BY <1>1 DEF IInv, DataOK, CallOK, Remain
<1>3. CASE /\ curr + 1 # end
           /\ curr' = curr + 1
           /\ told' = FALSE
           /\ UNCHANGED <<warm, mem, end, at, call>>
  <2>1. curr' < end'
    BY <1>2, <1>3
  <2> QED
    BY <1>1, <1>2, <1>3, <2>1, StopOK, CallFacts
<1>4. ASSUME curr + 1 = end, NEW k \in 0..Size, Refill(k),
             call' = IF k = 0 THEN Idle ELSE Iterate, told' = (k = 0)
      PROVE  StepOK
  <2>1. Deliver(Remain)
    BY <1>1, <1>2, <1>4 DEF Remain
  <2> QED
    BY <1>1, <1>4, <2>1, NextBlockOK, CallFacts
<1>5. CASE curr + 1 = end /\ RefillThrows(end) /\ call' = Idle /\ told' = FALSE
  <2>1. curr' = curr + 1 /\ UNCHANGED <<mem, end, at, gap>> /\ warm' = TRUE
    BY <1>1, <1>5 DEF RefillThrows
  <2> QED
    BY <1>1, <1>2, <1>5, <2>1, StopOK, CallFacts
<1> QED
    BY <1>3, <1>4, <1>5 DEF Increment

LEMMA SkipUntilStepOK ==
    ASSUME IInv, SkipUntilStep
    PROVE  StepOK
<1>1. gap' = gap /\ call \in Calls /\ call # Iterate
    BY CallFacts DEF SkipUntilStep, IInv, CallOK
<1>2. PICK n \in 0..Remain :
        /\ Deliver(n)
        /\ \/ /\ curr + n < end
              /\ curr' = curr + n
              /\ call' = Idle
              /\ told' = FALSE
              /\ UNCHANGED <<warm, mem, end, at>>
           \/ /\ curr + n = end
              /\ \E k \in 0..Size :
                    /\ Refill(k)
                    /\ call' = IF k = 0 THEN Idle ELSE call
                    /\ told' = (k = 0)
           \/ /\ curr + n = end
              /\ RefillThrows(end)
              /\ call' = Idle
              /\ told' = FALSE
    BY DEF SkipUntilStep
<1>3. CASE /\ curr + n < end
           /\ curr' = curr + n
           /\ call' = Idle
           /\ told' = FALSE
           /\ UNCHANGED <<warm, mem, end, at>>
    BY <1>1, <1>2, <1>3, StopOK, CallFacts
<1>4. ASSUME curr + n = end, NEW k \in 0..Size, Refill(k),
             call' = IF k = 0 THEN Idle ELSE call, told' = (k = 0)
      PROVE  StepOK
  <2>1. n = Remain
    BY <1>4 DEF IInv, DataOK, Remain
  <2>2. call' \in Calls /\ call' # Iterate
    BY <1>1, <1>4, CallFacts
  <2> QED
    BY <1>1, <1>2, <1>4, <2>1, <2>2, NextBlockOK
<1>5. CASE curr + n = end /\ RefillThrows(end) /\ call' = Idle /\ told' = FALSE
  <2>1. curr' = curr + n /\ UNCHANGED <<mem, end, at, gap>> /\ warm' = TRUE
    BY <1>1, <1>5 DEF RefillThrows
  <2> QED
    BY <1>1, <1>2, <1>5, <2>1, StopOK, CallFacts
<1> QED
    BY <1>2, <1>3, <1>4, <1>5

LEMMA SkipLineStepOK ==
    ASSUME IInv, SkipLineStep
    PROVE  StepOK
<1>1. gap' = gap /\ call \in Calls /\ call # Iterate
    BY CallFacts DEF SkipLineStep, IInv, CallOK
<1>2. PICK n \in 0..Remain :
        \/ /\ curr + n < end
           /\ curr' = curr + n + 1
           /\ Deliver(n + 1)
           /\ call' = Idle
           /\ told' = FALSE
           /\ UNCHANGED <<warm, mem, end, at>>
        \/ /\ curr + n = end
           /\ Deliver(n)
           /\ \E k \in 0..Size :
                 /\ Refill(k)
                 /\ call' = IF k = 0 THEN Idle ELSE call
                 /\ told' = (k = 0)
        \/ /\ curr + n = end
           /\ RefillThrows(curr)
           /\ Keep
           /\ call' = Idle
           /\ told' = FALSE
    BY DEF SkipLineStep
<1>3. CASE /\ curr + n < end
           /\ curr' = curr + n + 1
           /\ Deliver(n + 1)
           /\ call' = Idle
           /\ told' = FALSE
           /\ UNCHANGED <<warm, mem, end, at>>
  <2>1. n + 1 \in 0..Remain /\ curr' = curr + (n + 1)
    BY <1>3 DEF IInv, DataOK, Remain
  <2> QED
    BY <1>1, <1>3, <2>1, StopOK, CallFacts
<1>4. ASSUME curr + n = end, Deliver(n), NEW k \in 0..Size, Refill(k),
             call' = IF k = 0 THEN Idle ELSE call, told' = (k = 0)
      PROVE  StepOK
  <2>1. n = Remain
    BY <1>4 DEF IInv, DataOK, Remain
  <2>2. call' \in Calls /\ call' # Iterate
    BY <1>1, <1>4, CallFacts
  <2> QED
    BY <1>1, <1>4, <2>1, <2>2, NextBlockOK
<1>5. CASE /\ curr + n = end /\ RefillThrows(curr) /\ Keep
           /\ call' = Idle /\ told' = FALSE
  <2>1. curr' = curr + 0 /\ UNCHANGED <<mem, end, at, gap>> /\ warm' = TRUE
        /\ 0 \in 0..Remain
    BY <1>1, <1>5 DEF RefillThrows, IInv, DataOK, Remain
  <2>2. Deliver(0)
    BY <1>5, KeepDelivers DEF IInv
  <2> QED
    BY <1>1, <1>5, <2>1, <2>2, StopOK, CallFacts
<1> QED
    BY <1>2, <1>3, <1>4, <1>5

LEMMA NextOK ==
    ASSUME IInv, Next
    PROVE  StepOK
<1>1. ASSUME NEW n \in Requests, Read(n) PROVE StepOK
    BY <1>1, RequestsAssumption, ReadOK
<1>2. ASSUME NEW n \in Requests, BeginReadAll(n) PROVE StepOK
  <2>1. n \in Nat \ {0}
    BY RequestsAssumption
  <2> QED
    BY <1>2, <2>1, NothingMovesOK, CallFacts DEF BeginReadAll
<1>3. CASE Leave
    BY <1>3, NothingMovesOK, CallFacts DEF Leave
<1>4. ASSUME NEW stop \in Stops, BeginSkip(SkipUntil(stop)) PROVE StepOK
    BY <1>4, NothingMovesOK, CallFacts DEF BeginSkip
<1>5. CASE BeginSkip(SkipLine)
    BY <1>5, NothingMovesOK, CallFacts DEF BeginSkip
<1> QED
    BY <1>1, <1>2, <1>3, <1>4, <1>5, ReadAllStepOK, IgeneratorOK, IncrementOK,
       SkipUntilStepOK, SkipLineStepOK DEF Next

-------------------------------------------------------------------------------
(* The theorems *)

LEMMA InitOK == Init => IInv
<1> SUFFICES ASSUME Init PROVE IInv
    OBVIOUS
<1>1. L \in Nat /\ 0 \in Nat
    BY SourceFacts
<1>2. Remain = 0
    BY DEF Init, Remain
<1>3. DataOK
  <2>1. mem \in Block /\ got \in Memory
    BY DEF Init, Block, Memory, L
  <2>2. end \in 0..Size /\ curr \in 0..end
    BY DEF Init
  <2>3. at \in 0..L /\ taken \in 0..L /\ taken + Remain <= at
    BY <1>1, <1>2 DEF Init
  <2> QED
    BY <2>1, <2>2, <2>3 DEF Init, DataOK
<1>4. CallOK
    BY CallFacts DEF Init, CallOK
<1>5. InOrder
    BY <1>2 DEF Init, InOrder
<1> QED
    BY <1>3, <1>4, <1>5 DEF IInv

LEMMA StutterOK ==
    ASSUME IInv, UNCHANGED vars
    PROVE  IInv'
BY DEF IInv, DataOK, CallOK, InOrder, Remain, vars, bufVars, Calls, Block, Memory

\* The inductive invariant holds in every reachable state.
THEOREM Invariance == Spec => []IInv
<1>1. IInv /\ [Next]_vars => IInv'
    BY NextOK, StutterOK DEF StepOK
<1> QED
    BY InitOK, <1>1, PTL DEF Spec

\* The state of a basic_ibuf has its type: curr stays between beg and end, a
\* block that is not allocated holds nothing, an iterator has a character.
THEOREM TypeCorrect == Spec => []TypeOK
<1>1. IInv => TypeOK
    BY DEF IInv, DataOK, CallOK, TypeOK, Block, Memory, L
<1> QED
    BY <1>1, Invariance, PTL

\* What a client read and what the block holds are the source, in order, unless
\* a read threw between its two device reads.
THEOREM BlockFollows == Spec => []BlockFollowsSource
<1>1. IInv => BlockFollowsSource
    BY DEF IInv, BlockFollowsSource
<1> QED
    BY <1>1, Invariance, PTL

\* basic_ibuf implements the promise of an input stream.
THEOREM Refinement == Spec => ImplementsInputStream
<1>1. Init => Promise!StreamInit
    BY DEF Init, Promise!StreamInit, Promise!Blank
<1>2. ASSUME IInv, Next PROVE Promise!StreamNext
  <2>1. StepOK
    BY <1>2, NextOK
  <2>2. CASE gap'
    BY <2>2 DEF Promise!StreamNext, Promise!Break
  <2>3. CASE ~gap'
    <3>1. PICK n \in 0..(L - taken) : ReadsOn(n) /\ (told' => taken' = L)
      BY <2>1, <2>3 DEF StepOK, Heard
    <3>2. ~gap
      BY <2>1, <2>3 DEF StepOK, Heard
    <3>3. Promise!Take(n)
      BY <2>3, <3>1, <3>2 DEF Promise!Take, ReadsOn, L, Promise!Copy, Copy
    <3> QED
      BY <3>1, <3>3 DEF Promise!StreamNext, L
  <2> QED
    BY <2>2, <2>3
<1>3. UNCHANGED vars => UNCHANGED Promise!iVars
    BY DEF vars, Promise!iVars
<1>4. IInv /\ [Next]_vars => [Promise!StreamNext]_Promise!iVars
    BY <1>2, <1>3
<1> QED
    BY <1>1, <1>4, Invariance, PTL DEF Spec, ImplementsInputStream, Promise!StreamSpec
===============================================================================
