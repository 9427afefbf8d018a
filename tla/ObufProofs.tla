------------------------------ MODULE ObufProofs -------------------------------
(***************************************************************************)
(* Proofs about basic_obuf for every block size, character set, bound, set *)
(* of arguments and behaviour of the device.                               *)
(***************************************************************************)
EXTENDS Obuf, TLAPS

LEMMA CopyType ==
    ASSUME NEW N \in Nat, NEW T, NEW dst \in [1..N -> T],
           NEW p \in Nat, NEW src, NEW x \in Nat, NEW y \in Nat,
           \A i \in (x + 1)..y : src[i] \in T
    PROVE  Copy(dst, p, src, x, y) \in [1..N -> T]
BY DEF Copy

LEMMA CopyAt ==
    ASSUME NEW N \in Nat, NEW T, NEW dst \in [1..N -> T],
           NEW p, NEW src, NEW x, NEW y, NEW i \in 1..N
    PROVE  Copy(dst, p, src, x, y)[i] =
             IF p < i /\ i <= p + (y - x) THEN src[i - p + x] ELSE dst[i]
BY DEF Copy

LEMMA RunType ==
    ASSUME NEW ch \in Char, NEW n \in Nat
    PROVE  /\ Run(ch, n) \in [1..n -> Char]
           /\ \A i \in 1..n : Run(ch, n)[i] = ch
BY DEF Run

\* What one device write leaves behind has the right type.
LEMMA DeviceWriteType ==
    ASSUME NEW src, NEW x \in Nat, NEW y \in Nat, x <= y,
           NEW f \in [1..Limit -> Char \cup {Garbage, Hole}], NEW p \in Nat,
           \A i \in (x + 1)..y : src[i] \in Char \cup {Garbage},
           NEW r \in DeviceWrite(f, p, src, x, y)
    PROVE  /\ r.file \in [1..Limit -> Char \cup {Garbage, Hole}]
           /\ r.pos \in Nat
           /\ r.ok \in BOOLEAN
           /\ r.short \in BOOLEAN
           /\ ~r.ok => r.file = f /\ r.pos = p /\ ~r.short
           /\ r.ok /\ ~r.short => /\ r.file = Copy(f, p, src, x, y)
                                  /\ r.pos = p + (y - x)
<1> USE LimitAssumption
<1>1. CASE r = Full(f, p, src, x, y)
      <2>2. p + (y - x) \in Nat
            OBVIOUS
      <2>1. Copy(f, p, src, x, y) \in [1..Limit -> Char \cup {Garbage, Hole}]
            BY CopyType
      <2> QED BY <1>1, <2>1, <2>2 DEF Full
<1>2. CASE r = Thrown(f, p)
      BY <1>2 DEF Thrown
<1>3. CASE \E k \in 0..(y - x - 1) : r = Short(f, p, src, x, y, k)
      <2>1. PICK k \in 0..(y - x - 1) : r = Short(f, p, src, x, y, k)
            BY <1>3
      <2>3. \A i \in (x + 1)..(x + k) : src[i] \in Char \cup {Garbage, Hole}
            OBVIOUS
      <2>4. x + k \in Nat
            OBVIOUS
      <2>2. Copy(f, p, src, x, x + k) \in [1..Limit -> Char \cup {Garbage, Hole}]
            BY <2>3, <2>4, CopyType
      <2> QED BY <2>1, <2>2 DEF Short, Full
<1> QED BY <1>1, <1>2, <1>3 DEF DeviceWrite
-------------------------------------------------------------------------------
(* The argument.  Shows says that the n characters of the block m, laid over *)
(* the file f at offset p, give the file w, and that w's offset is just after*)
(* them.  The three ways in which a call moves characters keep it.           *)

Shows(f, p, m, n, w, wp) ==
    /\ wp = p + n
    /\ \A i \in 1..Limit : w[i] = IF p < i /\ i <= p + n THEN m[i - p] ELSE f[i]

Files == [1..Limit -> Char \cup {Garbage, Hole}]
Blocks == [1..Size -> Char \cup {Garbage}]

LEMMA CopyFile ==
    ASSUME NEW f \in Files, NEW p \in Nat, NEW src, NEW x \in Nat, NEW y \in Nat,
           \A i \in (x + 1)..y : src[i] \in Char \cup {Garbage, Hole}
    PROVE  Copy(f, p, src, x, y) \in Files
BY LimitAssumption, CopyType DEF Files

LEMMA CopyBlock ==
    ASSUME NEW m \in Blocks, NEW p \in Nat, NEW src, NEW x \in Nat, NEW y \in Nat,
           \A i \in (x + 1)..y : src[i] \in Char \cup {Garbage}
    PROVE  Copy(m, p, src, x, y) \in Blocks
BY SizeAssumption, CopyType DEF Blocks

LEMMA ShowsIsContent ==
    ASSUME NEW f \in Files, NEW p \in Nat, NEW m \in Blocks, NEW n \in 0..Size,
           NEW w \in Files, NEW wp \in Nat
    PROVE  Shows(f, p, m, n, w, wp) <=> Copy(f, p, m, 0, n) = w /\ p + n = wp
<1> USE LimitAssumption, SizeAssumption
<1> DEFINE c == Copy(f, p, m, 0, n)
<1>1. \A i \in 1..Limit : c[i] = IF p < i /\ i <= p + n THEN m[i - p] ELSE f[i]
      BY DEF Copy, Files
<1>2. c = [i \in 1..Limit |-> c[i]] /\ w = [i \in 1..Limit |-> w[i]]
      BY DEF Copy, Files
<1> HIDE DEF c
<1>3. c = w <=> \A i \in 1..Limit : c[i] = w[i]
      BY <1>2
<1> QED BY <1>1, <1>3 DEF Shows, c

\* Characters stored after the pending ones are as if written at the offset.
LEMMA StoreShows ==
    ASSUME NEW f \in Files, NEW p \in Nat, NEW m \in Blocks, NEW n \in 0..Size,
           NEW w \in Files, NEW wp \in Nat, Shows(f, p, m, n, w, wp),
           NEW s, NEW x \in Nat, NEW y \in Nat, x <= y, n + (y - x) <= Size
    PROVE  Shows(f, p, Copy(m, n, s, x, y), n + (y - x),
                 Copy(w, wp, s, x, y), wp + (y - x))
<1> USE LimitAssumption, SizeAssumption
<1> DEFINE k == y - x
<1>1. wp = p + n /\ wp + k = p + (n + k)
      BY DEF Shows
<1>2. ASSUME NEW i \in 1..Limit
      PROVE  Copy(w, wp, s, x, y)[i] =
               IF p < i /\ i <= p + (n + k) THEN Copy(m, n, s, x, y)[i - p] ELSE f[i]
      <2>1. CASE p < i /\ i <= p + n
            BY <1>1, <2>1 DEF Copy, Shows, Files, Blocks
      <2>2. CASE p + n < i /\ i <= p + (n + k)
            <3>1. i - p \in 1..Size /\ n < i - p /\ i - p <= n + k
                  BY <2>2
            <3>2. Copy(m, n, s, x, y)[i - p] = s[(i - p) - n + x]
                  BY <3>1 DEF Copy, Blocks
            <3>3. Copy(w, wp, s, x, y)[i] = s[i - wp + x]
                  BY <1>1, <2>2 DEF Copy, Files
            <3>4. (i - p) - n + x = i - wp + x
                  BY <1>1
            <3> QED BY <2>2, <3>2, <3>3, <3>4
      <2>3. CASE ~(p < i /\ i <= p + (n + k))
            BY <1>1, <2>3 DEF Copy, Shows, Files
      <2> QED BY <2>1, <2>2, <2>3
<1> QED BY <1>1, <1>2 DEF Shows

\* Once the device has the pending characters nothing is pending.
LEMMA SpillShows ==
    ASSUME NEW f \in Files, NEW p \in Nat, NEW m \in Blocks, NEW n \in 0..Size,
           NEW w \in Files, NEW wp \in Nat, Shows(f, p, m, n, w, wp), NEW m2
    PROVE  Shows(Copy(f, p, m, 0, n), p + n, m2, 0, w, wp)
<1> USE LimitAssumption, SizeAssumption
<1>1. ASSUME NEW i \in 1..Limit
      PROVE  w[i] = Copy(f, p, m, 0, n)[i]
      BY DEF Shows, Copy, Files
<1> QED BY <1>1 DEF Shows

\* With nothing pending, a text given to the device is as if written.
LEMMA ThroughShows ==
    ASSUME NEW f \in Files, NEW p \in Nat, NEW m, NEW m2,
           NEW w \in Files, NEW wp \in Nat, Shows(f, p, m, 0, w, wp),
           NEW s, NEW x \in Nat, NEW y \in Nat, x <= y
    PROVE  Shows(Copy(f, p, s, x, y), p + (y - x), m2, 0,
                 Copy(w, wp, s, x, y), wp + (y - x))
<1> USE LimitAssumption
<1>1. wp = p
      BY DEF Shows
<1>2. ASSUME NEW i \in 1..Limit
      PROVE  Copy(w, wp, s, x, y)[i] = Copy(f, p, s, x, y)[i]
      BY <1>1 DEF Shows, Copy, Files
<1> QED BY <1>1, <1>2 DEF Shows

\* A text written in two pieces.
LEMMA CopyTwice ==
    ASSUME NEW w \in Files, NEW p \in Nat, NEW s, NEW k \in Nat, NEW n \in Nat, k <= n
    PROVE  Copy(Copy(w, p, s, 0, k), p + k, s, k, n) = Copy(w, p, s, 0, n)
<1> USE LimitAssumption
<1> DEFINE c == Copy(Copy(w, p, s, 0, k), p + k, s, k, n)
           d == Copy(w, p, s, 0, n)
<1>1. c = [i \in 1..Limit |-> c[i]] /\ d = [i \in 1..Limit |-> d[i]]
      BY DEF Copy, Files
<1>2. ASSUME NEW i \in 1..Limit PROVE c[i] = d[i]
      <2>1. CASE p + k < i /\ i <= p + n
            <3>1. i - (p + k) + k = i - p + 0
                  OBVIOUS
            <3> QED BY <2>1, <3>1 DEF Copy, Files
      <2>2. CASE ~(p + k < i /\ i <= p + n)
            BY <2>2 DEF Copy, Files
      <2> QED BY <2>1, <2>2
<1> HIDE DEF c, d
<1>3. c = d
      BY <1>1, <1>2
<1> QED BY <1>3 DEF c, d
LEMMA ExceptIsCopy ==
    ASSUME NEW m \in Blocks, NEW n \in 0..(Size - 1), NEW ch
    PROVE  [m EXCEPT ![n + 1] = ch] = Copy(m, n, <<ch>>, 0, 1)
<1> USE SizeAssumption
<1> DEFINE e == [m EXCEPT ![n + 1] = ch]
           c == Copy(m, n, <<ch>>, 0, 1)
<1>1. e = [i \in 1..Size |-> e[i]] /\ c = [i \in 1..Size |-> c[i]]
      BY DEF Copy, Blocks
<1>2. ASSUME NEW i \in 1..Size PROVE e[i] = c[i]
      <2>1. CASE i = n + 1
            BY <2>1 DEF Copy, Blocks
      <2>2. CASE i # n + 1
            BY <2>2 DEF Copy, Blocks
      <2> QED BY <2>1, <2>2
<1> HIDE DEF e, c
<1>3. e = c
      BY <1>1, <1>2
<1> QED BY <1>3 DEF e, c

LEMMA FirstIsCopy ==
    ASSUME NEW m \in Blocks, NEW ch
    PROVE  [m EXCEPT ![1] = ch] = Copy(m, 0, <<ch>>, 0, 1)
<1>1. 0 \in 0..(Size - 1) /\ 0 + 1 = 1
      BY SizeAssumption
<1>2. [m EXCEPT ![0 + 1] = ch] = Copy(m, 0, <<ch>>, 0, 1)
      BY <1>1, ExceptIsCopy
<1> QED BY <1>1, <1>2

LEMMA TextType ==
    ASSUME NEW s \in Seq(Char)
    PROVE  /\ Len(s) \in Nat
           /\ \A i \in 1..Len(s) : s[i] \in Char
OBVIOUS

-------------------------------------------------------------------------------
(* The inductive invariant *)

\* During the loop of fill_nc_bad_path the whole block is the fill character.
FillInv == filling > 0 => \E ch \in Char : mem = Run(ch, Size)

\* Until something goes wrong the device and the pending characters show what
\* the calls wrote: BufferingIsInvisible, entry by entry.
Faithful == fault = "none" => Shows(file, pos, mem, Pending, want, wpos)

IInv == TypeOK /\ FillInv /\ Faithful

LEMMA FaithfulIsInvisible ==
    ASSUME TypeOK
    PROVE  Faithful <=> BufferingIsInvisible
<1>1. /\ file \in Files /\ pos \in Nat /\ mem \in Blocks /\ Pending \in 0..Size
      /\ want \in Files /\ wpos \in Nat
      BY SizeAssumption DEF TypeOK, Files, Blocks, Pending
<1>2. Shows(file, pos, mem, Pending, want, wpos)
        <=> Copy(file, pos, mem, 0, Pending) = want /\ pos + Pending = wpos
      BY <1>1, ShowsIsContent
<1> QED BY <1>2 DEF Faithful, BufferingIsInvisible, Content, At

LEMMA InitInv == Init => IInv
<1> SUFFICES ASSUME Init PROVE IInv
    OBVIOUS
<1> USE SizeAssumption, LimitAssumption
<1>1. TypeOK
      <2>1. mem \in [1..Size -> Char \cup {Garbage}] /\ curr \in 0..Size
            BY DEF Init, Fresh
      <2>2. /\ file \in [1..Limit -> Char \cup {Garbage, Hole}]
            /\ want \in [1..Limit -> Char \cup {Hole}]
            BY DEF Init
      <2>3. warm \in BOOLEAN /\ open \in BOOLEAN
            BY Zenon DEF Init
      <2> QED BY <2>1, <2>2, <2>3 DEF Init, TypeOK
<1>2. FillInv
      BY DEF Init, FillInv
<1>3. Faithful
      BY DEF Init, Faithful, Shows, Pending
<1> QED BY <1>1, <1>2, <1>3 DEF IInv

\* What TypeOK says in the terms of the lemmas above.
LEMMA TypeFacts ==
    ASSUME TypeOK
    PROVE  /\ file \in Files /\ want \in Files /\ mem \in Blocks
           /\ pos \in Nat /\ wpos \in Nat
           /\ curr \in 0..Size /\ End \in {0, Size} /\ curr <= End
           /\ warm => End = Size
           /\ ~warm => End = 0 /\ curr = 0
BY SizeAssumption DEF TypeOK, Files, Blocks, End

\* The history stays of the right type.
LEMMA AcceptType ==
    ASSUME TypeOK, NEW n \in Nat, NEW s, \A i \in 1..n : s[i] \in Char, Accept(s, n)
    PROVE  /\ want' \in [1..Limit -> Char \cup {Hole}]
           /\ wpos' \in Nat
<1> USE LimitAssumption
<1>1. \A i \in (0 + 1)..n : s[i] \in Char \cup {Hole}
      OBVIOUS
<1>2. Copy(want, wpos, s, 0, n) \in [1..Limit -> Char \cup {Hole}]
      BY <1>1, CopyType DEF TypeOK
<1> QED BY <1>2 DEF Accept, TypeOK

\* A write of the first n characters of a block.
LEMMA BlockWriteType ==
    ASSUME TypeOK, NEW m \in Blocks, NEW n \in 0..Size,
           NEW r \in DeviceWrite(file, pos, m, 0, n)
    PROVE  /\ r.file \in [1..Limit -> Char \cup {Garbage, Hole}]
           /\ r.pos \in Nat
           /\ r.ok \in BOOLEAN
           /\ r.short \in BOOLEAN
           /\ ~r.ok => r.file = file /\ r.pos = pos /\ ~r.short
           /\ r.ok /\ ~r.short => /\ r.file = Copy(file, pos, m, 0, n)
                                  /\ r.pos = pos + n
<1>1. /\ n \in Nat /\ n - 0 = n /\ 0 <= n
      /\ \A i \in (0 + 1)..n : m[i] \in Char \cup {Garbage}
      BY SizeAssumption DEF Blocks
<1>2. file \in [1..Limit -> Char \cup {Garbage, Hole}] /\ pos \in Nat
      BY DEF TypeOK
<1>3. 0 \in Nat /\ n \in Nat /\ 0 <= n
      BY <1>1
<1>4. /\ r.file \in [1..Limit -> Char \cup {Garbage, Hole}]
      /\ r.pos \in Nat
      /\ r.ok \in BOOLEAN
      /\ r.short \in BOOLEAN
      /\ ~r.ok => r.file = file /\ r.pos = pos /\ ~r.short
      /\ r.ok /\ ~r.short => /\ r.file = Copy(file, pos, m, 0, n)
                             /\ r.pos = pos + (n - 0)
      BY <1>1, <1>2, <1>3, DeviceWriteType, ZenonT(60)
<1> QED BY <1>1, <1>4

-------------------------------------------------------------------------------
(* put *)

LEMMA PutInv ==
    ASSUME IInv, NEW ch \in Char, Put(ch)
    PROVE  IInv'
<1> USE SizeAssumption, LimitAssumption
<1>0. TypeOK /\ Faithful /\ filling = 0 /\ Pending = curr
      BY DEF IInv, Put, Idle, Pending
<1>1. UNCHANGED <<filling, tail, open>>
      BY DEF Put
<1>2. <<ch>>[1] = ch /\ \A i \in 1..1 : <<ch>>[i] \in Char
      OBVIOUS
<1>3. FillInv'
      BY <1>0, <1>1 DEF FillInv
<1>4. CASE StoreChar(ch)
      <2>0. /\ curr < End /\ warm /\ curr \in 0..(Size - 1)
            /\ mem \in Blocks
            BY <1>0, <1>4, TypeFacts DEF StoreChar
      <2>4. [mem EXCEPT ![curr + 1] = ch] = Copy(mem, curr, <<ch>>, 0, 1)
            BY <2>0, ExceptIsCopy
      <2>5. curr' = curr + 1 /\ curr' \in 0..Size
            BY <1>4, <2>0 DEF StoreChar
      <2>1. /\ mem' = Copy(mem, curr, <<ch>>, 0, 1)
            /\ curr' = curr + 1 /\ curr' \in 0..Size
            /\ UNCHANGED <<warm, file, pos, fault>>
            /\ Accept(<<ch>>, 1)
            BY <1>4, <2>4, <2>5 DEF StoreChar
      <2>2. TypeOK'
            <3>1. mem' \in [1..Size -> Char \cup {Garbage}]
                  BY <1>0, <1>4 DEF StoreChar, TypeOK
            <3>2. /\ want' \in [1..Limit -> Char \cup {Hole}]
                  /\ wpos' \in Nat
                  BY <1>0, <1>2, <2>1, AcceptType
            <3>3. /\ warm' /\ filling' = 0 /\ tail' \in 0..(Size - 1) /\ open' \in BOOLEAN
                  /\ file' \in [1..Limit -> Char \cup {Garbage, Hole}] /\ pos' \in Nat
                  /\ fault' \in {"none", "short", "stale", "swallowed"}
                  BY <1>0, <1>1, <2>0, <2>1 DEF TypeOK
            <3> QED BY <2>1, <3>1, <3>2, <3>3 DEF TypeOK
      <2>3. Faithful'
            <3> SUFFICES ASSUME fault' = "none"
                         PROVE  Shows(file', pos', mem', Pending', want', wpos')
                BY DEF Faithful
            <3>1. Shows(file, pos, mem, curr, want, wpos)
                  BY <1>0, <2>1 DEF Faithful
            <3>2. Shows(file, pos, Copy(mem, curr, <<ch>>, 0, 1), curr + (1 - 0),
                        Copy(want, wpos, <<ch>>, 0, 1), wpos + (1 - 0))
                  BY <1>0, <2>0, <2>1, <3>1, TypeFacts, StoreShows
            <3>3. Pending' = curr + (1 - 0) /\ wpos' = wpos + (1 - 0)
                  BY <1>0, <1>1, <2>1 DEF Pending, Accept
            <3> QED BY <2>1, <3>2, <3>3 DEF Accept
      <2> QED BY <1>3, <2>2, <2>3 DEF IInv
<1>5. CASE OverflowCold(ch)
      <2>1. Fresh \in Blocks
            BY DEF Fresh, Blocks
      <2>2. /\ ~warm /\ curr = 0 /\ warm' = TRUE
            /\ mem' = Copy(Fresh, 0, <<ch>>, 0, 1)
            /\ curr' = 1
            /\ UNCHANGED <<file, pos, fault>>
            /\ Accept(<<ch>>, 1)
            BY <1>0, <1>5, <2>1, TypeFacts, FirstIsCopy DEF OverflowCold
      <2>3. TypeOK'
            <3>1. mem' \in [1..Size -> Char \cup {Garbage}]
                  BY <1>5, <2>1 DEF OverflowCold, Blocks
            <3>2. /\ want' \in [1..Limit -> Char \cup {Hole}]
                  /\ wpos' \in Nat
                  BY <1>0, <1>2, <2>2, AcceptType
            <3>3. /\ warm' /\ filling' = 0 /\ tail' \in 0..(Size - 1) /\ open' \in BOOLEAN
                  /\ file' \in [1..Limit -> Char \cup {Garbage, Hole}] /\ pos' \in Nat
                  /\ fault' \in {"none", "short", "stale", "swallowed"}
                  BY <1>0, <1>1, <2>2 DEF TypeOK
            <3>4. curr' \in 0..Size
                  BY <2>2
            <3> QED BY <3>1, <3>2, <3>3, <3>4 DEF TypeOK
      <2>4. Faithful'
            <3> SUFFICES ASSUME fault' = "none"
                         PROVE  Shows(file', pos', mem', Pending', want', wpos')
                BY DEF Faithful
            <3>1. Shows(file, pos, Fresh, 0, want, wpos)
                  BY <1>0, <2>2 DEF Faithful, Shows, TypeOK
            <3>2. Shows(file, pos, Copy(Fresh, 0, <<ch>>, 0, 1), 0 + (1 - 0),
                        Copy(want, wpos, <<ch>>, 0, 1), wpos + (1 - 0))
                  BY <1>0, <2>1, <2>2, <3>1, TypeFacts, StoreShows
            <3>3. Pending' = 0 + (1 - 0) /\ wpos' = wpos + (1 - 0)
                  BY <1>0, <1>1, <2>2 DEF Pending, Accept
            <3> QED BY <2>2, <3>2, <3>3 DEF Accept
      <2> QED BY <1>3, <2>3, <2>4 DEF IInv
<1>6. CASE OverflowWarm(ch)
      <2>0. warm /\ curr = Size /\ warm' = warm
            BY <1>0, <1>6, TypeFacts DEF OverflowWarm
      <2>1. PICK r \in DeviceWrite(file, pos, mem, 0, Size) :
              /\ Device(r)
              /\ fault' = Unnoticed(r)
              /\ IF r.ok
                   THEN /\ mem' = [mem EXCEPT ![1] = ch]
                        /\ curr' = 1
                        /\ Accept(<<ch>>, 1)
                   ELSE /\ UNCHANGED <<mem, curr>>
                        /\ Refused
            BY <1>6 DEF OverflowWarm
      <2>2. /\ r.file \in [1..Limit -> Char \cup {Garbage, Hole}]
            /\ r.pos \in Nat
            /\ r.ok \in BOOLEAN
            /\ r.short \in BOOLEAN
            /\ ~r.ok => r.file = file /\ r.pos = pos /\ ~r.short
            /\ r.ok /\ ~r.short => /\ r.file = Copy(file, pos, mem, 0, Size)
                                   /\ r.pos = pos + Size
            BY <1>0, TypeFacts, SizeAssumption, BlockWriteType
      <2>3. /\ fault' \in {"none", "short", "stale", "swallowed"}
            /\ fault' = "none" => fault = "none" /\ (r.ok => ~r.short)
            BY <1>0, <2>1, <2>2 DEF Unnoticed, TypeOK
      <2>4. CASE ~r.ok
            <3>1. UNCHANGED <<mem, curr, want, wpos, file, pos>>
                  BY <2>1, <2>2, <2>4 DEF Refused, Device
            <3>2. TypeOK'
                  BY <1>0, <1>1, <2>0, <2>3, <3>1 DEF TypeOK
            <3>3. Faithful'
                  BY <1>0, <1>1, <2>3, <3>1 DEF Faithful, Pending
            <3> QED BY <1>3, <3>2, <3>3 DEF IInv
      <2>5. CASE r.ok
            <3>1. mem' = [mem EXCEPT ![1] = ch] /\ curr' = 1 /\ Accept(<<ch>>, 1)
                  BY <2>1, <2>5
            <3>2. mem' = Copy(mem, 0, <<ch>>, 0, 1)
                  BY <1>0, <3>1, TypeFacts, FirstIsCopy
            <3>3. TypeOK'
                  <4>1. mem' \in [1..Size -> Char \cup {Garbage}]
                        BY <1>0, <3>1 DEF TypeOK
                  <4>2. /\ want' \in [1..Limit -> Char \cup {Hole}]
                        /\ wpos' \in Nat
                        BY <1>0, <1>2, <3>1, AcceptType
                  <4>3. /\ file' \in [1..Limit -> Char \cup {Garbage, Hole}]
                        /\ pos' \in Nat
                        BY <2>1, <2>2 DEF Device
                  <4> QED BY <1>0, <1>1, <2>0, <2>3, <3>1, <4>1, <4>2, <4>3 DEF TypeOK
            <3>4. Faithful'
                  <4> SUFFICES ASSUME fault' = "none"
                               PROVE  Shows(file', pos', mem', Pending', want', wpos')
                      BY DEF Faithful
                  <4>1. Shows(file, pos, mem, Size, want, wpos)
                        BY <1>0, <2>0, <2>3 DEF Faithful
                  <4>2. Shows(Copy(file, pos, mem, 0, Size), pos + Size, mem, 0, want, wpos)
                        BY <1>0, <4>1, TypeFacts, SpillShows
                  <4>3. file' = Copy(file, pos, mem, 0, Size) /\ pos' = pos + Size
                        BY <2>1, <2>2, <2>3, <2>5 DEF Device
                  <4>4. file' \in Files /\ pos' \in Nat
                        BY <2>1, <2>2 DEF Device, Files
                  <4>5. Shows(file', pos', Copy(mem, 0, <<ch>>, 0, 1), 0 + (1 - 0),
                              Copy(want, wpos, <<ch>>, 0, 1), wpos + (1 - 0))
                        BY <1>0, <4>2, <4>3, <4>4, TypeFacts, StoreShows
                  <4>6. Pending' = 0 + (1 - 0) /\ wpos' = wpos + (1 - 0)
                        BY <1>0, <1>1, <3>1 DEF Pending, Accept
                  <4> QED BY <3>1, <3>2, <4>5, <4>6 DEF Accept
            <3> QED BY <1>3, <3>3, <3>4 DEF IInv
      <2> QED BY <2>2, <2>4, <2>5
<1> QED BY <1>4, <1>5, <1>6 DEF Put

-------------------------------------------------------------------------------
(* write and print *)

LEMMA RunIsText ==
    ASSUME NEW ch \in Char, NEW n \in Nat
    PROVE  Run(ch, n) \in Seq(Char) /\ Len(Run(ch, n)) = n
<1>1. Run(ch, n) \in [1..n -> Char]
      BY DEF Run
<1>2. Run(ch, n) \in Seq(Char)
      BY <1>1
<1> QED BY <1>1, <1>2

LEMMA StoreTextInv ==
    ASSUME TypeOK, Faithful, filling = 0, NEW s \in Seq(Char), StoreText(s),
           UNCHANGED <<filling, tail, open>>
    PROVE  TypeOK' /\ Faithful'
<1> USE SizeAssumption, LimitAssumption
<1> DEFINE n == Len(s)
<1>1. /\ n \in Nat /\ \A i \in 1..n : s[i] \in Char
      /\ 0 \in Nat /\ 0 <= n /\ n - 0 = n
      BY TextType
<1>2. /\ mem \in Blocks /\ curr \in 0..Size /\ curr + n \in 0..Size
      /\ ~warm => n = 0
      BY <1>1, TypeFacts DEF StoreText
<1>3. /\ mem' = Copy(mem, curr, s, 0, n)
      /\ curr' = curr + n
      /\ UNCHANGED <<warm, file, pos, fault>>
      /\ Accept(s, n)
      BY DEF StoreText
<1>4. TypeOK'
      <2>1. mem' \in [1..Size -> Char \cup {Garbage}]
            <3>1. \A i \in (0 + 1)..n : s[i] \in Char \cup {Garbage}
                  BY <1>1
            <3>2. /\ mem \in [1..Size -> Char \cup {Garbage}]
                  /\ curr \in Nat /\ Size \in Nat
                  BY <1>2 DEF Blocks
            <3> QED BY <1>1, <1>3, <3>1, <3>2, CopyType
      <2>2. want' \in [1..Limit -> Char \cup {Hole}] /\ wpos' \in Nat
            BY <1>1, <1>3, AcceptType
      <2>3. curr' \in 0..Size /\ (~warm => curr' = 0)
            BY <1>2, <1>3 DEF TypeOK
      <2> QED BY <1>3, <2>1, <2>2, <2>3 DEF TypeOK
<1>5. Faithful'
      <2> SUFFICES ASSUME fault' = "none"
                   PROVE  Shows(file', pos', mem', Pending', want', wpos')
          BY DEF Faithful
      <2>1. Shows(file, pos, mem, curr, want, wpos)
            BY <1>3 DEF Faithful, Pending
      <2>2. Shows(file, pos, Copy(mem, curr, s, 0, n), curr + (n - 0),
                  Copy(want, wpos, s, 0, n), wpos + (n - 0))
            BY <1>1, <1>2, <2>1, TypeFacts, StoreShows
      <2>3. Pending' = curr + (n - 0) /\ wpos' = wpos + (n - 0)
            BY <1>1, <1>3 DEF Pending, Accept
      <2> QED BY <1>3, <2>2, <2>3 DEF Accept
<1> QED BY <1>4, <1>5

LEMMA WriteThroughInv ==
    ASSUME TypeOK, Faithful, filling = 0, NEW s \in Seq(Char), WriteThrough(s),
           UNCHANGED <<filling, tail, open>>
    PROVE  TypeOK' /\ Faithful'
<1> USE SizeAssumption, LimitAssumption
<1> DEFINE n == Len(s)
<1>1. /\ n \in Nat /\ \A i \in 1..n : s[i] \in Char
      /\ 0 \in Nat /\ 0 <= n /\ n - 0 = n
      /\ \A i \in (0 + 1)..n : s[i] \in Char \cup {Garbage}
      BY TextType
<1>0. n \in Nat /\ 0 \in Nat /\ 0 <= n /\ pos \in Nat
      /\ file \in [1..Limit -> Char \cup {Garbage, Hole}]
      BY <1>1 DEF TypeOK
<1>2. ~warm /\ curr = 0 /\ UNCHANGED <<warm, mem, curr>>
      BY TypeFacts DEF WriteThrough
<1>3. PICK r \in DeviceWrite(file, pos, s, 0, n) :
        /\ Device(r)
        /\ fault' = Unnoticed(r)
        /\ IF r.ok THEN Accept(s, n) ELSE Refused
      BY DEF WriteThrough
<1>4. /\ r.file \in [1..Limit -> Char \cup {Garbage, Hole}]
      /\ r.pos \in Nat
      /\ r.ok \in BOOLEAN
      /\ r.short \in BOOLEAN
      /\ ~r.ok => r.file = file /\ r.pos = pos /\ ~r.short
      /\ r.ok /\ ~r.short => /\ r.file = Copy(file, pos, s, 0, n)
                             /\ r.pos = pos + (n - 0)
      BY <1>0, <1>1, DeviceWriteType, ZenonT(60)
<1>5. /\ fault' \in {"none", "short", "stale", "swallowed"}
      /\ fault' = "none" => fault = "none" /\ (r.ok => ~r.short)
      BY <1>3, <1>4 DEF Unnoticed, TypeOK
<1>6. TypeOK'
      <2>1. want' \in [1..Limit -> Char \cup {Hole}] /\ wpos' \in Nat
            <3>1. CASE r.ok
                  BY <1>1, <1>3, <3>1, AcceptType
            <3>2. CASE ~r.ok
                  BY <1>3, <3>2 DEF Refused, TypeOK
            <3> QED BY <3>1, <3>2
      <2>2. file' \in [1..Limit -> Char \cup {Garbage, Hole}] /\ pos' \in Nat
            BY <1>3, <1>4 DEF Device
      <2> QED BY <1>2, <1>5, <2>1, <2>2 DEF TypeOK
<1>7. Faithful'
      <2> SUFFICES ASSUME fault' = "none"
                   PROVE  Shows(file', pos', mem', Pending', want', wpos')
          BY DEF Faithful
      <2>1. Shows(file, pos, mem, 0, want, wpos)
            BY <1>2, <1>5 DEF Faithful, Pending
      <2>2. Pending' = 0
            BY <1>2 DEF Pending
      <2>3. CASE r.ok
            <3>1. Shows(Copy(file, pos, s, 0, n), pos + (n - 0), mem, 0,
                        Copy(want, wpos, s, 0, n), wpos + (n - 0))
                  BY <1>1, <2>1, TypeFacts, ThroughShows
            <3>2. /\ file' = Copy(file, pos, s, 0, n) /\ pos' = pos + (n - 0)
                  /\ want' = Copy(want, wpos, s, 0, n) /\ wpos' = wpos + (n - 0)
                  BY <1>1, <1>3, <1>4, <1>5, <2>3 DEF Device, Accept
            <3> QED BY <1>2, <2>2, <3>1, <3>2
      <2>4. CASE ~r.ok
            BY <1>2, <1>3, <1>4, <2>1, <2>2, <2>4 DEF Device, Refused
      <2> QED BY <2>3, <2>4
<1> QED BY <1>6, <1>7

LEMMA WriteColdInv ==
    ASSUME TypeOK, Faithful, filling = 0, NEW s \in Seq(Char), WriteCold(s),
           UNCHANGED <<filling, tail, open>>
    PROVE  TypeOK' /\ Faithful'
<1> USE SizeAssumption, LimitAssumption
<1> DEFINE n == Len(s)
<1>1. /\ n \in Nat /\ \A i \in 1..n : s[i] \in Char
      /\ 0 \in Nat /\ 0 <= n /\ n - 0 = n
      BY TextType
<1>2. /\ ~warm /\ curr = 0 /\ warm' = TRUE /\ n < Size
      /\ mem' = Copy(Fresh, 0, s, 0, n)
      /\ curr' = n
      /\ UNCHANGED <<file, pos, fault>>
      /\ Accept(s, n)
      BY TypeFacts DEF WriteCold
<1>3. Fresh \in Blocks
      BY DEF Fresh, Blocks
<1>4. TypeOK'
      <2>1. mem' \in [1..Size -> Char \cup {Garbage}]
            <3>1. \A i \in (0 + 1)..n : s[i] \in Char \cup {Garbage}
                  BY <1>1
            <3> QED BY <1>1, <1>2, <1>3, <3>1, CopyType DEF Blocks
      <2>2. want' \in [1..Limit -> Char \cup {Hole}] /\ wpos' \in Nat
            BY <1>1, <1>2, AcceptType
      <2>3. curr' \in 0..Size
            BY <1>1, <1>2
      <2> QED BY <1>2, <2>1, <2>2, <2>3 DEF TypeOK
<1>5. Faithful'
      <2> SUFFICES ASSUME fault' = "none"
                   PROVE  Shows(file', pos', mem', Pending', want', wpos')
          BY DEF Faithful
      <2>1. Shows(file, pos, Fresh, 0, want, wpos)
            BY <1>2 DEF Faithful, Pending, Shows, TypeOK
      <2>2. Shows(file, pos, Copy(Fresh, 0, s, 0, n), 0 + (n - 0),
                  Copy(want, wpos, s, 0, n), wpos + (n - 0))
            BY <1>1, <1>2, <1>3, <2>1, TypeFacts, StoreShows
      <2>3. Pending' = 0 + (n - 0) /\ wpos' = wpos + (n - 0)
            BY <1>1, <1>2 DEF Pending, Accept
      <2> QED BY <1>2, <2>2, <2>3 DEF Accept
<1> QED BY <1>4, <1>5

\* What a text that does not fit does to the block, and the write of it.
LEMMA FilledFacts ==
    ASSUME TypeOK, NEW s \in Seq(Char), warm, End - curr < Len(s)
    PROVE  /\ Size - curr \in 0..Size /\ Size - curr < Len(s) /\ Len(s) \in Nat
           /\ Filled(s) \in Blocks
           /\ curr + ((Size - curr) - 0) = Size
<1> USE SizeAssumption
<1>1. /\ curr \in 0..Size /\ End = Size /\ mem \in Blocks
      BY TypeFacts
<1>2. Len(s) \in Nat /\ \A i \in 1..Len(s) : s[i] \in Char
      BY TextType
<1>3. Size - curr \in 0..Size /\ Size - curr < Len(s)
      BY <1>1
<1>4. \A i \in (0 + 1)..(Size - curr) : s[i] \in Char \cup {Garbage}
      BY <1>2, <1>3
<1>5. Filled(s) \in Blocks
      <2>1. Size \in Nat /\ curr \in Nat /\ 0 \in Nat /\ Size - curr \in Nat
            BY <1>1
      <2> QED BY <1>1, <1>4, <2>1, CopyType DEF Filled, Blocks
<1> QED BY <1>1, <1>2, <1>3, <1>5

LEMMA FilledShows ==
    ASSUME TypeOK, NEW s \in Seq(Char), warm, End - curr < Len(s),
           Shows(file, pos, mem, curr, want, wpos), NEW m2
    PROVE  LET used == Size - curr IN
           Shows(Copy(file, pos, Filled(s), 0, Size), pos + Size, m2, 0,
                 Copy(want, wpos, s, 0, used), wpos + used)
<1> USE SizeAssumption, LimitAssumption
<1> DEFINE used == Size - curr
           w1 == Copy(want, wpos, s, 0, used)
<1>1. /\ used \in Nat /\ Filled(s) \in Blocks /\ curr + (used - 0) = Size
      /\ 0 \in Nat /\ 0 <= used /\ used - 0 = used
      BY FilledFacts
<1>2. Shows(file, pos, Copy(mem, curr, s, 0, used), curr + (used - 0),
            w1, wpos + (used - 0))
      BY <1>1, TypeFacts, StoreShows
<1>3. Shows(file, pos, Filled(s), Size, w1, wpos + used)
      BY <1>1, <1>2 DEF Filled
<1>4. w1 \in Files /\ wpos + used \in Nat
      <2>1. \A i \in (0 + 1)..used : s[i] \in Char \cup {Garbage, Hole}
            BY <1>1, TextType, FilledFacts
      <2>2. want \in Files /\ wpos \in Nat /\ wpos + used \in Nat
            BY <1>1, TypeFacts
      <2>3. w1 \in Files
            BY <1>1, <2>1, <2>2, CopyFile
      <2> QED BY <2>2, <2>3
<1> HIDE DEF w1
<1>5. Shows(Copy(file, pos, Filled(s), 0, Size), pos + Size, m2, 0, w1, wpos + used)
      <2>1. file \in Files /\ pos \in Nat /\ Size \in 0..Size
            BY TypeFacts
      <2> HIDE DEF used
      <2> QED BY <1>1, <1>3, <1>4, <2>1, SpillShows
<1> QED BY <1>5 DEF w1

LEMMA SpillFailsInv ==
    ASSUME TypeOK, Faithful, filling = 0, NEW s \in Seq(Char), warm,
           End - curr < Len(s), SpillFails(s), UNCHANGED <<filling, tail, open>>
    PROVE  TypeOK' /\ Faithful'
<1> USE SizeAssumption, LimitAssumption
<1>1. Filled(s) \in Blocks
      BY FilledFacts
<1>2. mem' = Filled(s) /\ UNCHANGED <<warm, curr, file, pos, fault, want, wpos>>
      BY DEF SpillFails, Refused
<1>3. TypeOK'
      BY <1>1, <1>2 DEF TypeOK, Blocks
<1>4. Faithful'
      <2> SUFFICES ASSUME fault' = "none"
                   PROVE  Shows(file', pos', mem', Pending', want', wpos')
          BY DEF Faithful
      <2>1. Shows(file, pos, mem, curr, want, wpos) /\ Pending' = curr
            BY <1>2 DEF Faithful, Pending
      <2>2. \A j \in 1..curr : Filled(s)[j] = mem[j]
            BY TypeFacts DEF Filled, Copy, Blocks
      <2>3. Shows(file, pos, Filled(s), curr, want, wpos)
            <3>1. pos \in Nat /\ curr \in Nat
                  BY TypeFacts
            <3>2. \A i \in 1..Limit :
                    pos < i /\ i <= pos + curr => Filled(s)[i - pos] = mem[i - pos]
                  BY <2>2, <3>1
            <3> QED BY <2>1, <3>2 DEF Shows
      <2> QED BY <1>2, <2>1, <2>3
<1> QED BY <1>3, <1>4

LEMMA SpillAndKeepInv ==
    ASSUME TypeOK, Faithful, filling = 0, NEW s \in Seq(Char), warm,
           End - curr < Len(s), SpillAndKeep(s), UNCHANGED <<filling, tail, open>>
    PROVE  TypeOK' /\ Faithful'
<1> USE SizeAssumption, LimitAssumption
<1> DEFINE n == Len(s)
           used == Size - curr
           w1 == Copy(want, wpos, s, 0, used)
<1>1. /\ n \in Nat /\ \A i \in 1..n : s[i] \in Char
      /\ used \in Nat /\ used < n /\ Filled(s) \in Blocks
      BY TextType, FilledFacts
<1>2. /\ n - used <= Size
      /\ mem' = Copy(Filled(s), 0, s, used, n)
      /\ curr' = n - used
      /\ warm' = warm
      /\ Accept(s, n)
      BY DEF SpillAndKeep
<1>3. PICK r \in DeviceWrite(file, pos, Filled(s), 0, Size) :
        r.ok /\ Device(r) /\ fault' = Unnoticed(r)
      BY DEF SpillAndKeep
<1>4. /\ r.file \in [1..Limit -> Char \cup {Garbage, Hole}]
      /\ r.pos \in Nat
      /\ r.ok \in BOOLEAN
      /\ r.short \in BOOLEAN
      /\ ~r.ok => r.file = file /\ r.pos = pos /\ ~r.short
      /\ r.ok /\ ~r.short => /\ r.file = Copy(file, pos, Filled(s), 0, Size)
                             /\ r.pos = pos + Size
      BY <1>1, BlockWriteType
<1>5. /\ fault' \in {"none", "short", "stale", "swallowed"}
      /\ fault' = "none" => fault = "none" /\ ~r.short
      BY <1>3, <1>4 DEF Unnoticed, TypeOK
<1>6. TypeOK'
      <2>1. mem' \in [1..Size -> Char \cup {Garbage}]
            <3>1. \A i \in (used + 1)..n : s[i] \in Char \cup {Garbage}
                  BY <1>1
            <3> QED BY <1>1, <1>2, <3>1, CopyBlock DEF Blocks
      <2>2. want' \in [1..Limit -> Char \cup {Hole}] /\ wpos' \in Nat
            BY <1>1, <1>2, AcceptType
      <2>3. file' \in [1..Limit -> Char \cup {Garbage, Hole}] /\ pos' \in Nat
            BY <1>3, <1>4 DEF Device
      <2>4. curr' \in 0..Size
            BY <1>1, <1>2
      <2> QED BY <1>2, <1>5, <2>1, <2>2, <2>3, <2>4 DEF TypeOK
<1>7. Faithful'
      <2> SUFFICES ASSUME fault' = "none"
                   PROVE  Shows(file', pos', mem', Pending', want', wpos')
          BY DEF Faithful
      <2>1. Shows(file, pos, mem, curr, want, wpos)
            BY <1>5 DEF Faithful, Pending
      <2>2. /\ file' = Copy(file, pos, Filled(s), 0, Size) /\ pos' = pos + Size
            /\ file' \in Files /\ pos' \in Nat
            BY <1>3, <1>4, <1>5 DEF Device, Files
      <2>3. Shows(file', pos', Filled(s), 0, w1, wpos + used)
            BY <2>1, <2>2, FilledShows
      <2>4. w1 \in Files /\ wpos + used \in Nat
            <3>1. \A i \in (0 + 1)..used : s[i] \in Char \cup {Garbage, Hole}
                  BY <1>1
            <3> QED BY <1>1, <3>1, TypeFacts, CopyFile
      <2> HIDE DEF w1
      <2>5. Shows(file', pos', Copy(Filled(s), 0, s, used, n), 0 + (n - used),
                  Copy(w1, wpos + used, s, used, n), (wpos + used) + (n - used))
            <3>1. 0 \in 0..Size /\ used <= n /\ 0 + (n - used) <= Size
                  BY <1>1, <1>2
            <3> QED BY <1>1, <2>2, <2>3, <2>4, <3>1, StoreShows
      <2>6. Copy(w1, wpos + used, s, used, n) = Copy(want, wpos, s, 0, n)
            BY <1>1, TypeFacts, CopyTwice DEF w1
      <2>7. /\ Pending' = 0 + (n - used)
            /\ wpos' = (wpos + used) + (n - used)
            /\ want' = Copy(want, wpos, s, 0, n)
            BY <1>1, <1>2, TypeFacts DEF Pending, Accept
      <2> QED BY <1>2, <2>5, <2>6, <2>7
<1> QED BY <1>6, <1>7

LEMMA SpillAndPassInv ==
    ASSUME TypeOK, Faithful, filling = 0, NEW s \in Seq(Char), warm,
           End - curr < Len(s), SpillAndPass(s), UNCHANGED <<filling, tail, open>>
    PROVE  TypeOK' /\ Faithful'
<1> USE SizeAssumption, LimitAssumption
<1> DEFINE n == Len(s)
           used == Size - curr
           w1 == Copy(want, wpos, s, 0, used)
<1>1. /\ n \in Nat /\ \A i \in 1..n : s[i] \in Char
      /\ used \in Nat /\ used <= n /\ Filled(s) \in Blocks
      /\ \A i \in (used + 1)..n : s[i] \in Char \cup {Garbage}
      BY TextType, FilledFacts
<1>2. mem' = Filled(s) /\ warm' = warm
      BY DEF SpillAndPass
<1>3. PICK r \in DeviceWrite(file, pos, Filled(s), 0, Size) :
        /\ r.ok
        /\ \E q \in DeviceWrite(r.file, r.pos, s, used, n) :
            /\ Device(q)
            /\ IF q.ok
                 THEN /\ curr' = 0
                      /\ Accept(s, n)
                      /\ fault' = IF fault = "none" /\ (r.short \/ q.short)
                                    THEN "short" ELSE fault
                 ELSE /\ UNCHANGED curr
                      /\ Refused
                      /\ fault' = IF fault = "none" THEN "stale" ELSE fault
      BY DEF SpillAndPass
<1>4. PICK q \in DeviceWrite(r.file, r.pos, s, used, n) :
        /\ Device(q)
        /\ IF q.ok
             THEN /\ curr' = 0
                  /\ Accept(s, n)
                  /\ fault' = IF fault = "none" /\ (r.short \/ q.short)
                                THEN "short" ELSE fault
             ELSE /\ UNCHANGED curr
                  /\ Refused
                  /\ fault' = IF fault = "none" THEN "stale" ELSE fault
      BY <1>3
<1>5. /\ r.file \in [1..Limit -> Char \cup {Garbage, Hole}]
      /\ r.pos \in Nat
      /\ r.short \in BOOLEAN
      /\ ~r.short => /\ r.file = Copy(file, pos, Filled(s), 0, Size)
                    /\ r.pos = pos + Size
      BY <1>1, <1>3, BlockWriteType
<1>6. /\ q.file \in [1..Limit -> Char \cup {Garbage, Hole}]
      /\ q.pos \in Nat
      /\ q.ok \in BOOLEAN
      /\ q.short \in BOOLEAN
      /\ ~q.ok => q.file = r.file /\ q.pos = r.pos /\ ~q.short
      /\ q.ok /\ ~q.short => /\ q.file = Copy(r.file, r.pos, s, used, n)
                             /\ q.pos = r.pos + (n - used)
      <2> DEFINE f == r.file
                 p == r.pos
      <2>1. /\ n \in Nat /\ used \in Nat /\ used <= n
            /\ \A i \in (used + 1)..n : s[i] \in Char \cup {Garbage}
            BY <1>1
      <2>2. /\ f \in [1..Limit -> Char \cup {Garbage, Hole}] /\ p \in Nat
            /\ q \in DeviceWrite(f, p, s, used, n)
            BY <1>5
      <2> HIDE DEF n, used, f, p
      <2>3. /\ q.file \in [1..Limit -> Char \cup {Garbage, Hole}]
            /\ q.pos \in Nat
            /\ q.ok \in BOOLEAN
            /\ q.short \in BOOLEAN
            /\ ~q.ok => q.file = f /\ q.pos = p /\ ~q.short
            /\ q.ok /\ ~q.short => /\ q.file = Copy(f, p, s, used, n)
                                   /\ q.pos = p + (n - used)
            BY <2>1, <2>2, DeviceWriteType, ZenonT(60)
      <2> QED BY <2>3 DEF f, p
<1>7. /\ fault' \in {"none", "short", "stale", "swallowed"}
      /\ fault' = "none" => fault = "none" /\ q.ok /\ ~r.short /\ ~q.short
      BY <1>4, <1>5, <1>6 DEF TypeOK
<1>8. TypeOK'
      <2>1. want' \in [1..Limit -> Char \cup {Hole}] /\ wpos' \in Nat
            <3>1. CASE q.ok
                  BY <1>1, <1>4, <3>1, AcceptType
            <3>2. CASE ~q.ok
                  BY <1>4, <3>2 DEF Refused, TypeOK
            <3> QED BY <3>1, <3>2
      <2>2. file' \in [1..Limit -> Char \cup {Garbage, Hole}] /\ pos' \in Nat
            BY <1>4, <1>6 DEF Device
      <2>3. curr' \in 0..Size
            BY <1>4 DEF TypeOK
      <2>4. mem' \in [1..Size -> Char \cup {Garbage}]
            BY <1>1, <1>2 DEF Blocks
      <2> QED BY <1>2, <1>7, <2>1, <2>2, <2>3, <2>4 DEF TypeOK
<1>9. Faithful'
      <2> SUFFICES ASSUME fault' = "none"
                   PROVE  Shows(file', pos', mem', Pending', want', wpos')
          BY DEF Faithful
      <2>1. Shows(file, pos, mem, curr, want, wpos)
            BY <1>7 DEF Faithful, Pending
      <2>2. /\ r.file = Copy(file, pos, Filled(s), 0, Size) /\ r.pos = pos + Size
            /\ r.file \in Files /\ r.pos \in Nat
            BY <1>5, <1>7 DEF Files
      <2>3. Shows(r.file, r.pos, Filled(s), 0, w1, wpos + used)
            BY <2>1, <2>2, FilledShows
      <2>4. w1 \in Files /\ wpos + used \in Nat
            <3>1. \A i \in (0 + 1)..used : s[i] \in Char \cup {Garbage, Hole}
                  BY <1>1
            <3> QED BY <1>1, <3>1, TypeFacts, CopyFile
      <2> HIDE DEF w1
      <2>5. Shows(Copy(r.file, r.pos, s, used, n), r.pos + (n - used), Filled(s), 0,
                  Copy(w1, wpos + used, s, used, n), (wpos + used) + (n - used))
            BY <1>1, <2>2, <2>3, <2>4, ThroughShows
      <2>6. Copy(w1, wpos + used, s, used, n) = Copy(want, wpos, s, 0, n)
            BY <1>1, TypeFacts, CopyTwice DEF w1
      <2>7. /\ Pending' = 0
            /\ wpos' = (wpos + used) + (n - used)
            /\ want' = Copy(want, wpos, s, 0, n)
            /\ file' = Copy(r.file, r.pos, s, used, n)
            /\ pos' = r.pos + (n - used)
            BY <1>1, <1>4, <1>6, <1>7, TypeFacts DEF Pending, Accept, Device
      <2> QED BY <1>2, <2>5, <2>6, <2>7
<1> QED BY <1>8, <1>9

LEMMA WriteTextInv ==
    ASSUME TypeOK, Faithful, filling = 0, NEW s \in Seq(Char), WriteText(s),
           UNCHANGED <<filling, tail, open>>
    PROVE  TypeOK' /\ Faithful'
<1>1. CASE StoreText(s)
      BY <1>1, StoreTextInv
<1>2. CASE WriteThrough(s)
      BY <1>2, WriteThroughInv
<1>3. CASE WriteCold(s)
      BY <1>3, WriteColdInv
<1>4. CASE /\ warm
           /\ End - curr < Len(s)
           /\ SpillFails(s) \/ SpillAndKeep(s) \/ SpillAndPass(s)
      <2>1. CASE SpillFails(s)
            BY <1>4, <2>1, SpillFailsInv
      <2>2. CASE SpillAndKeep(s)
            BY <1>4, <2>2, SpillAndKeepInv
      <2>3. CASE SpillAndPass(s)
            BY <1>4, <2>3, SpillAndPassInv
      <2> QED BY <1>4, <2>1, <2>2, <2>3
<1> QED BY <1>1, <1>2, <1>3, <1>4 DEF WriteText

LEMMA WriteInv ==
    ASSUME IInv, NEW s \in Texts, Write(s)
    PROVE  IInv'
<1>1. /\ TypeOK /\ Faithful /\ filling = 0 /\ s \in Seq(Char)
      /\ WriteText(s) /\ UNCHANGED <<filling, tail, open>>
      BY TextsAssumption DEF IInv, Write, Idle
<1>2. TypeOK' /\ Faithful'
      BY <1>1, WriteTextInv
<1>3. FillInv'
      BY <1>1 DEF FillInv
<1> QED BY <1>2, <1>3 DEF IInv

LEMMA PrintReserveInv ==
    ASSUME IInv, NEW s \in Texts, NEW n \in Reserves, PrintReserve(s, n)
    PROVE  IInv'
<1>1. /\ TypeOK /\ Faithful /\ filling = 0 /\ s \in Seq(Char)
      /\ WriteText(s) \/ StoreText(s)
      /\ UNCHANGED <<filling, tail, open>>
      BY TextsAssumption DEF IInv, PrintReserve, Idle
<1>2. TypeOK' /\ Faithful'
      BY <1>1, WriteTextInv, StoreTextInv
<1>3. FillInv'
      BY <1>1 DEF FillInv
<1> QED BY <1>2, <1>3 DEF IInv

-------------------------------------------------------------------------------
(* fill *)

\* Any part of a run of a character is like any other.
LEMMA CopyRun ==
    ASSUME NEW f \in Files, NEW p \in Nat, NEW ch \in Char,
           NEW n \in Nat, NEW x \in Nat, NEW y \in Nat, y <= n,
           NEW m \in Nat, NEW u \in Nat, NEW v \in Nat, v <= m, y - x = v - u
    PROVE  Copy(f, p, Run(ch, n), x, y) = Copy(f, p, Run(ch, m), u, v)
<1> USE LimitAssumption
<1> DEFINE c == Copy(f, p, Run(ch, n), x, y)
           d == Copy(f, p, Run(ch, m), u, v)
<1>1. c = [i \in 1..Limit |-> c[i]] /\ d = [i \in 1..Limit |-> d[i]]
      BY DEF Copy, Files
<1>2. ASSUME NEW i \in 1..Limit PROVE c[i] = d[i]
      <2>1. CASE p < i /\ i <= p + (y - x)
            <3>1. i - p + x \in 1..n /\ i - p + u \in 1..m
                  BY <2>1
            <3>2. Run(ch, n)[i - p + x] = ch /\ Run(ch, m)[i - p + u] = ch
                  BY <3>1 DEF Run
            <3> QED BY <2>1, <3>2 DEF Copy, Files
      <2>2. CASE ~(p < i /\ i <= p + (y - x))
            BY <2>2 DEF Copy, Files
      <2> QED BY <2>1, <2>2
<1> HIDE DEF c, d
<1>3. c = d
      BY <1>1, <1>2
<1> QED BY <1>3 DEF c, d

\* The rest of a run is a run of its own.
LEMMA RestOfRun ==
    ASSUME NEW f \in Files, NEW p \in Nat, NEW ch \in Char,
           NEW n \in Nat, NEW k \in Nat, k <= n
    PROVE  Copy(f, p, Run(ch, n - k), 0, n - k) = Copy(f, p, Run(ch, n), k, n)
<1>1. n - k \in Nat /\ 0 \in Nat /\ n - k <= n - k /\ n <= n /\ (n - k) - 0 = n - k
      OBVIOUS
<1> QED BY <1>1, CopyRun

\* Copying the head of a block onto itself changes nothing.
LEMMA CopySelf ==
    ASSUME NEW m \in Blocks, NEW n \in 0..Size
    PROVE  Copy(m, 0, m, 0, n) = m
<1> USE SizeAssumption
<1> DEFINE c == Copy(m, 0, m, 0, n)
<1>1. c = [i \in 1..Size |-> c[i]] /\ m = [i \in 1..Size |-> m[i]]
      BY DEF Copy, Blocks
<1>2. ASSUME NEW i \in 1..Size PROVE c[i] = m[i]
      BY DEF Copy, Blocks
<1> HIDE DEF c
<1>3. c = m
      BY <1>1, <1>2
<1> QED BY <1>3 DEF c

LEMMA Rounds ==
    ASSUME NEW n \in Nat, Size < n
    PROVE  n \div Size \in Nat /\ n \div Size > 0 /\ n % Size \in 0..(Size - 1)
BY SizeAssumption

\* The part of the fill that follows the first overflow, whose write, if the
\* block was there to be written, left f at offset p.  k characters came
\* before it.
LEMMA FillRestInv ==
    ASSUME TypeOK, filling = 0, NEW ch \in Char, NEW n \in Nat, NEW k \in 0..Size,
           k < n, FillRest(ch, n, n - k), warm',
           file' \in Files, pos' \in Nat,
           fault' \in {"none", "short", "stale", "swallowed"}, open' = open,
           fault' = "none" =>
             Shows(file', pos', mem, 0, Copy(want, wpos, Run(ch, k), 0, k), wpos + k)
    PROVE  IInv'
<1> USE SizeAssumption, LimitAssumption
<1> DEFINE remain == n - k
           w1 == Copy(want, wpos, Run(ch, k), 0, k)
           m1 == [mem EXCEPT ![1] = ch]
<1>1. /\ k \in Nat /\ remain \in Nat /\ remain > 0 /\ n - remain = k /\ k <= n
      /\ want \in Files /\ wpos \in Nat /\ mem \in Blocks
      BY TypeFacts
<1>2. /\ w1 = Copy(want, wpos, Run(ch, n), 0, k)
      /\ w1 \in Files /\ wpos + k \in Nat
      <2>1. w1 = Copy(want, wpos, Run(ch, n), 0, k)
            BY <1>1, CopyRun
      <2>2. \A i \in (0 + 1)..k : Run(ch, k)[i] \in Char \cup {Garbage, Hole}
            BY DEF Run
      <2>3. w1 \in Files
            BY <1>1, <2>2, CopyFile
      <2> QED BY <1>1, <2>1, <2>3
<1> HIDE DEF w1
<1>3. /\ \A i \in 1..n : Run(ch, n)[i] \in Char
      /\ \A i \in 1..k : Run(ch, n)[i] \in Char
      BY DEF Run
<1>4. CASE Size < remain
      <2>1. /\ mem' = Run(ch, Size)
            /\ curr' = 1
            /\ filling' = remain \div Size
            /\ tail' = remain % Size
            /\ Accept(Run(ch, n), k)
            BY <1>1, <1>4 DEF FillRest
      <2>2. mem' \in [1..Size -> Char]
            BY <2>1 DEF Run
      <2>3. filling' \in Nat /\ filling' > 0 /\ tail' \in 0..(Size - 1)
            BY <1>1, <1>4, <2>1, Rounds
      <2>4. want' \in [1..Limit -> Char \cup {Hole}] /\ wpos' \in Nat
            BY <1>1, <1>3, <2>1, AcceptType
      <2>5. TypeOK'
            <3>1. mem' \in [1..Size -> Char \cup {Garbage}] /\ curr' \in 0..Size
                  BY <2>1, <2>2
            <3> QED BY <2>3, <2>4, <3>1 DEF TypeOK, Files
      <2>6. FillInv'
            BY <2>1 DEF FillInv
      <2>7. Faithful'
            <3>1. Pending' = 0
                  BY <2>3 DEF Pending
            <3>2. want' = w1 /\ wpos' = wpos + k
                  BY <1>2, <2>1 DEF Accept
            <3>3. fault' = "none" => Shows(file', pos', mem', 0, w1, wpos + k)
                  BY <1>1 DEF Shows, w1
            <3> QED BY <3>1, <3>2, <3>3 DEF Faithful
      <2> QED BY <2>5, <2>6, <2>7 DEF IInv
<1>5. CASE ~(Size < remain)
      <2>1. /\ mem' = Copy(m1, 0, Run(ch, remain), 0, remain)
            /\ curr' = remain
            /\ UNCHANGED <<filling, tail>>
            /\ Accept(Run(ch, n), n)
            BY <1>1, <1>5 DEF FillRest
      <2>2. m1 \in Blocks /\ remain \in 0..Size
            BY <1>1, <1>5 DEF Blocks
      <2>3. mem' \in Blocks
            <3>1. \A i \in (0 + 1)..remain : Run(ch, remain)[i] \in Char \cup {Garbage}
                  BY <1>1 DEF Run
            <3> QED BY <1>1, <2>1, <2>2, <3>1, CopyBlock
      <2>4. want' \in [1..Limit -> Char \cup {Hole}] /\ wpos' \in Nat
            BY <1>1, <1>3, <2>1, AcceptType
      <2>5. TypeOK'
            BY <2>1, <2>2, <2>3, <2>4 DEF TypeOK, Files, Blocks
      <2>6. FillInv'
            BY <2>1 DEF FillInv
      <2>7. Faithful'
            <3> SUFFICES ASSUME fault' = "none"
                         PROVE  Shows(file', pos', mem', Pending', want', wpos')
                BY DEF Faithful
            <3>1. Shows(file', pos', m1, 0, w1, wpos + k)
                  BY <1>1 DEF Shows, w1
            <3>2. Shows(file', pos', Copy(m1, 0, Run(ch, remain), 0, remain),
                        0 + (remain - 0),
                        Copy(w1, wpos + k, Run(ch, remain), 0, remain),
                        (wpos + k) + (remain - 0))
                  <4>1. 0 \in 0..Size /\ 0 <= remain /\ 0 + (remain - 0) <= Size
                        BY <2>2
                  <4> QED BY <1>1, <1>2, <2>2, <3>1, <4>1, StoreShows
            <3>3. Copy(w1, wpos + k, Run(ch, remain), 0, remain)
                    = Copy(w1, wpos + k, Run(ch, n), k, n)
                  BY <1>1, <1>2, RestOfRun DEF remain
            <3>4. Copy(w1, wpos + k, Run(ch, n), k, n) = Copy(want, wpos, Run(ch, n), 0, n)
                  BY <1>1, <1>2, CopyTwice
            <3>5. /\ Pending' = 0 + (remain - 0)
                  /\ wpos' = (wpos + k) + (remain - 0)
                  /\ want' = Copy(want, wpos, Run(ch, n), 0, n)
                  BY <1>1, <2>1 DEF Pending, Accept
            <3> QED BY <2>1, <3>2, <3>3, <3>4, <3>5
      <2> QED BY <2>5, <2>6, <2>7 DEF IInv
<1> QED BY <1>4, <1>5

LEMMA FillNcInv ==
    ASSUME IInv, NEW ch \in Char, NEW n \in Counts, FillNc(ch, n)
    PROVE  IInv'
<1> USE SizeAssumption, LimitAssumption
<1>1. /\ TypeOK /\ Faithful /\ filling = 0 /\ Pending = curr /\ n \in Nat
      /\ open' = open
      BY CountsAssumption DEF IInv, FillNc, Idle, Pending
<1>2. /\ file \in Files /\ want \in Files /\ mem \in Blocks
      /\ pos \in Nat /\ wpos \in Nat /\ curr \in 0..Size
      BY <1>1, TypeFacts
<1>3. CASE FillFits(ch, n)
      <2>1. /\ Run(ch, n) \in Seq(Char) /\ StoreText(Run(ch, n))
            /\ UNCHANGED <<filling, tail, open>>
            BY <1>1, <1>3, RunIsText DEF FillFits
      <2>2. TypeOK' /\ Faithful'
            BY <1>1, <2>1, StoreTextInv
      <2>3. FillInv'
            BY <1>1, <2>1 DEF FillInv
      <2> QED BY <2>2, <2>3 DEF IInv
<1>4. CASE FillCold(ch, n)
      <2>1. /\ ~warm /\ 0 < n /\ warm' /\ curr = 0
            /\ FillRest(ch, n, n - 0)
            /\ UNCHANGED <<file, pos, fault>>
            BY <1>1, <1>4, TypeFacts DEF FillCold
      <2>2. ASSUME fault' = "none"
            PROVE  Shows(file', pos', mem, 0, Copy(want, wpos, Run(ch, 0), 0, 0), wpos + 0)
            <3>1. Shows(file, pos, mem, 0, want, wpos)
                  BY <1>1, <2>1, <2>2 DEF Faithful
            <3> QED BY <1>2, <2>1, <3>1 DEF Shows, Copy, Files
      <2>3. 0 \in 0..Size
            OBVIOUS
      <2>4. /\ file' \in Files /\ pos' \in Nat
            /\ fault' \in {"none", "short", "stale", "swallowed"}
            BY <1>1, <1>2, <2>1 DEF TypeOK
      <2> QED BY <1>1, <2>1, <2>2, <2>3, <2>4, FillRestInv
<1>5. CASE FillWarm(ch, n)
      <2> DEFINE room == Size - curr
                 full == Copy(mem, curr, Run(ch, room), 0, room)
                 w1 == Copy(want, wpos, Run(ch, room), 0, room)
      <2>1. PICK r \in DeviceWrite(file, pos, full, 0, Size) :
              /\ Device(r)
              /\ fault' = Unnoticed(r)
              /\ IF r.ok
                   THEN FillRest(ch, n, n - room)
                   ELSE /\ mem' = full
                        /\ curr' = Size
                        /\ UNCHANGED <<filling, tail>>
                        /\ Accept(Run(ch, room), room)
            BY <1>5 DEF FillWarm
      <2>2. warm /\ warm' = warm /\ room < n /\ room \in 0..Size /\ room \in Nat
            BY <1>2, <1>5 DEF FillWarm
      <2>3. /\ \A i \in (0 + 1)..room : Run(ch, room)[i] \in Char
            /\ \A i \in 1..room : Run(ch, room)[i] \in Char
            BY DEF Run
      <2>4. full \in Blocks /\ w1 \in Files /\ wpos + room \in Nat
            <3>1. /\ \A i \in (0 + 1)..room : Run(ch, room)[i] \in Char \cup {Garbage}
                  /\ \A i \in (0 + 1)..room : Run(ch, room)[i] \in Char \cup {Garbage, Hole}
                  BY <2>3
            <3>2. full \in Blocks
                  BY <1>2, <2>2, <3>1, CopyBlock
            <3>3. w1 \in Files
                  BY <1>2, <2>2, <3>1, CopyFile
            <3> QED BY <1>2, <2>2, <3>2, <3>3
      <2>5. /\ r.file \in [1..Limit -> Char \cup {Garbage, Hole}]
            /\ r.pos \in Nat
            /\ r.ok \in BOOLEAN
            /\ r.short \in BOOLEAN
            /\ ~r.ok => r.file = file /\ r.pos = pos /\ ~r.short
            /\ r.ok /\ ~r.short => /\ r.file = Copy(file, pos, full, 0, Size)
                                   /\ r.pos = pos + Size
            BY <1>1, <2>4, BlockWriteType
      <2>6. /\ fault' \in {"none", "short", "stale", "swallowed"}
            /\ fault' = "none" => fault = "none" /\ (r.ok => ~r.short)
            BY <1>1, <2>1, <2>5 DEF Unnoticed, TypeOK
      <2>7. fault' = "none" => Shows(file, pos, full, Size, w1, wpos + room)
            <3> SUFFICES ASSUME fault' = "none"
                         PROVE  Shows(file, pos, full, Size, w1, wpos + room)
                OBVIOUS
            <3>1. Shows(file, pos, mem, curr, want, wpos)
                  BY <1>1, <2>6 DEF Faithful
            <3>2. Shows(file, pos, full, curr + (room - 0), w1, wpos + (room - 0))
                  <4>1. 0 \in Nat /\ 0 <= room /\ curr + (room - 0) <= Size
                        BY <1>2
                  <4> QED BY <1>2, <2>2, <3>1, <4>1, StoreShows
            <3>3. curr + (room - 0) = Size /\ wpos + (room - 0) = wpos + room
                  BY <1>2
            <3> QED BY <3>2, <3>3
      <2>8. file' \in Files /\ pos' \in Nat
            BY <2>1, <2>5 DEF Device, Files
      <2>9. CASE r.ok
            <3>1. FillRest(ch, n, n - room)
                  BY <2>1, <2>9
            <3>2. fault' = "none" => Shows(file', pos', mem, 0, w1, wpos + room)
                  <4> SUFFICES ASSUME fault' = "none"
                               PROVE  Shows(file', pos', mem, 0, w1, wpos + room)
                      OBVIOUS
                  <4>1. file' = Copy(file, pos, full, 0, Size) /\ pos' = pos + Size
                        BY <2>1, <2>5, <2>6, <2>9 DEF Device
                  <4> HIDE DEF full, w1
                  <4> QED BY <1>2, <2>4, <2>7, <4>1, SpillShows
            <3> HIDE DEF full, room
            <3> QED BY <1>1, <2>2, <2>6, <2>8, <3>1, <3>2, FillRestInv
      <2>10. CASE ~r.ok
            <3>1. /\ mem' = full /\ curr' = Size /\ UNCHANGED <<filling, tail>>
                  /\ Accept(Run(ch, room), room)
                  /\ file' = file /\ pos' = pos
                  BY <2>1, <2>5, <2>10 DEF Device
            <3>2. want' \in [1..Limit -> Char \cup {Hole}] /\ wpos' \in Nat
                  BY <1>1, <2>2, <2>3, <3>1, AcceptType
            <3>3. TypeOK'
                  BY <1>1, <2>2, <2>4, <2>6, <3>1, <3>2 DEF TypeOK, Blocks
            <3>4. FillInv'
                  BY <1>1, <3>1 DEF FillInv
            <3>5. Faithful'
                  BY <1>1, <2>7, <3>1 DEF Faithful, Pending, Accept
            <3> QED BY <3>3, <3>4, <3>5 DEF IInv
      <2> QED BY <2>5, <2>9, <2>10
<1> QED BY <1>3, <1>4, <1>5 DEF FillNc

LEMMA FillStepInv ==
    ASSUME IInv, FillStep
    PROVE  IInv'
<1> USE SizeAssumption, LimitAssumption
<1> DEFINE w1 == Copy(want, wpos, mem, 0, Size)
           kept == IF filling = 1 THEN tail ELSE 0
<1>1. /\ TypeOK /\ Faithful /\ FillInv /\ filling > 0 /\ Pending = 0
      /\ mem \in [1..Size -> Char]
      /\ UNCHANGED <<warm, mem, open>>
      BY DEF IInv, FillInv, FillStep, Pending, Run
<1>2. PICK r \in DeviceWrite(file, pos, mem, 0, Size) :
        /\ Device(r)
        /\ fault' = Unnoticed(r)
        /\ IF ~r.ok
             THEN /\ filling' = 0
                  /\ tail' = 0
                  /\ curr' = Size
                  /\ want' = Copy(want, wpos, mem, 0, Size)
                  /\ wpos' = wpos + Size
             ELSE /\ filling' = filling - 1
                  /\ tail' = IF filling = 1 THEN 0 ELSE tail
                  /\ curr' = IF filling = 1 THEN tail ELSE 1
                  /\ want' = Copy(Copy(want, wpos, mem, 0, Size),
                                  wpos + Size, mem, 0, kept)
                  /\ wpos' = wpos + Size + kept
      BY DEF FillStep
<1>3. /\ file \in Files /\ want \in Files /\ mem \in Blocks
      /\ pos \in Nat /\ wpos \in Nat /\ curr \in 0..Size
      /\ tail \in 0..(Size - 1) /\ filling \in Nat /\ warm
      /\ want \in [1..Limit -> Char \cup {Hole}]
      /\ Size \in 0..Size
      BY <1>1, TypeFacts DEF TypeOK
<1>4. kept \in 0..Size /\ kept \in Nat
      BY <1>3
<1>5. /\ r.file \in [1..Limit -> Char \cup {Garbage, Hole}]
      /\ r.pos \in Nat
      /\ r.ok \in BOOLEAN
      /\ r.short \in BOOLEAN
      /\ ~r.ok => r.file = file /\ r.pos = pos /\ ~r.short
      /\ r.ok /\ ~r.short => /\ r.file = Copy(file, pos, mem, 0, Size)
                             /\ r.pos = pos + Size
      BY <1>1, <1>3, BlockWriteType
<1>6. /\ fault' \in {"none", "short", "stale", "swallowed"}
      /\ fault' = "none" => fault = "none" /\ (r.ok => ~r.short)
      BY <1>1, <1>2, <1>5 DEF Unnoticed, TypeOK
<1>7. /\ file' \in [1..Limit -> Char \cup {Garbage, Hole}] /\ pos' \in Nat
      /\ file' \in Files
      BY <1>2, <1>5 DEF Device, Files
<1>8. /\ w1 \in [1..Limit -> Char \cup {Hole}] /\ w1 \in Files
      /\ wpos + Size \in Nat
      <2>1. /\ \A i \in (0 + 1)..Size : mem[i] \in Char \cup {Hole}
            BY <1>1
      <2>2. w1 \in [1..Limit -> Char \cup {Hole}]
            BY <1>3, <2>1, CopyType
      <2> QED BY <1>3, <2>2 DEF Files
<1>9. CASE ~r.ok
      <2>1. /\ filling' = 0 /\ tail' = 0 /\ curr' = Size
            /\ want' = w1 /\ wpos' = wpos + Size /\ file' = file /\ pos' = pos
            BY <1>2, <1>5, <1>9 DEF Device
      <2>2. TypeOK'
            BY <1>1, <1>3, <1>6, <1>7, <1>8, <2>1 DEF TypeOK
      <2>3. FillInv'
            BY <2>1 DEF FillInv
      <2>4. Faithful'
            <3> SUFFICES ASSUME fault' = "none"
                         PROVE  Shows(file, pos, mem, Size, w1, wpos + Size)
                BY <1>1, <2>1 DEF Faithful, Pending
            <3>1. Shows(file, pos, mem, 0, want, wpos)
                  BY <1>1, <1>6 DEF Faithful
            <3>2. Shows(file, pos, Copy(mem, 0, mem, 0, Size), 0 + (Size - 0),
                        w1, wpos + (Size - 0))
                  <4>1. /\ 0 \in 0..Size /\ 0 \in Nat /\ Size \in Nat
                        /\ 0 <= Size /\ 0 + (Size - 0) <= Size
                        OBVIOUS
                  <4> QED BY <1>3, <3>1, <4>1, StoreShows
            <3>3. Copy(mem, 0, mem, 0, Size) = mem
                  BY <1>3, CopySelf
            <3>4. 0 + (Size - 0) = Size /\ wpos + (Size - 0) = wpos + Size
                  BY <1>3
            <3> QED BY <3>2, <3>3, <3>4
      <2> QED BY <2>2, <2>3, <2>4 DEF IInv
<1>10. CASE r.ok
      <2> DEFINE w2 == Copy(w1, wpos + Size, mem, 0, kept)
      <2>1. /\ filling' = filling - 1
            /\ tail' = IF filling = 1 THEN 0 ELSE tail
            /\ curr' = IF filling = 1 THEN tail ELSE 1
            /\ want' = w2 /\ wpos' = (wpos + Size) + kept
            BY <1>2, <1>10
      <2>2. w2 \in [1..Limit -> Char \cup {Hole}]
            <3>1. /\ \A i \in (0 + 1)..kept : mem[i] \in Char \cup {Hole}
                  /\ 0 \in Nat
                  BY <1>1, <1>4
            <3> HIDE DEF w1, kept
            <3> QED BY <1>4, <1>8, <3>1, CopyType
      <2>3. TypeOK'
            <3>1. /\ filling' \in Nat /\ tail' \in 0..(Size - 1) /\ curr' \in 0..Size
                  /\ wpos' \in Nat
                  BY <1>1, <1>3, <1>4, <2>1
            <3> HIDE DEF w1, w2, kept
            <3> QED BY <1>1, <1>3, <1>6, <1>7, <2>1, <2>2, <3>1 DEF TypeOK
      <2>4. FillInv'
            BY <1>1 DEF FillInv
      <2>5. Faithful'
            <3> SUFFICES ASSUME fault' = "none"
                         PROVE  Shows(file', pos', mem', Pending', want', wpos')
                BY DEF Faithful
            <3>1. Shows(file, pos, mem, 0, want, wpos)
                  BY <1>1, <1>6 DEF Faithful
            <3>2. Shows(Copy(file, pos, mem, 0, Size), pos + (Size - 0), mem, 0,
                        w1, wpos + (Size - 0))
                  <4>1. 0 \in Nat /\ Size \in Nat /\ 0 <= Size
                        OBVIOUS
                  <4> QED BY <1>3, <3>1, <4>1, ThroughShows
            <3>3. Shows(file', pos', mem, 0, w1, wpos + Size)
                  BY <1>2, <1>3, <1>5, <1>6, <1>10, <3>2 DEF Device
            <3> HIDE DEF w1
            <3>4. Shows(file', pos', Copy(mem, 0, mem, 0, kept), 0 + (kept - 0),
                        w2, (wpos + Size) + (kept - 0))
                  <4>1. /\ 0 \in 0..Size /\ 0 \in Nat
                        /\ 0 <= kept /\ 0 + (kept - 0) <= Size
                        BY <1>4
                  <4> HIDE DEF kept
                  <4> QED BY <1>3, <1>4, <1>7, <1>8, <3>3, <4>1, StoreShows
            <3>5. Copy(mem, 0, mem, 0, kept) = mem
                  BY <1>3, <1>4, CopySelf
            <3>6. Pending' = 0 + (kept - 0)
                  BY <1>1, <1>3, <2>1 DEF Pending
            <3>7. wpos' = (wpos + Size) + (kept - 0)
                  BY <1>3, <1>4, <2>1
            <3> HIDE DEF kept, w2
            <3> QED BY <1>1, <2>1, <3>4, <3>5, <3>6, <3>7
      <2> QED BY <2>3, <2>4, <2>5 DEF IInv
<1> QED BY <1>5, <1>9, <1>10

-------------------------------------------------------------------------------
(* flush, seek and the destructor *)

\* A write of what is pending that succeeds leaves nothing pending.
LEMMA DrainShows ==
    ASSUME TypeOK, filling = 0, NEW r \in DeviceWrite(file, pos, mem, 0, curr)
    PROVE  /\ r.file \in [1..Limit -> Char \cup {Garbage, Hole}]
           /\ r.pos \in Nat
           /\ r.ok \in BOOLEAN
           /\ r.short \in BOOLEAN
           /\ ~r.ok => r.file = file /\ r.pos = pos /\ ~r.short
           /\ Faithful /\ fault = "none" /\ r.ok /\ ~r.short =>
                \A m2 : Shows(r.file, r.pos, m2, 0, want, wpos)
<1>1. mem \in Blocks /\ curr \in 0..Size
      BY TypeFacts
<1>2. /\ r.file \in [1..Limit -> Char \cup {Garbage, Hole}]
      /\ r.pos \in Nat
      /\ r.ok \in BOOLEAN
      /\ r.short \in BOOLEAN
      /\ ~r.ok => r.file = file /\ r.pos = pos /\ ~r.short
      /\ r.ok /\ ~r.short => /\ r.file = Copy(file, pos, mem, 0, curr)
                             /\ r.pos = pos + curr
      BY <1>1, BlockWriteType
<1>3. ASSUME Faithful, fault = "none", r.ok, ~r.short, NEW m2
      PROVE  Shows(r.file, r.pos, m2, 0, want, wpos)
      <2>1. Shows(file, pos, mem, curr, want, wpos)
            BY <1>3 DEF Faithful, Pending
      <2>2. Shows(Copy(file, pos, mem, 0, curr), pos + curr, m2, 0, want, wpos)
            BY <2>1, TypeFacts, SpillShows
      <2> QED BY <1>2, <1>3, <2>2
<1> QED BY <1>2, <1>3

LEMMA FlushInv ==
    ASSUME IInv, Flush
    PROVE  IInv'
<1> USE SizeAssumption, LimitAssumption
<1>1. /\ TypeOK /\ Faithful /\ filling = 0 /\ Pending = curr
      /\ UNCHANGED <<warm, mem, filling, tail, open, want, wpos>>
      BY DEF IInv, Flush, Idle, Pending
<1>2. PICK r \in DeviceWrite(file, pos, mem, 0, curr) :
        /\ Device(r)
        /\ fault' = Unnoticed(r)
        /\ curr' = IF r.ok THEN 0 ELSE curr
      BY DEF Flush
<1>3. /\ r.file \in [1..Limit -> Char \cup {Garbage, Hole}]
      /\ r.pos \in Nat
      /\ r.ok \in BOOLEAN
      /\ r.short \in BOOLEAN
      /\ ~r.ok => r.file = file /\ r.pos = pos /\ ~r.short
      /\ fault = "none" /\ r.ok /\ ~r.short =>
           \A m2 : Shows(r.file, r.pos, m2, 0, want, wpos)
      BY <1>1, DrainShows
<1>4. /\ fault' \in {"none", "short", "stale", "swallowed"}
      /\ fault' = "none" => fault = "none" /\ (r.ok => ~r.short)
      BY <1>1, <1>2, <1>3 DEF Unnoticed, TypeOK
<1>5. TypeOK'
      <2>1. curr' \in 0..Size /\ (~warm => curr' = 0)
            BY <1>1, <1>2 DEF TypeOK
      <2> QED BY <1>1, <1>2, <1>3, <1>4, <2>1 DEF TypeOK, Device
<1>6. FillInv'
      BY <1>1 DEF FillInv
<1>7. Faithful'
      <2>1. CASE r.ok
            BY <1>1, <1>2, <1>3, <1>4, <2>1 DEF Faithful, Pending, Device
      <2>2. CASE ~r.ok
            BY <1>1, <1>2, <1>3, <1>4, <2>2 DEF Faithful, Pending, Device
      <2> QED BY <2>1, <2>2
<1> QED BY <1>5, <1>6, <1>7 DEF IInv

LEMMA SeekInv ==
    ASSUME IInv, NEW p \in Seeks, Seek(p)
    PROVE  IInv'
<1> USE SizeAssumption, LimitAssumption
<1>1. /\ TypeOK /\ Faithful /\ filling = 0 /\ Pending = curr /\ p \in Nat
      /\ UNCHANGED <<warm, mem, filling, tail, open, want>>
      BY SeeksAssumption DEF IInv, Seek, Idle, Pending
<1>2. PICK r \in IF curr = 0 THEN {Full(file, pos, mem, 0, 0)}
                            ELSE DeviceWrite(file, pos, mem, 0, curr) :
        /\ fault' = Unnoticed(r)
        /\ file' = r.file
        /\ curr' = IF r.ok THEN 0 ELSE curr
        /\ \/ /\ r.ok
              /\ pos' = p
              /\ wpos' = p
           \/ /\ r.ok => "error" \in Faults
              /\ pos' = r.pos
              /\ UNCHANGED wpos
      BY DEF Seek
<1>3. r \in DeviceWrite(file, pos, mem, 0, curr)
      BY <1>2 DEF DeviceWrite
<1>4. /\ r.file \in [1..Limit -> Char \cup {Garbage, Hole}]
      /\ r.pos \in Nat
      /\ r.ok \in BOOLEAN
      /\ r.short \in BOOLEAN
      /\ ~r.ok => r.file = file /\ r.pos = pos /\ ~r.short
      /\ fault = "none" /\ r.ok /\ ~r.short =>
           \A m2 : Shows(r.file, r.pos, m2, 0, want, wpos)
      BY <1>1, <1>3, DrainShows
<1>5. /\ fault' \in {"none", "short", "stale", "swallowed"}
      /\ fault' = "none" => fault = "none" /\ (r.ok => ~r.short)
      BY <1>1, <1>2, <1>4 DEF Unnoticed, TypeOK
<1>6. TypeOK'
      <2>1. curr' \in 0..Size /\ (~warm => curr' = 0)
            BY <1>1, <1>2 DEF TypeOK
      <2>2. pos' \in Nat /\ wpos' \in Nat
            BY <1>1, <1>2, <1>4 DEF TypeOK
      <2> QED BY <1>1, <1>2, <1>4, <1>5, <2>1, <2>2 DEF TypeOK
<1>7. FillInv'
      BY <1>1 DEF FillInv
<1>8. Faithful'
      <2> SUFFICES ASSUME fault' = "none"
                   PROVE  Shows(file', pos', mem', Pending', want', wpos')
          BY DEF Faithful
      <2>0. Pending' = curr'
            BY <1>1 DEF Pending
      <2>1. CASE r.ok
            <3>1. Shows(r.file, r.pos, mem, 0, want, wpos)
                  BY <1>4, <1>5, <2>1
            <3>2. Shows(r.file, p, mem, 0, want, p)
                  <4>1. \A i \in 1..Limit : want[i] = r.file[i]
                        BY <1>4, <3>1 DEF Shows
                  <4>2. p + 0 = p /\ \A i \in 1..Limit : ~(p < i /\ i <= p + 0)
                        BY <1>1
                  <4> QED BY <4>1, <4>2 DEF Shows
            <3> QED BY <1>1, <1>2, <2>0, <2>1, <3>1, <3>2
      <2>2. CASE ~r.ok
            BY <1>1, <1>2, <1>4, <1>5, <2>0, <2>2 DEF Faithful
      <2> QED BY <2>1, <2>2
<1> QED BY <1>6, <1>7, <1>8 DEF IInv

LEMMA CloseInv ==
    ASSUME IInv, Close
    PROVE  IInv'
<1> USE SizeAssumption, LimitAssumption
<1>1. /\ TypeOK /\ Faithful /\ filling = 0 /\ Pending = curr
      /\ UNCHANGED <<filling, tail, want, wpos>>
      /\ open' = FALSE /\ warm' = FALSE /\ curr' = 0 /\ mem' = Fresh
      BY DEF IInv, Close, Idle, Pending
<1>2. mem' \in [1..Size -> Char \cup {Garbage}] /\ curr' \in 0..Size
      BY <1>1 DEF Fresh
<1>6. open' \in BOOLEAN /\ warm' \in BOOLEAN
      BY <1>1, Zenon
<1>7. filling' = 0 /\ tail' = tail /\ want' = want /\ wpos' = wpos /\ curr' = 0
      BY <1>1
<1>3. FillInv' /\ Pending' = 0
      BY <1>1 DEF FillInv, Pending
<1>4. CASE warm
      <2>1. PICK r \in DeviceWrite(file, pos, mem, 0, curr) :
              /\ Device(r)
              /\ fault' = IF ~r.ok /\ curr > 0 /\ fault = "none"
                            THEN "swallowed" ELSE Unnoticed(r)
            BY <1>4 DEF Close
      <2>2. /\ r.file \in [1..Limit -> Char \cup {Garbage, Hole}]
            /\ r.pos \in Nat
            /\ r.ok \in BOOLEAN
            /\ r.short \in BOOLEAN
            /\ ~r.ok => r.file = file /\ r.pos = pos /\ ~r.short
            /\ fault = "none" /\ r.ok /\ ~r.short =>
                 \A m2 : Shows(r.file, r.pos, m2, 0, want, wpos)
            BY <1>1, DrainShows
      <2>3. /\ fault' \in {"none", "short", "stale", "swallowed"}
            /\ fault' = "none" => /\ fault = "none"
                                 /\ (r.ok => ~r.short)
                                 /\ (~r.ok => curr = 0)
            BY <1>1, <2>1, <2>2, TypeFacts DEF Unnoticed, TypeOK
      <2>4. TypeOK'
            BY <1>1, <1>2, <1>6, <1>7, <2>1, <2>2, <2>3 DEF TypeOK, Device
      <2>5. Faithful'
            <3> SUFFICES ASSUME fault' = "none"
                         PROVE  Shows(file', pos', mem', 0, want', wpos')
                BY <1>3 DEF Faithful
            <3>1. CASE r.ok
                  BY <1>1, <2>1, <2>2, <2>3, <3>1 DEF Device
            <3>2. CASE ~r.ok
                  <4>1. Shows(file, pos, mem, 0, want, wpos)
                        BY <1>1, <2>3, <3>2 DEF Faithful
                  <4>2. Shows(file, pos, Fresh, 0, want, wpos)
                        BY <1>1, <4>1 DEF Shows, TypeOK
                  <4> QED BY <1>1, <2>1, <2>2, <3>2, <4>2 DEF Device
            <3> QED BY <2>2, <3>1, <3>2
      <2> QED BY <1>3, <2>4, <2>5 DEF IInv
<1>5. CASE ~warm
      <2>1. UNCHANGED <<file, pos, fault>> /\ curr = 0
            BY <1>1, <1>5, TypeFacts DEF Close
      <2>2. TypeOK'
            BY <1>1, <1>2, <1>6, <1>7, <2>1 DEF TypeOK
      <2>3. Faithful'
            BY <1>1, <1>3, <2>1 DEF Faithful, Shows, TypeOK
      <2> QED BY <1>3, <2>2, <2>3 DEF IInv
<1> QED BY <1>4, <1>5

-------------------------------------------------------------------------------
(* The theorems *)

LEMMA StutterInv ==
    ASSUME IInv, UNCHANGED vars
    PROVE  IInv'
<1>1. TypeOK'
      BY DEF IInv, TypeOK, vars, bufVars, devVars, histVars
<1>2. FillInv'
      BY DEF IInv, FillInv, vars, bufVars, devVars, histVars
<1>3. Faithful'
      BY DEF IInv, Faithful, Pending, vars, bufVars, devVars, histVars
<1> QED BY <1>1, <1>2, <1>3 DEF IInv

LEMMA NextInv ==
    ASSUME IInv, [Next]_vars
    PROVE  IInv'
<1>1. CASE \E ch \in Char : Put(ch)
      BY <1>1, PutInv
<1>2. CASE \E s \in Texts : Write(s)
      BY <1>2, WriteInv
<1>3. CASE \E s \in Texts : \E n \in Reserves : PrintReserve(s, n)
      BY <1>3, PrintReserveInv
<1>4. CASE \E ch \in Char : \E n \in Counts : FillNc(ch, n)
      BY <1>4, FillNcInv
<1>5. CASE FillStep
      BY <1>5, FillStepInv
<1>6. CASE Flush
      BY <1>6, FlushInv
<1>7. CASE \E p \in Seeks : Seek(p)
      BY <1>7, SeekInv
<1>8. CASE Close
      BY <1>8, CloseInv
<1>9. CASE UNCHANGED vars
      BY <1>9, StutterInv
<1> QED BY <1>1, <1>2, <1>3, <1>4, <1>5, <1>6, <1>7, <1>8, <1>9 DEF Next

\* The inductive invariant holds in every behaviour of basic_obuf.
THEOREM Invariance == Spec => []IInv
<1>1. Init => IInv
      BY InitInv
<1>2. IInv /\ [Next]_vars => IInv'
      BY NextInv
<1> QED BY <1>1, <1>2, PTL DEF Spec

\* The pointers beg <= curr <= end of basic_obuf stay ordered and inside the
\* block, whatever the client calls and the device does.
THEOREM TypeCorrect == Spec => []TypeOK
<1>1. IInv => TypeOK
      BY DEF IInv
<1> QED BY <1>1, Invariance, PTL

\* Whatever mix of put, write, print, fill, flush and seek a client makes, and
\* whichever device writes throw, basic_obuf delivers the file an unbuffered
\* device would hold: for every block size, set of texts and bound.
THEOREM Invisible == Spec => []BufferingIsInvisible
<1>1. IInv => BufferingIsInvisible
      BY FaithfulIsInvisible DEF IInv
<1> QED BY <1>1, Invariance, PTL

(***************************************************************************)
(* basic_obuf implements the unbuffered stream of module FileStream, for   *)
(* every block size, character set, bound, set of arguments and behaviour  *)
(* of the device.                                                          *)
(***************************************************************************)

Pieces == Texts \cup {Run(ch, n) : ch \in Char, n \in 0..(2 * Size)}

\* What a step does to the file that the client thinks of.
Effect ==
    \/ UNCHANGED <<want, wpos>>
    \/ \E s \in Pieces : \E n \in 0..Len(s) : Accept(s, n)
    \/ \E p \in Seeks : want' = want /\ wpos' = p

LEMMA EffectOfText ==
    ASSUME NEW s \in Texts, Accept(s, Len(s))
    PROVE  Effect
<1>1. s \in Pieces /\ Len(s) \in 0..Len(s)
      BY TextsAssumption DEF Pieces
<1> QED BY <1>1 DEF Effect

LEMMA EffectOfRun ==
    ASSUME NEW ch \in Char, NEW n \in 0..(2 * Size), Accept(Run(ch, n), n)
    PROVE  Effect
<1>1. Run(ch, n) \in Pieces
      BY DEF Pieces
<1>2. n \in 0..Len(Run(ch, n))
      BY SizeAssumption, RunIsText
<1> QED BY <1>1, <1>2 DEF Effect

LEMMA EffectOfFillRest ==
    ASSUME TypeOK, NEW ch \in Char, NEW n \in Nat, NEW k \in 0..Size, k < n,
           FillRest(ch, n, n - k)
    PROVE  Effect
<1> USE SizeAssumption
<1>1. n - (n - k) = k /\ k \in Nat /\ k <= n /\ k \in 0..(2 * Size)
      OBVIOUS
<1>2. CASE Size < n - k
      <2>1. Accept(Run(ch, n), k)
            BY <1>1, <1>2 DEF FillRest
      <2>2. Copy(want, wpos, Run(ch, n), 0, k) = Copy(want, wpos, Run(ch, k), 0, k)
            <3>1. want \in Files /\ wpos \in Nat
                  BY TypeFacts
            <3>2. 0 \in Nat /\ k <= k /\ k - 0 = k - 0
                  BY <1>1
            <3> QED BY <1>1, <3>1, <3>2, CopyRun
      <2>3. Accept(Run(ch, k), k)
            BY <2>1, <2>2 DEF Accept
      <2> QED BY <1>1, <2>3, EffectOfRun
<1>3. CASE ~(Size < n - k)
      <2>1. Accept(Run(ch, n), n) /\ n \in 0..(2 * Size)
            BY <1>3 DEF FillRest
      <2> QED BY <2>1, EffectOfRun
<1> QED BY <1>2, <1>3

LEMMA EffectOfChar ==
    ASSUME NEW ch \in Char, Accept(<<ch>>, 1)
    PROVE  Effect
<1>1. <<ch>> = Run(ch, 1)
      BY DEF Run
<1>2. 1 \in 0..(2 * Size)
      BY SizeAssumption
<1> QED BY <1>1, <1>2, EffectOfRun

LEMMA PutEffect ==
    ASSUME NEW ch \in Char, Put(ch)
    PROVE  Effect /\ (fault' = "none" => fault = "none")
<1>1. CASE StoreChar(ch)
      BY <1>1, EffectOfChar DEF StoreChar
<1>2. CASE OverflowCold(ch)
      BY <1>2, EffectOfChar DEF OverflowCold
<1>3. CASE OverflowWarm(ch)
      <2>1. Accept(<<ch>>, 1) \/ Refused
            BY <1>3 DEF OverflowWarm
      <2>2. fault' = "none" => fault = "none"
            BY <1>3 DEF OverflowWarm, Unnoticed
      <2> QED BY <2>1, <2>2, EffectOfChar DEF Refused, Effect
<1> QED BY <1>1, <1>2, <1>3 DEF Put

LEMMA WriteTextEffect ==
    ASSUME NEW s \in Texts, WriteText(s)
    PROVE  Effect /\ (fault' = "none" => fault = "none")
<1>1. CASE StoreText(s)
      BY <1>1, EffectOfText DEF StoreText
<1>2. CASE WriteThrough(s)
      <2>1. Accept(s, Len(s)) \/ Refused
            BY <1>2 DEF WriteThrough
      <2>2. fault' = "none" => fault = "none"
            BY <1>2 DEF WriteThrough, Unnoticed
      <2> QED BY <2>1, <2>2, EffectOfText DEF Refused, Effect
<1>3. CASE WriteCold(s)
      BY <1>3, EffectOfText DEF WriteCold
<1>4. CASE SpillFails(s)
      BY <1>4 DEF SpillFails, Refused, Effect
<1>5. CASE SpillAndKeep(s)
      <2>1. fault' = "none" => fault = "none"
            BY <1>5 DEF SpillAndKeep, Unnoticed
      <2> QED BY <1>5, <2>1, EffectOfText DEF SpillAndKeep
<1>6. CASE SpillAndPass(s)
      <2>1. Accept(s, Len(s)) \/ Refused
            BY <1>6 DEF SpillAndPass
      <2>2. fault' = "none" => fault = "none"
            BY <1>6 DEF SpillAndPass
      <2> QED BY <2>1, <2>2, EffectOfText DEF Refused, Effect
<1> QED BY <1>1, <1>2, <1>3, <1>4, <1>5, <1>6 DEF WriteText

LEMMA FillEffect ==
    ASSUME IInv, NEW ch \in Char, NEW n \in Counts, FillNc(ch, n)
    PROVE  Effect /\ (fault' = "none" => fault = "none")
<1> USE SizeAssumption
<1>1. TypeOK /\ n \in Nat
      BY CountsAssumption DEF IInv
<1>2. CASE FillFits(ch, n)
      <2>1. StoreText(Run(ch, n)) /\ Len(Run(ch, n)) = n
            BY <1>1, <1>2, RunIsText DEF FillFits
      <2>2. Accept(Run(ch, n), n) /\ fault' = fault
            BY <2>1 DEF StoreText
      <2>3. curr \in 0..Size /\ End \in {0, Size} /\ n <= End - curr
            BY <1>1, <1>2, TypeFacts DEF FillFits
      <2>4. n \in 0..(2 * Size)
            BY <1>1, <2>3
      <2> QED BY <2>2, <2>4, EffectOfRun
<1>3. CASE FillCold(ch, n)
      <2>1. FillRest(ch, n, n - 0) /\ 0 < n /\ fault' = fault /\ 0 \in 0..Size
            BY <1>1, <1>3 DEF FillCold
      <2> QED BY <1>1, <2>1, EffectOfFillRest
<1>4. CASE FillWarm(ch, n)
      <2> DEFINE room == Size - curr
      <2>1. /\ FillRest(ch, n, n - room) \/ Accept(Run(ch, room), room)
            /\ fault' = "none" => fault = "none"
            BY <1>4 DEF FillWarm, Unnoticed
      <2>2. room \in 0..Size /\ room < n /\ room \in 0..(2 * Size)
            BY <1>1, <1>4, TypeFacts DEF FillWarm
      <2> HIDE DEF room
      <2> QED BY <1>1, <2>1, <2>2, EffectOfFillRest, EffectOfRun
<1> QED BY <1>2, <1>3, <1>4 DEF FillNc

LEMMA FillStepEffect ==
    ASSUME IInv, FillStep
    PROVE  Effect /\ (fault' = "none" => fault = "none")
<1> USE SizeAssumption
<1> DEFINE kept == IF filling = 1 THEN tail ELSE 0
<1>1. PICK ch \in Char : mem = Run(ch, Size)
      BY DEF IInv, FillInv, FillStep
<1>2. /\ TypeOK /\ want \in Files /\ wpos \in Nat /\ kept \in 0..Size
      BY TypeFacts DEF IInv, TypeOK
<1>3. fault' = "none" => fault = "none"
      BY DEF FillStep, Unnoticed
<1>4. \/ want' = Copy(want, wpos, mem, 0, Size) /\ wpos' = wpos + Size
      \/ /\ want' = Copy(Copy(want, wpos, mem, 0, Size), wpos + Size, mem, 0, kept)
         /\ wpos' = wpos + Size + kept
      BY DEF FillStep
<1>5. CASE want' = Copy(want, wpos, mem, 0, Size) /\ wpos' = wpos + Size
      <2>1. Accept(Run(ch, Size), Size) /\ Size \in 0..(2 * Size)
            BY <1>1, <1>5 DEF Accept
      <2> QED BY <1>3, <2>1, EffectOfRun
<1>6. CASE /\ want' = Copy(Copy(want, wpos, mem, 0, Size), wpos + Size, mem, 0, kept)
           /\ wpos' = wpos + Size + kept
      <2> DEFINE all == Size + kept
                 w1 == Copy(want, wpos, mem, 0, Size)
      <2>1. all \in Nat /\ all \in 0..(2 * Size) /\ Size <= all /\ kept \in Nat
            BY <1>2
      <2> HIDE DEF kept
      <2>2. w1 = Copy(want, wpos, Run(ch, all), 0, Size)
            BY <1>1, <1>2, <2>1, CopyRun
      <2>3. w1 \in Files /\ wpos + Size \in Nat
            <3>1. \A i \in (0 + 1)..Size : mem[i] \in Char \cup {Garbage, Hole}
                  BY <1>1 DEF Run
            <3> QED BY <1>2, <3>1, CopyFile
      <2> HIDE DEF w1
      <2>4. Copy(w1, wpos + Size, mem, 0, kept) = Copy(w1, wpos + Size, Run(ch, all), Size, all)
            <3>1. /\ Size \in Nat /\ 0 \in Nat /\ kept <= Size /\ all <= all
                  /\ all - Size = kept - 0
                  BY <1>2, <2>1
            <3> QED BY <1>1, <2>1, <2>3, <3>1, CopyRun
      <2>5. Copy(w1, wpos + Size, Run(ch, all), Size, all)
              = Copy(want, wpos, Run(ch, all), 0, all)
            BY <1>2, <2>1, <2>2, CopyTwice
      <2>6. wpos' = wpos + all
            BY <1>2, <1>6, <2>1
      <2>7. Accept(Run(ch, all), all)
            BY <1>6, <2>4, <2>5, <2>6 DEF Accept, w1
      <2> HIDE DEF all
      <2> QED BY <1>3, <2>1, <2>7, EffectOfRun
<1> QED BY <1>4, <1>5, <1>6

LEMMA StepEffect ==
    ASSUME IInv, Next
    PROVE  Effect /\ (fault' = "none" => fault = "none")
<1>1. CASE \E ch \in Char : Put(ch)
      BY <1>1, PutEffect
<1>2. CASE \E s \in Texts : Write(s)
      BY <1>2, WriteTextEffect DEF Write
<1>3. CASE \E s \in Texts : \E n \in Reserves : PrintReserve(s, n)
      BY <1>3, WriteTextEffect DEF PrintReserve, WriteText
<1>4. CASE \E ch \in Char : \E n \in Counts : FillNc(ch, n)
      BY <1>4, FillEffect
<1>5. CASE FillStep
      BY <1>5, FillStepEffect
<1>6. CASE Flush
      BY <1>6 DEF Flush, Unnoticed, Effect
<1>7. CASE \E p \in Seeks : Seek(p)
      BY <1>7 DEF Seek, Unnoticed, Effect
<1>8. CASE Close
      BY <1>8 DEF Close, Unnoticed, Effect
<1> QED BY <1>1, <1>2, <1>3, <1>4, <1>5, <1>6, <1>7, <1>8 DEF Next

LEMMA InitRefines == Init => Plain!StreamInit
<1> SUFFICES ASSUME Init PROVE Plain!StreamInit
    OBVIOUS
<1>1. IInv
      BY InitInv
<1>2. Content = want /\ At = wpos /\ fault = "none"
      BY <1>1, FaithfulIsInvisible DEF IInv, Init, BufferingIsInvisible
<1> QED BY <1>2 DEF Init, Plain!StreamInit

LEMMA NextRefines ==
    ASSUME IInv, IInv', [Next]_vars
    PROVE  [Plain!StreamNext]_(Plain!sVars)
<1>1. CASE UNCHANGED vars
      <2>1. UNCHANGED <<Content, At, fault>>
            BY <1>1 DEF vars, bufVars, devVars, histVars, Content, At, Pending
      <2> QED BY <2>1 DEF Plain!sVars
<1>2. CASE Next /\ fault' # "none"
      BY <1>2 DEF Plain!StreamNext, Plain!Break
<1>3. CASE Next /\ fault' = "none"
      <2>1. Effect /\ fault = "none"
            BY <1>3, StepEffect
      <2>2. Content = want /\ At = wpos
            BY <2>1, FaithfulIsInvisible DEF IInv, BufferingIsInvisible
      <2>3. Content' = want' /\ At' = wpos'
            <3>1. (Content = want /\ At = wpos)'
                  <4>1. TypeOK' /\ Faithful'
                        BY DEF IInv
                  <4>2. (TypeOK => (Faithful <=> BufferingIsInvisible))'
                        BY FaithfulIsInvisible, PTL
                  <4>3. BufferingIsInvisible'
                        BY <4>1, <4>2
                  <4> QED BY <1>3, <4>3 DEF BufferingIsInvisible
            <3> QED BY <3>1
      <2>4. CASE UNCHANGED <<want, wpos>>
            BY <1>3, <2>1, <2>2, <2>3, <2>4 DEF Plain!sVars
      <2>5. CASE \E s \in Pieces : \E n \in 0..Len(s) : Accept(s, n)
            <3>3. PICK s \in Pieces : \E n \in 0..Len(s) : Accept(s, n)
                  BY <2>5
            <3>1. PICK n \in 0..Len(s) : Accept(s, n)
                  BY <3>3
            <3>2. Plain!Take(s, n)
                  BY <1>3, <2>1, <2>2, <2>3, <3>1 DEF Plain!Take, Plain!Copy, Accept, Copy
            <3> QED BY <3>1, <3>2 DEF Plain!StreamNext, Pieces, Plain!Run, Run
      <2>6. CASE \E p \in Seeks : want' = want /\ wpos' = p
            BY <1>3, <2>1, <2>2, <2>3, <2>6 DEF Plain!StreamNext, Plain!MoveTo
      <2> QED BY <2>1, <2>4, <2>5, <2>6 DEF Effect
<1> QED BY <1>1, <1>2, <1>3

\* Every behaviour of basic_obuf is one of a device without a buffer, as seen
\* through the file with the pending characters laid over it, up to the first
\* event named by fault.
THEOREM Refinement == Spec => ImplementsFileStream
<1>1. Init => Plain!StreamInit
      BY InitRefines
<1>2. IInv /\ IInv' /\ [Next]_vars => [Plain!StreamNext]_(Plain!sVars)
      BY NextRefines
<1> QED BY <1>1, <1>2, Invariance, PTL DEF Spec, ImplementsFileStream, Plain!StreamSpec

(***************************************************************************)
(* What the buffer is for: the device is left alone, or gets a block.      *)
(***************************************************************************)

\* A device write that went unremarked took nothing or all it was given, and
\* all of it when it did not throw.
LEMMA WholeWrite ==
    ASSUME NEW f, NEW p \in Nat, NEW src, NEW a \in Nat, NEW b \in Nat,
           NEW r \in DeviceWrite(f, p, src, a, b), ~r.short
    PROVE  /\ r.pos = p \/ r.pos = p + (b - a)
           /\ r.ok => r.pos = p + (b - a)
<1>1. CASE r = Full(f, p, src, a, b)
      BY <1>1 DEF Full
<1>2. CASE r = Thrown(f, p)
      BY <1>2 DEF Thrown
<1>3. CASE \E k \in 0..(b - a - 1) : r = Short(f, p, src, a, b, k)
      <2>1. r.short
            BY <1>3 DEF Short, Full
      <2> QED BY <2>1
<1> QED BY <1>1, <1>2, <1>3 DEF DeviceWrite

\* One write of at least a block, and nothing else on the device.
LEMMA OneWrite ==
    ASSUME TypeOK, NEW src, NEW n \in Nat, Size <= n, fault' = "none",
           NEW r \in DeviceWrite(file, pos, src, 0, n), Device(r),
           fault' = Unnoticed(r), pos' # pos
    PROVE  pos' - pos >= Size
<1>1. ~r.short /\ pos' = r.pos
      BY DEF Unnoticed, Device
<1>2. pos \in Nat /\ 0 \in Nat /\ Size \in Nat
      BY SizeAssumption DEF TypeOK
<1>3. pos' = pos + (n - 0)
      BY <1>1, <1>2, WholeWrite
<1> QED BY <1>2, <1>3

LEMMA PutGathers ==
    ASSUME TypeOK, NEW ch \in Char, Put(ch), pos' # pos, fault' = "none"
    PROVE  pos' - pos >= Size
<1>1. OverflowWarm(ch)
      BY DEF Put, StoreChar, OverflowCold
<1>2. PICK r \in DeviceWrite(file, pos, mem, 0, Size) :
            Device(r) /\ fault' = Unnoticed(r)
      BY <1>1 DEF OverflowWarm
<1> QED BY <1>2, OneWrite, SizeAssumption

LEMMA SpillAndPassGathers ==
    ASSUME TypeOK, NEW s \in Seq(Char), SpillAndPass(s), fault' = "none"
    PROVE  pos' - pos >= Size
<1> DEFINE used == Size - curr
<1>1. /\ pos \in Nat /\ 0 \in Nat /\ Size \in Nat /\ used \in Nat
      /\ Len(s) \in Nat /\ Size < Len(s) - used
      BY SizeAssumption DEF TypeOK, SpillAndPass
<1>2. PICK r \in DeviceWrite(file, pos, Filled(s), 0, Size) :
        /\ r.ok
        /\ \E q \in DeviceWrite(r.file, r.pos, s, used, Len(s)) :
            /\ Device(q)
            /\ IF q.ok
                 THEN fault' = IF fault = "none" /\ (r.short \/ q.short)
                                    THEN "short" ELSE fault
                 ELSE fault' = IF fault = "none" THEN "stale" ELSE fault
      BY DEF SpillAndPass
<1>3. PICK q \in DeviceWrite(r.file, r.pos, s, used, Len(s)) :
            /\ Device(q)
            /\ q.ok /\ ~q.short /\ ~r.short
      BY <1>2
<1>4. r.pos = pos + (Size - 0)
      BY <1>1, <1>2, <1>3, WholeWrite
<1>5. r.pos \in Nat
      BY <1>1, <1>4
<1>6. q.pos = r.pos + (Len(s) - used)
      BY <1>1, <1>3, <1>5, WholeWrite
<1> HIDE DEF used
<1> QED BY <1>1, <1>3, <1>4, <1>6 DEF Device

LEMMA TextGathers ==
    ASSUME TypeOK, NEW s \in Texts, WriteText(s), pos' # pos, fault' = "none"
    PROVE  pos' - pos >= Size
<1>1. s \in Seq(Char) /\ Len(s) \in Nat
      BY TextsAssumption
<1>2. CASE WriteThrough(s)
      <2>1. PICK r \in DeviceWrite(file, pos, s, 0, Len(s)) :
                  Device(r) /\ fault' = Unnoticed(r)
            BY <1>2 DEF WriteThrough
      <2>2. Size <= Len(s)
            BY <1>2 DEF WriteThrough
      <2> QED BY <1>1, <2>1, <2>2, OneWrite
<1>3. CASE SpillAndKeep(s)
      <2>1. PICK r \in DeviceWrite(file, pos, Filled(s), 0, Size) :
                  Device(r) /\ fault' = Unnoticed(r)
            BY <1>3 DEF SpillAndKeep
      <2> QED BY <2>1, OneWrite, SizeAssumption
<1>4. CASE SpillAndPass(s)
      BY <1>1, <1>4, SpillAndPassGathers
<1> QED BY <1>2, <1>3, <1>4 DEF WriteText, StoreText, WriteCold, SpillFails

LEMMA FillGathers ==
    ASSUME TypeOK, NEW ch \in Char, NEW n \in Counts, FillNc(ch, n),
           pos' # pos, fault' = "none"
    PROVE  pos' - pos >= Size
<1>1. FillWarm(ch, n)
      BY DEF FillNc, FillFits, FillCold, StoreText
<1>2. PICK r \in DeviceWrite(file, pos,
                    Copy(mem, curr, Run(ch, Size - curr), 0, Size - curr), 0, Size) :
            Device(r) /\ fault' = Unnoticed(r)
      BY <1>1 DEF FillWarm
<1> QED BY <1>2, OneWrite, SizeAssumption

LEMMA FillStepGathers ==
    ASSUME TypeOK, FillStep, pos' # pos, fault' = "none"
    PROVE  pos' - pos >= Size
<1>1. PICK r \in DeviceWrite(file, pos, mem, 0, Size) :
            Device(r) /\ fault' = Unnoticed(r)
      BY DEF FillStep
<1> QED BY <1>1, OneWrite, SizeAssumption

LEMMA StepGathers ==
    ASSUME TypeOK, [Next]_vars, want' # want, pos' # pos, fault' = "none"
    PROVE  pos' - pos >= Size
<1>1. CASE \E ch \in Char : Put(ch)
      BY <1>1, PutGathers
<1>2. CASE \E s \in Texts : Write(s)
      BY <1>2, TextGathers DEF Write
<1>3. CASE \E s \in Texts : \E n \in Reserves : PrintReserve(s, n)
      BY <1>3, TextGathers DEF PrintReserve, WriteText
<1>4. CASE \E ch \in Char : \E n \in Counts : FillNc(ch, n)
      BY <1>4, FillGathers
<1>5. CASE FillStep
      BY <1>5, FillStepGathers
<1>6. ~Flush /\ ~(\E p \in Seeks : Seek(p)) /\ ~Close /\ ~UNCHANGED vars
      BY DEF Flush, Seek, Close, vars, histVars
<1> QED BY <1>1, <1>2, <1>3, <1>4, <1>5, <1>6 DEF Next

\* A call that adds characters gives the device at least a block of them or
\* leaves it alone: no sequence of small writes becomes small device writes.
THEOREM Gathered == Spec => SmallWritesAreGathered
<1>1. TypeOK /\ [Next]_vars =>
        [want' # want /\ pos' # pos /\ fault' = "none" => pos' - pos >= Size]_vars
      BY StepGathers
<1> QED BY <1>1, TypeCorrect, PTL DEF Spec, SmallWritesAreGathered
================================================================================
