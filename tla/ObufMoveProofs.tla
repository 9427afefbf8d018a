---------------------------- MODULE ObufMoveProofs -----------------------------
(***************************************************************************)
(* Proofs about ObufMove: whatever becomes of streams, each character is   *)
(* in its file or pending for it once, and each block has one stream.      *)
(***************************************************************************)
EXTENDS ObufMove, TLAPS

USE FdsAssumption, FreeAssumption, SizeAssumption, NullAssumption, MarksAssumption

In(c, q) == \E i \in DOMAIN q : q[i] = c
Once(q) == \A i, j \in DOMAIN q : q[i] = q[j] => i = j

-------------------------------------------------------------------------------
(* Sequences *)

LEMMA InConcat ==
    ASSUME NEW p \in Seq(Chars), NEW q \in Seq(Chars), NEW c
    PROVE  In(c, p \o q) <=> In(c, p) \/ In(c, q)
<1>1. /\ p \o q \in Seq(Chars) /\ Len(p \o q) = Len(p) + Len(q)
      /\ \A i \in 1 .. Len(p) + Len(q) :
            (p \o q)[i] = IF i <= Len(p) THEN p[i] ELSE q[i - Len(p)]
    OBVIOUS
<1>2. DOMAIN p = 1 .. Len(p) /\ DOMAIN q = 1 .. Len(q)
      /\ DOMAIN (p \o q) = 1 .. Len(p) + Len(q) /\ Len(p) \in Nat /\ Len(q) \in Nat
    BY <1>1
<1>3. ASSUME In(c, p \o q) PROVE In(c, p) \/ In(c, q)
  <2>1. PICK i \in 1 .. Len(p) + Len(q) : (p \o q)[i] = c
    BY <1>2, <1>3 DEF In
  <2>2. CASE i <= Len(p)
    BY <1>1, <1>2, <2>1, <2>2 DEF In
  <2>3. CASE i > Len(p)
    <3>1. i - Len(p) \in 1 .. Len(q) /\ q[i - Len(p)] = c
      BY <1>1, <1>2, <2>1, <2>3
    <3> QED
      BY <1>2, <3>1 DEF In
  <2> QED
    BY <1>2, <2>2, <2>3
<1>4. ASSUME In(c, p) PROVE In(c, p \o q)
  <2>1. PICK i \in 1 .. Len(p) : p[i] = c
    BY <1>2, <1>4 DEF In
  <2>2. i \in 1 .. Len(p) + Len(q) /\ (p \o q)[i] = c
    BY <1>1, <1>2, <2>1
  <2> QED
    BY <1>2, <2>2 DEF In
<1>5. ASSUME In(c, q) PROVE In(c, p \o q)
  <2>1. PICK i \in 1 .. Len(q) : q[i] = c
    BY <1>2, <1>5 DEF In
  <2>2. i + Len(p) \in 1 .. Len(p) + Len(q) /\ (p \o q)[i + Len(p)] = c
    BY <1>1, <1>2, <2>1
  <2> QED
    BY <1>2, <2>2 DEF In
<1> QED
    BY <1>3, <1>4, <1>5

LEMMA OnceConcat ==
    ASSUME NEW p \in Seq(Chars), NEW q \in Seq(Chars), Once(p), Once(q),
           \A c : ~(In(c, p) /\ In(c, q))
    PROVE  Once(p \o q)
<1>1. /\ \A i \in 1 .. Len(p) + Len(q) :
            (p \o q)[i] = IF i <= Len(p) THEN p[i] ELSE q[i - Len(p)]
      /\ DOMAIN p = 1 .. Len(p) /\ DOMAIN q = 1 .. Len(q)
      /\ DOMAIN (p \o q) = 1 .. Len(p) + Len(q) /\ Len(p) \in Nat /\ Len(q) \in Nat
    OBVIOUS
<1> SUFFICES ASSUME NEW i \in 1 .. Len(p) + Len(q), NEW j \in 1 .. Len(p) + Len(q),
                    i <= j, (p \o q)[i] = (p \o q)[j]
             PROVE  i = j
    BY <1>1 DEF Once
<1>2. CASE j <= Len(p)
    BY <1>1, <1>2 DEF Once
<1>3. CASE i > Len(p)
  <2>1. i - Len(p) \in DOMAIN q /\ j - Len(p) \in DOMAIN q /\ q[i - Len(p)] = q[j - Len(p)]
    BY <1>1, <1>3
  <2>2. i - Len(p) = j - Len(p)
    BY <2>1 DEF Once
  <2> QED
    BY <1>1, <2>2
<1>4. CASE i <= Len(p) /\ j > Len(p)
  <2>1. i \in DOMAIN p /\ j - Len(p) \in DOMAIN q /\ p[i] = q[j - Len(p)]
    BY <1>1, <1>4
  <2>2. In(p[i], p) /\ In(p[i], q)
    BY <2>1 DEF In
  <2> QED
    BY <2>2
<1> QED
    BY <1>1, <1>2, <1>3, <1>4

LEMMA InNone == \A q : q = <<>> => Once(q) /\ \A c : ~In(c, q)
BY DEF In, Once

LEMMA InOne == \A e, q : q = <<e>> => Once(q) /\ \A c : In(c, q) <=> c = e
BY DEF In, Once

LEMMA InAppend ==
    ASSUME NEW q \in Seq(Chars), NEW e \in Chars, NEW c
    PROVE  In(c, Append(q, e)) <=> In(c, q) \/ c = e
<1>1. /\ DOMAIN q = 1 .. Len(q) /\ Len(q) \in Nat
      /\ DOMAIN Append(q, e) = 1 .. Len(q) + 1
      /\ \A i \in 1 .. Len(q) : Append(q, e)[i] = q[i]
      /\ Append(q, e)[Len(q) + 1] = e
    OBVIOUS
<1>2. \A i \in 1 .. Len(q) + 1 : i \in 1 .. Len(q) \/ i = Len(q) + 1
    BY <1>1
<1>3. Len(q) + 1 \in 1 .. Len(q) + 1 /\ \A i \in 1 .. Len(q) : i \in 1 .. Len(q) + 1
    BY <1>1
<1>4. ASSUME In(c, Append(q, e)) PROVE In(c, q) \/ c = e
  <2>1. PICK i \in 1 .. Len(q) + 1 : Append(q, e)[i] = c
    BY <1>1, <1>4 DEF In
  <2> QED
    BY <1>1, <1>2, <2>1 DEF In
<1>5. In(c, q) => In(c, Append(q, e))
  <2>1. ASSUME NEW i \in 1 .. Len(q), q[i] = c PROVE In(c, Append(q, e))
    BY <1>1, <1>3, <2>1 DEF In
  <2> QED
    BY <1>1, <2>1 DEF In
<1>6. c = e => In(c, Append(q, e))
    BY <1>1, <1>3 DEF In
<1> QED
    BY <1>4, <1>5, <1>6

LEMMA OnceAppend ==
    ASSUME NEW q \in Seq(Chars), NEW e \in Chars, Once(q), ~In(e, q)
    PROVE  Once(Append(q, e))
<1>1. /\ DOMAIN q = 1 .. Len(q) /\ Len(q) \in Nat
      /\ DOMAIN Append(q, e) = 1 .. Len(q) + 1
      /\ \A i \in 1 .. Len(q) : Append(q, e)[i] = q[i]
      /\ Append(q, e)[Len(q) + 1] = e
    OBVIOUS
<1>2. \A i \in 1 .. Len(q) + 1 : i \in 1 .. Len(q) \/ i = Len(q) + 1
    BY <1>1
<1> SUFFICES ASSUME NEW i \in 1 .. Len(q) + 1, NEW j \in 1 .. Len(q) + 1,
                    Append(q, e)[i] = Append(q, e)[j]
             PROVE  i = j
    BY <1>1 DEF Once
<1>3. \A k \in 1 .. Len(q) : q[k] # e
    BY <1>1 DEF In
<1>4. i \in 1 .. Len(q) /\ j \in 1 .. Len(q) => q[i] = q[j] /\ i = j
    BY <1>1 DEF Once
<1> QED
    BY <1>1, <1>2, <1>3, <1>4

-------------------------------------------------------------------------------
(* The invariant *)

\* Streams are whole and their descriptors are open and their own.
Calm == building = [s \in Streams |-> "no"] /\ loose = {} /\ ~harmed
HeldIsOpen ==
    \A s \in Streams : ref[s] \in Fds =>
        /\ table[ref[s]] # Free
        /\ \A t \in Streams : ref[t] = ref[s] => t = s

\* EachCharacterOnce, without the sets.
OnDisk ==
    \A d \in Desc : /\ Once(disk[d])
                    /\ \A c \in Chars : In(c, disk[d]) => meant[c] = d
Pending ==
    \A s \in Streams :
        /\ Once(pend[s])
        /\ \A c \in Chars : In(c, pend[s]) =>
            /\ ref[s] \in Fds /\ table[ref[s]] = meant[c]
            /\ \A d \in Desc : ~In(c, disk[d])
            /\ \A t \in Streams : In(c, pend[t]) => t = s
Somewhere ==
    \A c \in Chars : meant[c] # Null =>
        (\E d \in Desc : In(c, disk[d])) \/ (\E s \in Streams : In(c, pend[s]))

Accounted == OnDisk /\ Pending /\ Somewhere

Inv == TypeOK /\ Calm /\ HeldIsOpen /\ Accounted /\ BlocksAreOwned

\* Every object of PosixFile is a stream's handle.
LEMMA AllAreStreams == P!Obj = Streams
BY DEF P!Obj

LEMMA InitInv == Init => Inv
<1> SUFFICES ASSUME Init PROVE Inv
    OBVIOUS
<1>1. P!TypeOK
    BY AllAreStreams DEF Init, P!Init, P!TypeOK
<1>2. /\ pend \in [Streams -> Seq(Chars)]
      /\ disk \in [Desc -> Seq(Chars)]
      /\ \A s \in Streams : beg[s] = Null /\ pend[s] = <<>> /\ Len(pend[s]) <= Size
    BY DEF Init
<1>3. TypeOK
    BY <1>1, <1>2 DEF Init, TypeOK
<1>4. Calm /\ HeldIsOpen
    BY AllAreStreams DEF Init, P!Init, Calm, HeldIsOpen
<1>5. Accounted
    BY InNone DEF Init, Accounted, OnDisk, Pending, Somewhere
<1>6. BlocksAreOwned
    BY <1>3 DEF Init, BlocksAreOwned
<1> QED
    BY <1>3, <1>4, <1>5, <1>6 DEF Inv

\* What the calls of the handle do here.
LEMMA Copied ==
    ASSUME NEW s \in Streams, NEW t \in Streams, P!CopyConstruct(s, t)
    PROVE  /\ ref[s] = Dead /\ ref[t] \in Fds
           /\ UNCHANGED <<building, loose, harmed>>
           /\ \E fd \in Fds :
                /\ table[fd] = Free
                /\ table' = [table EXCEPT ![fd] = table[ref[t]]]
                /\ ref' = [ref EXCEPT ![s] = fd]
BY DEF P!CopyConstruct, P!Holds, P!IsLowestFree, P!Install

LEMMA Redirected ==
    ASSUME NEW s \in Streams, NEW t \in Streams, P!CopyAssign(s, t)
    PROVE  /\ ref[s] \in Fds /\ ref[t] \in Fds
           /\ table' = [table EXCEPT ![ref[s]] = table[ref[t]]]
           /\ UNCHANGED <<ref, building, loose, harmed>>
BY DEF P!CopyAssign, P!Holds, P!Dup2

LEMMA Destroyed ==
    ASSUME NEW s \in Streams, P!Destroy(s)
    PROVE  /\ ref[s] # Dead
           /\ table' = IF ref[s] \in Fds THEN [table EXCEPT ![ref[s]] = Free] ELSE table
           /\ ref' = [ref EXCEPT ![s] = Dead]
           /\ UNCHANGED <<building, loose, harmed>>
BY DEF P!Destroy, P!Live, P!CloseFd

LEMMA Opened ==
    ASSUME NEW s \in Streams, P!Open(s)
    PROVE  /\ ref[s] = Dead
           /\ UNCHANGED <<building, loose, harmed>>
           /\ \E fd \in Fds, d \in Desc :
                /\ table[fd] = Free
                /\ \A g \in Fds : table[g] # d
                /\ table' = [table EXCEPT ![fd] = d]
                /\ ref' = [ref EXCEPT ![s] = fd]
BY DEF P!Open, P!Openat, P!IsLowestFree, P!Install, P!IsFresh

\* The handle alone: descriptors stay with their streams.
LEMMA HandleStep ==
    ASSUME P!TypeOK, Calm, HeldIsOpen, [Next]_vars
    PROVE  P!TypeOK' /\ Calm' /\ HeldIsOpen'
<1> USE AllAreStreams DEF P!TypeOK, Calm, HeldIsOpen
<1>1. ASSUME NEW s \in Streams, P!Open(s) PROVE P!TypeOK' /\ Calm' /\ HeldIsOpen'
  <2>1. PICK fd \in Fds, d \in Desc : /\ table[fd] = Free
                                     /\ table' = [table EXCEPT ![fd] = d]
                                     /\ ref' = [ref EXCEPT ![s] = fd]
    BY <1>1, Opened
  <2>2. UNCHANGED <<building, loose, harmed>>
    BY <1>1, Opened
  <2>3. P!TypeOK'
    BY <2>1, <2>2
  <2>4. HeldIsOpen'
    BY <2>1
  <2> QED
    BY <2>2, <2>3, <2>4
<1>2. ASSUME NEW s \in Streams, P!Default(s) PROVE P!TypeOK' /\ Calm' /\ HeldIsOpen'
    BY <1>2 DEF P!Default
<1>3. ASSUME NEW s \in Streams, P!Destroy(s) PROVE P!TypeOK' /\ Calm' /\ HeldIsOpen'
  <2>1. /\ table' = IF ref[s] \in Fds THEN [table EXCEPT ![ref[s]] = Free] ELSE table
        /\ ref' = [ref EXCEPT ![s] = Dead]
        /\ UNCHANGED <<building, loose, harmed>>
    BY <1>3, Destroyed
  <2>2. P!TypeOK'
    BY <2>1
  <2>3. HeldIsOpen'
    BY <2>1
  <2> QED
    BY <2>1, <2>2, <2>3
<1>4. ASSUME NEW s \in Streams, NEW t \in Streams, P!CopyConstruct(s, t)
      PROVE  P!TypeOK' /\ Calm' /\ HeldIsOpen'
  <2>1. PICK fd \in Fds : /\ table[fd] = Free
                         /\ table' = [table EXCEPT ![fd] = table[ref[t]]]
                         /\ ref' = [ref EXCEPT ![s] = fd]
    BY <1>4, Copied
  <2>2. ref[t] \in Fds /\ UNCHANGED <<building, loose, harmed>>
    BY <1>4, Copied
  <2>3. P!TypeOK'
    BY <2>1, <2>2
  <2>4. HeldIsOpen'
    BY <2>1, <2>2
  <2> QED
    BY <2>2, <2>3, <2>4
<1>5. ASSUME NEW s \in Streams, NEW t \in Streams, P!CopyAssign(s, t)
      PROVE  P!TypeOK' /\ Calm' /\ HeldIsOpen'
  <2>1. /\ ref[s] \in Fds /\ ref[t] \in Fds
        /\ table' = [table EXCEPT ![ref[s]] = table[ref[t]]]
        /\ UNCHANGED <<ref, building, loose, harmed>>
    BY <1>5, Redirected
  <2>2. P!TypeOK'
    BY <2>1
  <2>3. HeldIsOpen'
    BY <2>1
  <2> QED
    BY <2>1, <2>2, <2>3
<1>6. CASE UNCHANGED fileVars
    BY <1>6 DEF fileVars
<1> QED
    BY <1>1, <1>2, <1>3, <1>4, <1>5, <1>6
    DEF Next, vars, Open, Default, Put, Flush, Destroy, MoveConstruct, MoveAssign, Terminate

-------------------------------------------------------------------------------
(* Types *)

\* What a device write leaves: the file of the stream has what was pending.
LEMMA WrittenOut ==
    ASSUME TypeOK, HeldIsOpen, Accounted, NEW s \in Streams, ref[s] \in Fds
    PROVE  /\ table[ref[s]] \in Desc
           /\ Written(s) \in [Desc -> Seq(Chars)]
           /\ \A d \in Desc : Once(Written(s)[d])
           /\ \A d \in Desc, c \in Chars :
                In(c, Written(s)[d]) <=>
                    In(c, disk[d]) \/ (d = table[ref[s]] /\ In(c, pend[s]))
<1>1. table[ref[s]] \in Desc
    BY DEF TypeOK, P!TypeOK, HeldIsOpen
<1>2. disk \in [Desc -> Seq(Chars)] /\ pend[s] \in Seq(Chars)
    BY DEF TypeOK
<1>3. \A d \in Desc : Written(s)[d] = IF d = table[ref[s]] THEN disk[d] \o pend[s] ELSE disk[d]
    BY <1>1, <1>2 DEF Written
<1>4. Written(s) \in [Desc -> Seq(Chars)]
  <2>1. disk[table[ref[s]]] \o pend[s] \in Seq(Chars)
    BY <1>1, <1>2
  <2> QED
    BY <1>1, <1>2, <2>1 DEF Written
<1>5. ASSUME NEW c PROVE In(c, pend[s]) => c \in Chars /\ \A d \in Desc : ~In(c, disk[d])
  <2>1. In(c, pend[s]) => c \in Chars
    BY <1>2 DEF In
  <2> QED
    BY <2>1 DEF Accounted, Pending
<1>6. ASSUME NEW d \in Desc PROVE Once(Written(s)[d])
  <2>1. CASE d = table[ref[s]]
    <3>1. disk[d] \in Seq(Chars) /\ Once(disk[d]) /\ Once(pend[s])
      BY <1>2 DEF Accounted, OnDisk, Pending
    <3>2. \A c : ~(In(c, disk[d]) /\ In(c, pend[s]))
      BY <1>5
    <3>3. Once(disk[d] \o pend[s])
      BY <1>2, <3>1, <3>2, OnceConcat
    <3> QED
      BY <1>3, <2>1, <3>3
  <2>2. CASE d # table[ref[s]]
    BY <1>3, <2>2 DEF Accounted, OnDisk
  <2> QED
    BY <2>1, <2>2
<1>7. ASSUME NEW d \in Desc, NEW c \in Chars
      PROVE  In(c, Written(s)[d]) <=>
                In(c, disk[d]) \/ (d = table[ref[s]] /\ In(c, pend[s]))
  <2>1. CASE d = table[ref[s]]
    <3>1. In(c, disk[d] \o pend[s]) <=> In(c, disk[d]) \/ In(c, pend[s])
      BY <1>2, InConcat
    <3> QED
      BY <1>3, <2>1, <3>1
  <2>2. CASE d # table[ref[s]]
    BY <1>3, <2>2
  <2> QED
    BY <2>1, <2>2
<1> QED
    BY <1>1, <1>4, <1>6, <1>7

LEMMA TypeStep ==
    ASSUME TypeOK, Calm, HeldIsOpen, Accounted, [Next]_vars
    PROVE  TypeOK'
<1>1. P!TypeOK'
    BY HandleStep DEF TypeOK
<1> DEFINE Rest ==
        /\ heap \subseteq Blocks
        /\ beg \in [Streams -> Blocks \cup {Null}]
        /\ pend \in [Streams -> Seq(Chars)]
        /\ \A s \in Streams :
            /\ Len(pend[s]) <= Size
            /\ beg[s] = Null => pend[s] = <<>>
            /\ ref[s] = Dead => beg[s] = Null
        /\ disk \in [Desc -> Seq(Chars)]
        /\ meant \in [Chars -> Desc \cup {Null}]
        /\ leaked \in BOOLEAN
        /\ up \in BOOLEAN
<1>2. Rest /\ ref \in [Streams -> Fds \cup {None, Dead}]
    BY AllAreStreams DEF TypeOK, P!TypeOK
<1>3. Rest' => TypeOK'
    BY <1>1 DEF TypeOK
<1>4. <<>> \in Seq(Chars) /\ Len(<<>>) = 0 /\ Size \in Nat /\ Size > 0
    OBVIOUS
<1>5. ASSUME NEW s \in Streams, Open(s) PROVE Rest'
  <2>1. \E fd \in Fds : ref' = [ref EXCEPT ![s] = fd]
    BY <1>5, Opened DEF Open
  <2> QED
    BY <1>2, <1>5, <2>1 DEF Open
<1>6. ASSUME NEW s \in Streams, Default(s) PROVE Rest'
    BY <1>2, <1>6 DEF Default, P!Default
<1>7. ASSUME NEW s \in Streams, NEW c \in Chars, Put(s, c) PROVE Rest'
  <2>1. ref[s] \in Fds /\ ref[s] # Dead /\ UNCHANGED <<ref, leaked, up>>
    BY <1>2, <1>7 DEF Put, P!Holds, fileVars
  <2>2. table[ref[s]] \in Desc /\ meant' \in [Chars -> Desc \cup {Null}]
    BY <1>2, <1>7, <2>1, WrittenOut DEF Put
  <2>3. <<c>> \in Seq(Chars) /\ Len(<<c>>) = 1 /\ <<c>> # <<>>
    OBVIOUS
  <2>4. CASE /\ beg[s] = Null
             /\ \E b \in Blocks \ heap : beg' = [beg EXCEPT ![s] = b] /\ heap' = heap \cup {b}
             /\ pend' = [pend EXCEPT ![s] = <<c>>]
             /\ UNCHANGED disk
    BY <1>2, <1>4, <2>1, <2>2, <2>3, <2>4
  <2>5. CASE /\ beg[s] # Null
             /\ Len(pend[s]) < Size
             /\ pend' = [pend EXCEPT ![s] = Append(@, c)]
             /\ UNCHANGED <<heap, beg, disk>>
    <3>1. /\ Append(pend[s], c) \in Seq(Chars)
          /\ Len(Append(pend[s], c)) = Len(pend[s]) + 1
          /\ Len(pend[s]) \in Nat
      BY <1>2
    <3>2. Len(pend[s]) + 1 <= Size
      BY <1>4, <2>5, <3>1
    <3> QED
      BY <1>2, <2>1, <2>2, <2>5, <3>1, <3>2
  <2>6. CASE /\ beg[s] # Null
             /\ Len(pend[s]) = Size
             /\ disk' = Written(s)
             /\ pend' = [pend EXCEPT ![s] = <<c>>]
             /\ UNCHANGED <<heap, beg>>
    BY <1>2, <1>4, <2>1, <2>2, <2>3, <2>6, WrittenOut
  <2> QED
    BY <1>7, <2>4, <2>5, <2>6 DEF Put
<1>8. ASSUME NEW s \in Streams, Flush(s) PROVE Rest'
  <2>1. ref[s] \in Fds /\ UNCHANGED ref
    BY <1>8 DEF Flush, P!Holds, fileVars
  <2> QED
    BY <1>2, <1>4, <1>8, <2>1, WrittenOut DEF Flush
<1>9. ASSUME NEW s \in Streams, Destroy(s) PROVE Rest'
  <2>1. ref' = [ref EXCEPT ![s] = Dead]
    BY <1>9, Destroyed DEF Destroy
  <2>2. disk' \in [Desc -> Seq(Chars)]
    BY <1>2, <1>9, WrittenOut DEF Destroy
  <2> QED
    BY <1>2, <1>4, <1>9, <2>1, <2>2 DEF Destroy
<1>10. CASE Terminate
    BY <1>2, <1>3, <1>10 DEF Terminate, fileVars
<1>11. ASSUME NEW s \in Streams, NEW t \in Streams, MoveConstruct(s, t), ~Terminate PROVE Rest'
  <2>1. /\ P!CopyConstruct(s, t)
        /\ beg' = [beg EXCEPT ![s] = beg[t], ![t] = Null]
        /\ pend' = [pend EXCEPT ![s] = pend[t], ![t] = <<>>]
        /\ UNCHANGED <<heap, disk, meant, leaked, up>>
    BY <1>11 DEF MoveConstruct
  <2>2. \A r \in Streams : ref'[r] = Dead => r # s /\ ref[r] = Dead
    BY <1>2, <2>1, Copied
  <2>3. /\ beg' \in [Streams -> Blocks \cup {Null}]
        /\ pend' \in [Streams -> Seq(Chars)]
        /\ \A r \in Streams : \/ r = t /\ beg'[r] = Null /\ pend'[r] = <<>>
                              \/ r # t /\ beg'[r] = beg[IF r = s THEN t ELSE r]
                                       /\ pend'[r] = pend[IF r = s THEN t ELSE r]
    BY <1>2, <1>4, <2>1
  <2>4. \A r \in Streams :
            /\ Len(pend'[r]) <= Size
            /\ beg'[r] = Null => pend'[r] = <<>>
    BY <1>2, <1>4, <2>3
  <2> QED
    BY <1>2, <2>1, <2>2, <2>3, <2>4
<1>12. ASSUME NEW s \in Streams, NEW t \in Streams, MoveAssign(s, t), ~Terminate PROVE Rest'
  <2>1. /\ P!CopyAssign(s, t)
        /\ disk' = Written(s)
        /\ heap' = IF beg[t] # Null THEN heap \ {beg[s]} ELSE heap
        /\ beg' = [beg EXCEPT ![s] = beg[t], ![t] = Null]
        /\ pend' = [pend EXCEPT ![s] = pend[t], ![t] = <<>>]
        /\ leaked' = (leaked \/ (beg[t] = Null /\ beg[s] # Null))
        /\ UNCHANGED <<meant, up>>
    BY <1>12 DEF MoveAssign
  <2>2. ref[s] \in Fds /\ ref[s] # Dead /\ UNCHANGED ref
    BY <2>1, Redirected
  <2>3. disk' \in [Desc -> Seq(Chars)]
    BY <2>1, <2>2, WrittenOut
  <2>4. /\ beg' \in [Streams -> Blocks \cup {Null}]
        /\ pend' \in [Streams -> Seq(Chars)]
        /\ \A r \in Streams : \/ r = t /\ beg'[r] = Null /\ pend'[r] = <<>>
                              \/ r # t /\ beg'[r] = beg[IF r = s THEN t ELSE r]
                                       /\ pend'[r] = pend[IF r = s THEN t ELSE r]
    BY <1>2, <1>4, <2>1
  <2>5. \A r \in Streams :
            /\ Len(pend'[r]) <= Size
            /\ beg'[r] = Null => pend'[r] = <<>>
    BY <1>2, <1>4, <2>4
  <2>6. heap' \subseteq Blocks
    BY <1>2, <2>1
  <2> QED
    BY <1>2, <2>1, <2>2, <2>3, <2>4, <2>5, <2>6
<1>13. CASE UNCHANGED vars
    BY <1>2, <1>3, <1>13 DEF vars, fileVars
<1> QED
    BY <1>3, <1>5, <1>6, <1>7, <1>8, <1>9, <1>10, <1>11, <1>12, <1>13 DEF Next

-------------------------------------------------------------------------------
(* Characters *)

LEMMA AccountedStep ==
    ASSUME TypeOK, Calm, HeldIsOpen, Accounted, [Next]_vars
    PROVE  Accounted'
<1>0. /\ ref \in [Streams -> Fds \cup {None, Dead}]
      /\ table \in [Fds -> Desc \cup {Free}]
      /\ pend \in [Streams -> Seq(Chars)]
      /\ disk \in [Desc -> Seq(Chars)]
      /\ meant \in [Chars -> Desc \cup {Null}]
    BY AllAreStreams DEF TypeOK, P!TypeOK
<1>a. \A c \in Chars : meant[c] = Null =>
            /\ \A d \in Desc : ~In(c, disk[d])
            /\ \A s \in Streams : ~In(c, pend[s])
  <2>1. \A s \in Streams : ref[s] \in Fds => table[ref[s]] \in Desc
    BY <1>0 DEF HeldIsOpen
  <2>2. \A d \in Desc : d # Null
    OBVIOUS
  <2> QED
    BY <2>1, <2>2 DEF Accounted, OnDisk, Pending
<1>1. ASSUME NEW s \in Streams, Open(s) PROVE Accounted'
  <2>1. PICK fd \in Fds, d \in Desc : /\ table[fd] = Free
                                     /\ table' = [table EXCEPT ![fd] = d]
                                     /\ ref' = [ref EXCEPT ![s] = fd]
    BY <1>1, Opened DEF Open
  <2>2. ref[s] = Dead /\ UNCHANGED <<pend, disk, meant>>
    BY <1>1, Opened DEF Open
  <2>3. \A c \in Chars, r \in Streams : In(c, pend[r]) =>
            ref'[r] = ref[r] /\ table'[ref[r]] = table[ref[r]]
    BY <1>0, <2>1, <2>2 DEF Accounted, Pending, HeldIsOpen
  <2> QED
    BY <2>2, <2>3 DEF Accounted, OnDisk, Pending, Somewhere
<1>2. ASSUME NEW s \in Streams, Default(s) PROVE Accounted'
  <2>1. /\ ref[s] = Dead /\ ref' = [ref EXCEPT ![s] = None]
        /\ UNCHANGED <<table, pend, disk, meant>>
    BY <1>2 DEF Default, P!Default
  <2>2. \A c \in Chars, r \in Streams : In(c, pend[r]) => ref'[r] = ref[r]
    BY <1>0, <2>1 DEF Accounted, Pending
  <2> QED
    BY <2>1, <2>2 DEF Accounted, OnDisk, Pending, Somewhere
<1>3. ASSUME NEW s \in Streams, NEW c \in Chars, Put(s, c) PROVE Accounted'
  <2>1. /\ ref[s] \in Fds /\ UNCHANGED <<table, ref>>
        /\ meant[c] = Null /\ meant' = [meant EXCEPT ![c] = table[ref[s]]]
    BY <1>3 DEF Put, P!Holds, fileVars
  <2>2. /\ table[ref[s]] \in Desc
        /\ meant'[c] = table[ref[s]]
        /\ \A e \in Chars : e # c => meant'[e] = meant[e]
        /\ \A d \in Desc : ~In(c, disk[d])
        /\ \A r \in Streams : ~In(c, pend[r])
    <3>1. table[ref[s]] \in Desc
      BY <1>0, <2>1 DEF HeldIsOpen
    <3> QED
      BY <1>0, <1>a, <2>1, <3>1
  <2>3. CASE /\ \A r \in Streams : r # s => pend'[r] = pend[r]
             /\ Once(pend'[s])
             /\ \A e \in Chars : In(e, pend'[s]) <=> In(e, pend[s]) \/ e = c
             /\ UNCHANGED disk
    <3>1. OnDisk'
      BY <2>2, <2>3 DEF Accounted, OnDisk
    <3>2. Pending'
      BY <2>1, <2>2, <2>3 DEF Accounted, Pending
    <3>3. Somewhere'
      BY <2>2, <2>3 DEF Accounted, Somewhere
    <3> QED
      BY <3>1, <3>2, <3>3 DEF Accounted
  <2>4. CASE /\ beg[s] = Null
             /\ pend' = [pend EXCEPT ![s] = <<c>>]
             /\ UNCHANGED disk
    <3>1. pend[s] = <<>> /\ pend'[s] = <<c>>
      BY <1>0, <2>4 DEF TypeOK
    <3>2. Once(pend'[s]) /\ \A e : /\ In(e, pend'[s]) <=> e = c
                                   /\ ~In(e, pend[s])
      BY <3>1, InOne, InNone
    <3>3. \A r \in Streams : r # s => pend'[r] = pend[r]
      BY <2>4, <1>0
    <3> QED
      BY <2>3, <2>4, <3>2, <3>3
  <2>5. CASE /\ pend' = [pend EXCEPT ![s] = Append(@, c)]
             /\ UNCHANGED disk
    <3>1. pend[s] \in Seq(Chars) /\ Once(pend[s]) /\ ~In(c, pend[s])
      BY <1>0, <2>2 DEF Accounted, Pending
    <3>2. Once(Append(pend[s], c))
      BY <3>1, OnceAppend
    <3>3. \A e \in Chars : In(e, Append(pend[s], c)) <=> In(e, pend[s]) \/ e = c
      BY <3>1, InAppend
    <3> QED
      BY <1>0, <2>3, <2>5, <3>2, <3>3
  <2>6. CASE /\ disk' = Written(s)
             /\ pend' = [pend EXCEPT ![s] = <<c>>]
    <3>1. /\ \A d \in Desc : Once(disk'[d])
          /\ \A d \in Desc, e \in Chars :
                In(e, disk'[d]) <=> In(e, disk[d]) \/ (d = table[ref[s]] /\ In(e, pend[s]))
      BY <2>1, <2>6, WrittenOut
    <3>2. /\ \A r \in Streams : r # s => pend'[r] = pend[r]
          /\ Once(pend'[s])
          /\ \A e \in Chars : In(e, pend'[s]) <=> e = c
      <4>1. pend'[s] = <<c>>
        BY <1>0, <2>6
      <4> QED
        BY <1>0, <2>6, <4>1, InOne
    <3>3. OnDisk'
      BY <2>2, <3>1 DEF Accounted, OnDisk, Pending
    <3>4. Pending'
      BY <2>1, <2>2, <3>1, <3>2 DEF Accounted, Pending
    <3>5. Somewhere'
      BY <2>2, <3>1, <3>2 DEF Accounted, Somewhere
    <3> QED
      BY <3>3, <3>4, <3>5 DEF Accounted
  <2> QED
    BY <1>3, <2>4, <2>5, <2>6 DEF Put
<1>4. ASSUME NEW s \in Streams, ref[s] \in Fds, disk' = Written(s), UNCHANGED meant,
             \A c \in Chars : ~In(c, pend'[s]), Once(pend'[s]),
             \A r \in Streams : r # s =>
                /\ pend'[r] = pend[r] /\ ref'[r] = ref[r]
                /\ ref[r] \in Fds => table'[ref[r]] = table[ref[r]]
      PROVE  Accounted'
  <2>1. /\ table[ref[s]] \in Desc
        /\ \A d \in Desc : Once(disk'[d])
        /\ \A d \in Desc, e \in Chars :
              In(e, disk'[d]) <=> In(e, disk[d]) \/ (d = table[ref[s]] /\ In(e, pend[s]))
    BY <1>4, WrittenOut
  <2> QED
    BY <1>4, <2>1 DEF Accounted, OnDisk, Pending, Somewhere
<1>5. ASSUME NEW s \in Streams, Flush(s) PROVE Accounted'
  <2>1. ref[s] \in Fds /\ disk' = Written(s) /\ UNCHANGED <<ref, table, meant>>
        /\ pend' = [pend EXCEPT ![s] = <<>>]
    BY <1>5 DEF Flush, P!Holds, fileVars
  <2>2. Once(pend'[s]) /\ \A c \in Chars : ~In(c, pend'[s])
    BY <1>0, <2>1, InNone
  <2>3. \A r \in Streams : r # s => pend'[r] = pend[r]
    BY <1>0, <2>1
  <2> QED
    BY <1>4, <2>1, <2>2, <2>3
<1>6. ASSUME NEW s \in Streams, Destroy(s) PROVE Accounted'
  <2>1. /\ pend' = [pend EXCEPT ![s] = <<>>]
        /\ ref' = [ref EXCEPT ![s] = Dead]
        /\ table' = IF ref[s] \in Fds THEN [table EXCEPT ![ref[s]] = Free] ELSE table
        /\ disk' = IF ref[s] \in Fds THEN Written(s) ELSE disk
        /\ UNCHANGED meant
    BY <1>6, Destroyed DEF Destroy
  <2>4. Once(pend'[s]) /\ \A c \in Chars : ~In(c, pend'[s])
    BY <1>0, <2>1, InNone
  <2>2. CASE ref[s] \in Fds
    <3>1. \A r \in Streams : r # s =>
                /\ pend'[r] = pend[r] /\ ref'[r] = ref[r]
                /\ ref[r] \in Fds => table'[ref[r]] = table[ref[r]]
      BY <1>0, <2>1, <2>2 DEF HeldIsOpen
    <3> QED
      BY <1>4, <2>1, <2>2, <2>4, <3>1
  <2>3. CASE ref[s] \notin Fds
    <3>1. \A c \in Chars : ~In(c, pend[s])
      BY <2>3 DEF Accounted, Pending
    <3>2. \A r \in Streams : r # s => pend'[r] = pend[r] /\ ref'[r] = ref[r]
      BY <1>0, <2>1
    <3>3. OnDisk'
      BY <2>1, <2>3 DEF Accounted, OnDisk
    <3>4. Pending'
      BY <2>1, <2>3, <2>4, <3>2 DEF Accounted, Pending
    <3>5. Somewhere'
      BY <2>1, <2>3, <3>1, <3>2 DEF Accounted, Somewhere
    <3> QED
      BY <3>3, <3>4, <3>5 DEF Accounted
  <2> QED
    BY <2>2, <2>3
<1>7. ASSUME NEW s \in Streams, NEW t \in Streams, MoveConstruct(s, t), ~Terminate PROVE Accounted'
  <2>1. /\ P!CopyConstruct(s, t)
        /\ pend' = [pend EXCEPT ![s] = pend[t], ![t] = <<>>]
        /\ UNCHANGED <<disk, meant>>
    BY <1>7 DEF MoveConstruct
  <2>2. ref[s] = Dead /\ ref[t] \in Fds /\ s # t
    BY <2>1, Copied
  <2>3. PICK fd \in Fds : /\ table[fd] = Free
                         /\ table' = [table EXCEPT ![fd] = table[ref[t]]]
                         /\ ref' = [ref EXCEPT ![s] = fd]
    BY <2>1, Copied
  <2>4. /\ pend'[s] = pend[t] /\ pend'[t] = <<>>
        /\ \A r \in Streams \ {s, t} : pend'[r] = pend[r]
    BY <1>0, <2>1, <2>2
  <2>5. /\ ref'[s] \in Fds /\ table'[ref'[s]] = table[ref[t]]
        /\ \A r \in Streams \ {s} : ref[r] \in Fds =>
                ref'[r] = ref[r] /\ table'[ref[r]] = table[ref[r]]
    BY <1>0, <2>2, <2>3 DEF HeldIsOpen
  <2>6. /\ \A c \in Chars : ~In(c, pend[s]) /\ ~In(c, pend'[t])
        /\ Once(pend'[t])
    BY <2>2, <2>4, InNone DEF Accounted, Pending
  <2>7. OnDisk'
    BY <2>1 DEF Accounted, OnDisk
  <2>8. Pending'
    <3>1. ASSUME NEW r \in Streams PROVE Once(pend'[r])
      BY <2>4, <2>6 DEF Accounted, Pending
    <3> DEFINE Was(r) == IF r = s THEN t ELSE r
    <3>2. ASSUME NEW r \in Streams, NEW c \in Chars, In(c, pend'[r])
          PROVE  r # t /\ In(c, pend[Was(r)])
      BY <2>4, <2>6, <3>2
    <3>3. ASSUME NEW r \in Streams, NEW c \in Chars, In(c, pend'[r])
          PROVE  ref'[r] \in Fds /\ table'[ref'[r]] = meant[c]
      <4>1. r # t /\ In(c, pend[Was(r)])
        BY <3>2, <3>3
      <4>2. ref[Was(r)] \in Fds /\ table[ref[Was(r)]] = meant[c]
        BY <4>1 DEF Accounted, Pending
      <4> QED
        BY <2>5, <4>1, <4>2
    <3>4. ASSUME NEW r \in Streams, NEW c \in Chars, In(c, pend'[r]),
                 NEW q \in Streams, In(c, pend'[q])
          PROVE  q = r
      <4>1. /\ r # t /\ In(c, pend[Was(r)])
            /\ q # t /\ In(c, pend[Was(q)])
        BY <3>2, <3>4
      <4>2. Was(q) = Was(r)
        BY <4>1 DEF Accounted, Pending
      <4> QED
        BY <4>1, <4>2
    <3>5. ASSUME NEW r \in Streams, NEW c \in Chars, In(c, pend'[r]), NEW d \in Desc
          PROVE  ~In(c, disk'[d])
      BY <2>1, <3>2, <3>5 DEF Accounted, Pending
    <3> QED
      BY <2>1, <3>1, <3>3, <3>4, <3>5 DEF Pending
  <2>9. Somewhere'
    BY <2>1, <2>4, <2>6 DEF Accounted, Somewhere
  <2> QED
    BY <2>7, <2>8, <2>9 DEF Accounted
<1>8. ASSUME NEW s \in Streams, NEW t \in Streams, MoveAssign(s, t), ~Terminate PROVE Accounted'
  <2>1. /\ P!CopyAssign(s, t) /\ s # t
        /\ disk' = Written(s)
        /\ pend' = [pend EXCEPT ![s] = pend[t], ![t] = <<>>]
        /\ UNCHANGED meant
    BY <1>8 DEF MoveAssign
  <2>2. /\ ref[s] \in Fds /\ ref[t] \in Fds /\ UNCHANGED ref
        /\ table' = [table EXCEPT ![ref[s]] = table[ref[t]]]
    BY <2>1, Redirected
  <2>3. /\ table[ref[s]] \in Desc
        /\ \A d \in Desc : Once(disk'[d])
        /\ \A d \in Desc, e \in Chars :
              In(e, disk'[d]) <=> In(e, disk[d]) \/ (d = table[ref[s]] /\ In(e, pend[s]))
    BY <2>1, <2>2, WrittenOut
  <2>4. /\ pend'[s] = pend[t] /\ pend'[t] = <<>>
        /\ \A r \in Streams \ {s, t} : pend'[r] = pend[r]
    BY <1>0, <2>1
  <2>5. /\ table'[ref[s]] = table[ref[t]]
        /\ \A r \in Streams \ {s} : ref[r] \in Fds => table'[ref[r]] = table[ref[r]]
    BY <1>0, <2>2 DEF HeldIsOpen
  <2>6. Once(pend'[t]) /\ \A c \in Chars : ~In(c, pend'[t])
    BY <2>4, InNone
  <2>7. OnDisk'
    BY <2>1, <2>3 DEF Accounted, OnDisk, Pending
  <2>8. Pending'
    <3>1. ASSUME NEW r \in Streams PROVE Once(pend'[r])
      BY <2>4, <2>6 DEF Accounted, Pending
    <3> DEFINE Was(r) == IF r = s THEN t ELSE r
    <3>2. ASSUME NEW r \in Streams, NEW c \in Chars, In(c, pend'[r])
          PROVE  r # t /\ In(c, pend[Was(r)])
      BY <2>4, <2>6, <3>2
    <3>3. ASSUME NEW r \in Streams, NEW c \in Chars, In(c, pend'[r])
          PROVE  ref'[r] \in Fds /\ table'[ref'[r]] = meant[c]
      <4>1. r # t /\ In(c, pend[Was(r)])
        BY <3>2, <3>3
      <4>2. ref[Was(r)] \in Fds /\ table[ref[Was(r)]] = meant[c]
        BY <4>1 DEF Accounted, Pending
      <4> QED
        BY <2>2, <2>5, <4>1, <4>2
    <3>4. ASSUME NEW r \in Streams, NEW c \in Chars, In(c, pend'[r]),
                 NEW q \in Streams, In(c, pend'[q])
          PROVE  q = r
      <4>1. /\ r # t /\ In(c, pend[Was(r)])
            /\ q # t /\ In(c, pend[Was(q)])
        BY <3>2, <3>4
      <4>2. Was(q) = Was(r)
        BY <4>1 DEF Accounted, Pending
      <4> QED
        BY <4>1, <4>2
    <3>5. ASSUME NEW r \in Streams, NEW c \in Chars, In(c, pend'[r]), NEW d \in Desc
          PROVE  ~In(c, disk'[d])
      <4>1. r # t /\ In(c, pend[Was(r)])
        BY <3>2, <3>5
      <4>2. Was(r) # s /\ ~In(c, disk[d]) /\ ~In(c, pend[s])
        BY <2>1, <4>1 DEF Accounted, Pending
      <4> QED
        BY <2>3, <4>2
    <3> QED
      BY <2>1, <3>1, <3>3, <3>4, <3>5 DEF Pending
  <2>9. Somewhere'
    BY <2>1, <2>3, <2>4, ZenonT(60) DEF Accounted, Somewhere
  <2> QED
    BY <2>7, <2>8, <2>9 DEF Accounted
<1>9. CASE Terminate
    BY <1>9 DEF Terminate, fileVars, Accounted, OnDisk, Pending, Somewhere
<1>10. CASE UNCHANGED vars
    BY <1>10 DEF vars, fileVars, Accounted, OnDisk, Pending, Somewhere
<1> QED
    BY <1>1, <1>2, <1>3, <1>5, <1>6, <1>7, <1>8, <1>9, <1>10 DEF Next

-------------------------------------------------------------------------------
(* Blocks *)

LEMMA BlocksStep ==
    ASSUME TypeOK, HeldIsOpen, BlocksAreOwned, TypeOK', [Next]_vars
    PROVE  BlocksAreOwned'
<1>0. /\ beg \in [Streams -> Blocks \cup {Null}]
      /\ beg' \in [Streams -> Blocks \cup {Null}]
      /\ \A s, t \in Streams : beg[s] # Null /\ beg[s] = beg[t] => s = t
      /\ \A s \in Streams : beg[s] # Null => beg[s] \in heap
      /\ ~leaked => \A b \in heap : \E s \in Streams : beg[s] = b
      /\ \A s \in Streams : ref[s] = Dead => beg[s] = Null
      /\ leaked \in BOOLEAN
      /\ heap \subseteq Blocks /\ Null \notin heap
    BY DEF TypeOK, BlocksAreOwned
<1> DEFINE Owned == /\ \A s, t \in Streams : beg[s] # Null /\ beg[s] = beg[t] => s = t
                    /\ \A s \in Streams : beg[s] # Null => beg[s] \in heap
                    /\ ~leaked => \A b \in heap : \E s \in Streams : beg[s] = b
<1>1. Owned' => BlocksAreOwned'
    BY DEF BlocksAreOwned
<1> HIDE DEF Owned
<1>2. ASSUME UNCHANGED <<heap, beg, leaked>> PROVE Owned'
    BY <1>0, <1>2 DEF Owned
<1>3. ASSUME NEW s \in Streams, NEW b \in Blocks \ heap, beg[s] = Null,
             beg' = [beg EXCEPT ![s] = b], heap' = heap \cup {b}, UNCHANGED leaked
      PROVE  Owned'
    BY <1>0, <1>3 DEF Owned
<1>4. ASSUME NEW s \in Streams, Destroy(s) PROVE Owned'
  <2>1. heap' = heap \ {beg[s]} /\ beg' = [beg EXCEPT ![s] = Null] /\ UNCHANGED leaked
    BY <1>4 DEF Destroy
  <2> QED
    BY <1>0, <2>1 DEF Owned
<1>5. ASSUME NEW s \in Streams, NEW t \in Streams, MoveConstruct(s, t), ~Terminate PROVE Owned'
  <2>1. /\ P!CopyConstruct(s, t)
        /\ beg' = [beg EXCEPT ![s] = beg[t], ![t] = Null]
        /\ UNCHANGED <<heap, leaked>>
    BY <1>5 DEF MoveConstruct
  <2>2. s # t /\ beg[s] = Null
    BY <1>0, <2>1, Copied
  <2>3. /\ beg'[s] = beg[t] /\ beg'[t] = Null
        /\ \A r \in Streams \ {s, t} : beg'[r] = beg[r]
    BY <1>0, <2>1, <2>2
  <2> QED
    BY <1>0, <2>1, <2>2, <2>3 DEF Owned
<1>6. ASSUME NEW s \in Streams, NEW t \in Streams, MoveAssign(s, t), ~Terminate PROVE Owned'
  <2>1. /\ s # t
        /\ heap' = IF beg[t] # Null THEN heap \ {beg[s]} ELSE heap
        /\ beg' = [beg EXCEPT ![s] = beg[t], ![t] = Null]
        /\ leaked' = (leaked \/ (beg[t] = Null /\ beg[s] # Null))
    BY <1>6 DEF MoveAssign
  <2>2. /\ beg'[s] = beg[t] /\ beg'[t] = Null
        /\ \A r \in Streams \ {s, t} : beg'[r] = beg[r]
    BY <1>0, <2>1
  <2>3. \A r, q \in Streams : beg'[r] # Null /\ beg'[r] = beg'[q] => r = q
    BY <1>0, <2>1, <2>2
  <2>4. \A r \in Streams : beg'[r] # Null => beg'[r] \in heap'
    BY <1>0, <2>1, <2>2
  <2>5. ~leaked' => \A b \in heap' : \E r \in Streams : beg'[r] = b
    BY <1>0, <2>1, <2>2
  <2> QED
    BY <2>3, <2>4, <2>5 DEF Owned
<1>7. ASSUME NEW s \in Streams, NEW c \in Chars, Put(s, c) PROVE Owned'
    BY <1>2, <1>3, <1>7 DEF Put
<1>8. ASSUME NEW s \in Streams, Open(s) \/ Default(s) \/ Flush(s) PROVE Owned'
    BY <1>2, <1>8 DEF Open, Default, Flush
<1>9. CASE Terminate
    BY <1>1, <1>2, <1>9 DEF Terminate
<1>10. CASE UNCHANGED vars
    BY <1>1, <1>2, <1>10 DEF vars
<1> QED
    BY <1>1, <1>4, <1>5, <1>6, <1>7, <1>8, <1>9, <1>10 DEF Next

-------------------------------------------------------------------------------
(* Theorems *)

LEMMA InvStep == Inv /\ [Next]_vars => Inv'
<1> SUFFICES ASSUME Inv, [Next]_vars PROVE Inv'
    OBVIOUS
<1>1. P!TypeOK
    BY DEF Inv, TypeOK
<1>2. TypeOK'
    BY TypeStep DEF Inv
<1> QED
    BY <1>1, <1>2, HandleStep, AccountedStep, BlocksStep DEF Inv

LEMMA AccountedIsOnce == TypeOK /\ Accounted => EachCharacterOnce
<1> SUFFICES ASSUME TypeOK, Accounted, NEW c \in Chars
             PROVE  LET written == {d \in Desc : Occurrences(c, disk[d]) # {}}
                        held == {s \in Streams : Occurrences(c, pend[s]) # {}}
                    IN
                    /\ \A d \in written :
                        /\ meant[c] = d /\ held = {}
                        /\ \A i, j \in Occurrences(c, disk[d]) : i = j
                    /\ \A s \in held :
                        /\ ref[s] \in Fds /\ table[ref[s]] = meant[c]
                        /\ \A t \in held : t = s
                        /\ \A i, j \in Occurrences(c, pend[s]) : i = j
                    /\ meant[c] # Null => written \cup held # {}
    BY DEF EachCharacterOnce
<1> DEFINE written == {d \in Desc : Occurrences(c, disk[d]) # {}}
           held == {s \in Streams : Occurrences(c, pend[s]) # {}}
<1>1. /\ \A d : d \in written <=> d \in Desc /\ In(c, disk[d])
      /\ \A s : s \in held <=> s \in Streams /\ In(c, pend[s])
    BY DEF Occurrences, In
<1>2. /\ \A d \in Desc : \A i, j \in Occurrences(c, disk[d]) : i = j
      /\ \A s \in Streams : \A i, j \in Occurrences(c, pend[s]) : i = j
    BY DEF Accounted, OnDisk, Pending, Once, Occurrences
<1> HIDE DEF written, held
<1>3. /\ \A d \in written : meant[c] = d /\ \A s : s \notin held
      /\ \A s \in held : /\ ref[s] \in Fds /\ table[ref[s]] = meant[c]
                         /\ \A t \in held : t = s
      /\ meant[c] # Null => (\E d : d \in written) \/ (\E s : s \in held)
    BY <1>1 DEF Accounted, OnDisk, Pending, Somewhere
<1>4. /\ \A d \in written : d \in Desc
      /\ \A s \in held : s \in Streams
    BY <1>1
<1>5. (\A s : s \notin held) => held = {}
    OBVIOUS
<1>6. (\E d : d \in written) \/ (\E s : s \in held) => written \cup held # {}
    OBVIOUS
<1> QED
    BY <1>2, <1>3, <1>4, <1>5, <1>6 DEF written, held

LEMMA Invariance == Spec => []Inv
<1>1. Inv /\ UNCHANGED vars => Inv'
    BY InvStep
<1> QED
    BY InitInv, InvStep, PTL DEF Spec

\* Every character a client of basic_obuf wrote is in the file it was written for,
\* or pending in one stream whose descriptor names that file, once, through every
\* sequence of constructions, moves, assignments and destructions.
THEOREM CharactersKept == Spec => []EachCharacterOnce
<1>1. Inv => EachCharacterOnce
    BY AccountedIsOnce DEF Inv
<1> QED
    BY <1>1, Invariance, PTL

\* No block of a basic_obuf is shared, used after it was freed, or left behind,
\* but by an assignment that loses it.
THEOREM BlocksOwned == Spec => []BlocksAreOwned
<1>1. Inv => BlocksAreOwned
    BY DEF Inv
<1> QED
    BY <1>1, Invariance, PTL

-------------------------------------------------------------------------------
(* The handles of the streams are used as PosixFile allows, so that what is     *)
(* true of its objects is true of them.                                         *)

H == INSTANCE PosixFileProofs WITH Files <- Streams, Handles <- {}

LEMMA HandlesMove == [Next]_vars => [H!Next]_(H!vars)
<1> SUFFICES ASSUME [Next]_vars PROVE [H!Next]_(H!vars)
    OBVIOUS
<1>1. H!Obj = Streams
    BY DEF H!Obj
<1>2. ASSUME NEW s \in Streams, P!Open(s) PROVE H!Next
  <2>1. H!Open(s)
    BY <1>2 DEF P!Open, H!Open, P!Openat, H!Openat, P!IsLowestFree, H!IsLowestFree,
                P!IsFresh, H!IsFresh, P!Install, H!Install
  <2> QED
    BY <1>1, <2>1 DEF H!Next
<1>3. ASSUME NEW s \in Streams, P!Default(s) PROVE H!Next
  <2>1. H!Default(s)
    BY <1>3 DEF P!Default, H!Default
  <2> QED
    BY <1>1, <2>1 DEF H!Next
<1>4. ASSUME NEW s \in Streams, P!Destroy(s) PROVE H!Next
  <2>1. H!Destroy(s)
    BY <1>4 DEF P!Destroy, H!Destroy, P!Live, H!Live, P!CloseFd, H!CloseFd
  <2> QED
    BY <1>1, <2>1 DEF H!Next
<1>5. ASSUME NEW s \in Streams, NEW t \in Streams, P!CopyConstruct(s, t) PROVE H!Next
  <2>1. H!CopyConstruct(s, t)
    BY <1>5 DEF P!CopyConstruct, H!CopyConstruct, P!Holds, H!Holds, P!Live, H!Live,
                P!IsLowestFree, H!IsLowestFree, P!Install, H!Install
  <2> QED
    BY <1>1, <2>1 DEF H!Next
<1>6. ASSUME NEW s \in Streams, NEW t \in Streams, P!CopyAssign(s, t) PROVE H!Next
  <2>1. H!CopyAssign(s, t)
    BY <1>6 DEF P!CopyAssign, H!CopyAssign, P!Holds, H!Holds, P!Live, H!Live, P!Dup2, H!Dup2
  <2> QED
    BY <1>1, <2>1 DEF H!Next
<1>7. CASE UNCHANGED fileVars
    BY <1>7 DEF fileVars, H!vars
<1> QED
    BY <1>2, <1>3, <1>4, <1>5, <1>6, <1>7
    DEF Next, vars, Open, Default, Put, Flush, Destroy, MoveConstruct, MoveAssign, Terminate

LEMMA HandlesAreFiles == Spec => H!Spec
<1>1. Init => H!Init
    BY DEF Init, P!Init, H!Init, P!Obj, H!Obj
<1> QED
    BY <1>1, HandlesMove, PTL DEF Spec, H!Spec

\* The assumptions of PosixFile hold here: two are those of this module, and
\* there are no other objects than streams.
LEMMA FilesAreOwned == H!Spec => []H!DescriptorsAreOwned
    BY H!NoLeakNoDoubleClose

LEMMA FilesImplementRefs == H!Spec => H!ImplementsFileRefs
    BY H!Refinement

\* What streams do with their handles neither leaks a descriptor nor closes one
\* that is another's, and a call on one stream leaves the files of the others.
THEOREM HandlesKept == Spec => []H!DescriptorsAreOwned /\ H!ImplementsFileRefs
<1>1. Spec => []H!DescriptorsAreOwned
    BY HandlesAreFiles, FilesAreOwned, PTL
<1>2. Spec => H!ImplementsFileRefs
    BY HandlesAreFiles, FilesImplementRefs
<1> QED
    BY <1>1, <1>2
===============================================================================
