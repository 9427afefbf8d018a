----------------------------- MODULE ThreadProofs ------------------------------
(***************************************************************************)
(* Proofs about the two parts of the library that start threads.           *)
(*                                                                         *)
(* ThreadPool, for any number of workers and descriptors and for either    *)
(* order of optional::reset: its types, and that every connection has one  *)
(* owner but those whose number was closed in a slot by a reset.           *)
(*                                                                         *)
(* Console, for any arguments, any number of threads and any sizes: what   *)
(* is printed arrives in order and once, the memory is there that it is    *)
(* copied into, and a relay delivers its source.                           *)
(***************************************************************************)
EXTENDS ThreadPool, Console, SequenceTheorems, TLAPS

(***************************************************************************)
(* Ownership in the abstract: H says what each place holds, o what is open *)
(* and c which numbers are no longer anybody's.  A connection comes to an  *)
(* empty place, moves to an empty place, is closed where it is, or joins c.*)
(***************************************************************************)
Owned(H, o, c) ==
    /\ H \in [Place -> Fd \cup {None}]
    /\ o \subseteq Fd
    /\ \A f \in Fd \ c :
        /\ f \in o <=> \E p \in Place : H[p] = f
        /\ \A p, q \in Place : H[p] = f /\ H[q] = f => p = q

Hold == [p \in Place |-> Holds(p)]

\* A new connection comes to an empty place.
LEMMA Comes ==
    ASSUME NEW H, NEW o, NEW c, Owned(H, o, c), NEW p \in Place, H[p] = None,
           NEW f \in Fd, f \notin o
    PROVE  Owned([H EXCEPT ![p] = f], o \cup {f}, c)
<1> DEFINE G == [H EXCEPT ![p] = f]
<1>1. /\ G \in [Place -> Fd \cup {None}]
      /\ \A q \in Place : G[q] = IF q = p THEN f ELSE H[q]
  BY DEF Owned
<1> HIDE DEF G
<1>2. ASSUME NEW g \in Fd \ c
      PROVE  /\ g \in o \cup {f} <=> \E q \in Place : G[q] = g
             /\ \A q, r \in Place : G[q] = g /\ G[r] = g => q = r
  <2>1. /\ g \in o <=> \E q \in Place : H[q] = g
        /\ \A q, r \in Place : H[q] = g /\ H[r] = g => q = r
        /\ g # None
    BY NoneAssumption DEF Owned
  <2>2. CASE g = f
    BY <1>1, <2>1, <2>2
  <2>3. CASE g # f
    BY <1>1, <2>1, <2>3
  <2>4. QED
    BY <2>2, <2>3
<1>3. o \cup {f} \subseteq Fd
  BY DEF Owned
<1>4. QED
  BY <1>1, <1>2, <1>3 DEF Owned, G

\* A connection moves to an empty place.
LEMMA Moves ==
    ASSUME NEW H, NEW o, NEW c, Owned(H, o, c), NEW p \in Place, NEW q \in Place,
           p # q, H[q] = None
    PROVE  Owned([H EXCEPT ![p] = None, ![q] = H[p]], o, c)
<1> DEFINE G == [H EXCEPT ![p] = None, ![q] = H[p]]
<1>1. /\ G \in [Place -> Fd \cup {None}]
      /\ \A r \in Place : G[r] = IF r = q THEN H[p]
                                 ELSE IF r = p THEN None ELSE H[r]
  BY DEF Owned
<1> HIDE DEF G
<1>2. ASSUME NEW g \in Fd \ c
      PROVE  /\ g \in o <=> \E r \in Place : G[r] = g
             /\ \A r, s \in Place : G[r] = g /\ G[s] = g => r = s
  <2>1. /\ g \in o <=> \E r \in Place : H[r] = g
        /\ \A r, s \in Place : H[r] = g /\ H[s] = g => r = s
        /\ g # None
    BY NoneAssumption DEF Owned
  <2>2. CASE H[p] = g
    BY <1>1, <2>1, <2>2
  <2>3. CASE H[p] # g
    BY <1>1, <2>1, <2>3
  <2>4. QED
    BY <2>2, <2>3
<1>3. QED
  BY <1>1, <1>2 DEF Owned, G

\* A connection is closed where it is.
LEMMA Closes ==
    ASSUME NEW H, NEW o, NEW c, Owned(H, o, c), NEW p \in Place
    PROVE  Owned([H EXCEPT ![p] = None], o \ {H[p]}, c)
<1> DEFINE G == [H EXCEPT ![p] = None]
<1>1. /\ G \in [Place -> Fd \cup {None}]
      /\ \A q \in Place : G[q] = IF q = p THEN None ELSE H[q]
  BY DEF Owned
<1> HIDE DEF G
<1>2. ASSUME NEW g \in Fd \ c
      PROVE  /\ g \in o \ {H[p]} <=> \E r \in Place : G[r] = g
             /\ \A r, s \in Place : G[r] = g /\ G[s] = g => r = s
  <2>1. /\ g \in o <=> \E r \in Place : H[r] = g
        /\ \A r, s \in Place : H[r] = g /\ H[s] = g => r = s
        /\ g # None
    BY NoneAssumption DEF Owned
  <2>2. CASE H[p] = g
    BY <1>1, <2>1, <2>2
  <2>3. CASE H[p] # g
    BY <1>1, <2>1, <2>3
  <2>4. QED
    BY <2>2, <2>3
<1>3. o \ {H[p]} \subseteq Fd
  BY DEF Owned
<1>4. QED
  BY <1>1, <1>2, <1>3 DEF Owned, G

\* A number is closed under the object that holds it.
LEMMA IsCut ==
    ASSUME NEW H, NEW o, NEW c, Owned(H, o, c), NEW x \in Fd \cup {None}
    PROVE  Owned(H, o \ {x}, c \cup ({x} \ {None}))
BY NoneAssumption DEF Owned

\* The lemmas are about the places that the module names.
LEMMA Places ==
    /\ 0 \in Place
    /\ \A i \in Worker : i \in Place /\ -i \in Place
    /\ \A i \in Worker : i > 0 /\ -i < 0 /\ -(-i) = i /\ i # 0 /\ -i # 0
    /\ \A p \in Place : p > 0 => p \in Worker
    /\ \A p \in Place : p < 0 => -p \in Worker /\ p # 0 /\ ~(p > 0)
    /\ \A p \in Place : p = 0 \/ p > 0 \/ p < 0
    /\ Place \subseteq Int
    /\ 1 \in Worker
    /\ \A i \in Worker : (i % Size) + 1 \in Worker
    /\ \A i \in Worker : i # -i /\ ~(-i = 0) /\ ~(-i > 0)
    /\ \A i \in Worker, p \in Place : p = -i <=> -p = i
BY SizeAssumption, SMT DEF Place, Worker

-------------------------------------------------------------------------------
(* Types *)

USE NoneAssumption

LEMMA TypeInit == Init => TypeOK
BY Places DEF Init, TypeOK

LEMMA TypeMain ==
    TypeOK /\ (Accept \/ AcceptFails \/ Go) => TypeOK'
<1> SUFFICES ASSUME TypeOK, Accept \/ AcceptFails \/ Go PROVE TypeOK'
  OBVIOUS
<1>1. CASE Accept
  BY <1>1 DEF Accept, build, TypeOK
<1>2. CASE AcceptFails
  BY <1>2 DEF AcceptFails, build, TypeOK
<1>3. CASE Unwind
  <2>1. mpc' = "terminated"
    BY <1>3, Places DEF Unwind, build, TypeOK
  <2>2. QED
    BY <1>3, <2>1 DEF Unwind, build, TypeOK
<1>4. CASE Scan
  BY <1>4, Places DEF Scan, build, TypeOK
<1>5. CASE Fill
  BY <1>5 DEF Fill, build, TypeOK
<1>6. CASE Engage
  BY <1>6 DEF Engage, build, TypeOK
<1>7. CASE Notify
  BY <1>7 DEF Notify, build, TypeOK
<1>8. QED
  BY <1>1, <1>2, <1>3, <1>4, <1>5, <1>6, <1>7 DEF Go

LEMMA TypeWorker ==
    ASSUME NEW i \in Worker
    PROVE  TypeOK /\ (Work(i) \/ SpuriousWakeup(i)) => TypeOK'
<1> SUFFICES ASSUME TypeOK, Work(i) \/ SpuriousWakeup(i) PROVE TypeOK'
  OBVIOUS
<1>1. CASE Look(i)
  BY <1>1 DEF Look, build, Goto, main, TypeOK
<1>2. CASE Sleep(i)
  BY <1>2 DEF Sleep, build, Goto, main, TypeOK
<1>3. CASE SpuriousWakeup(i)
  BY <1>3 DEF SpuriousWakeup, build, Goto, main, TypeOK
<1>4. CASE Take(i)
  BY <1>4 DEF Take, build, Goto, main, TypeOK
<1>5. CASE Clear(i)
  BY <1>5 DEF Clear, build, Goto, main, TypeOK
<1>6. CASE Destroy(i)
  BY <1>6 DEF Destroy, build, Goto, main, TypeOK
<1>7. CASE Serve(i)
  BY <1>7 DEF Serve, build, Goto, main, TypeOK
<1>8. QED
  BY <1>1, <1>2, <1>3, <1>4, <1>5, <1>6, <1>7 DEF Work

LEMMA TypeNext == TypeOK /\ [Next]_vars => TypeOK'
<1>1. TypeOK /\ UNCHANGED vars => TypeOK'
  BY DEF vars, TypeOK
<1>2. QED
  BY <1>1, TypeMain, TypeWorker DEF Next

\* thread_pool_accept: the state is of the right type, the iterator never leaves
\* the slots, and the caller holds a connection exactly while it looks for a
\* slot, whatever the order of optional::reset.
THEOREM TypeCorrect == Spec => []TypeOK
BY TypeInit, TypeNext, PTL DEF Spec

-------------------------------------------------------------------------------
(* Owners *)

\* What a worker that is between two looks at its slot may rely on, and what the
\* caller may: an empty slot, or one that is being emptied, holds nothing, unless
\* its flag was lowered first; only then can a reset close anything.
SlotsAreClean ==
    /\ cut # {} => flagFirst
    /\ mpc \in {"fill", "engage"} => ~full[cur]
    /\ \A i \in Worker :
        /\ wpc[i] \in {"take", "clear"} \/ (wpc[i] = "destroy" /\ ~flagFirst) =>
                full[i] \/ mpc \in {"unwind", "terminated"}
        /\ mpc \in {"unwind", "terminated"} => ~full[i]
        /\ wpc[i] = "clear" \/ (wpc[i] = "destroy" /\ ~flagFirst) => value[i] = None
        /\ ~full[i] /\ ~(mpc = "engage" /\ cur = i) => value[i] = None
        /\ wpc[i] \in {"look", "sleepy", "asleep", "take"} => acc[i] = None

Inv == TypeOK /\ SlotsAreClean /\ Owned(Hold, open, cut)

LEMMA HoldType == TypeOK => Hold \in [Place -> Fd \cup {None}]
<1> SUFFICES ASSUME TypeOK, NEW p \in Place PROVE Holds(p) \in Fd \cup {None}
  BY DEF Hold
<1>1. CASE p = 0
  BY <1>1 DEF Holds, TypeOK
<1>2. CASE p > 0
  BY <1>2, Places DEF Holds, TypeOK
<1>3. CASE p < 0
  BY <1>3, Places DEF Holds, TypeOK
<1>4. QED
  BY <1>1, <1>2, <1>3, Places

LEMMA InvImplies == Inv => ConnectionsAreOwned
<1> SUFFICES ASSUME Inv PROVE ConnectionsAreOwned
  OBVIOUS
<1>1. \A p \in Place : Hold[p] = Holds(p)
  BY DEF Hold
<1>2. QED
  BY <1>1 DEF Inv, SlotsAreClean, Owned, ConnectionsAreOwned

\* Only the flags and the places where threads are change.
Quiet == UNCHANGED <<value, acc, hand, open, cut>>

LEMMA QuietOwned == Owned(Hold, open, cut) /\ Quiet => Owned(Hold, open, cut)'
BY DEF Quiet, Owned, Hold, Holds

LEMMA OwnedInit == Init => Owned(Hold, open, cut)
<1> SUFFICES ASSUME Init PROVE Owned(Hold, open, cut)
  OBVIOUS
<1>1. \A p \in Place : Holds(p) = None
  BY Places DEF Init, Holds
<1>2. QED
  BY <1>1, Places DEF Init, Owned, Hold

LEMMA InvInit == Init => Inv
BY TypeInit, OwnedInit DEF Init, Inv, SlotsAreClean

LEMMA OwnedMain ==
    Inv /\ (Accept \/ AcceptFails \/ Go) => Owned(Hold, open, cut)'
<1> SUFFICES ASSUME Inv, Accept \/ AcceptFails \/ Go
             PROVE  Owned(Hold, open, cut)'
  OBVIOUS
<1> USE DEF Inv, build
<1>t. TypeOK'
  BY TypeMain
<1>h. (Hold \in [Place -> Fd \cup {None}])'
  BY <1>t, HoldType, PTL
<1>p. \A p \in Place : Hold[p] = Holds(p) /\ Hold'[p] = Holds(p)'
  BY DEF Hold
<1>1. CASE Accept
  <2>1. PICK f \in Fd \ open : open' = open \cup {f} /\ hand' = f
    BY <1>1 DEF Accept
  <2>2. hand = None
    BY <1>1 DEF Accept, TypeOK
  <2>3. Hold' = [Hold EXCEPT ![0] = f]
    BY <1>1, <2>1, Places DEF Accept, Hold, Holds
  <2>4. Hold[0] = None /\ cut' = cut
    BY <1>1, <2>2, Places DEF Accept, Hold, Holds
  <2>5. QED
    BY <2>1, <2>3, <2>4, Places, Comes
<1>2. CASE AcceptFails
  <2>1. \A p \in Place : Hold'[p] = IF p > 0 THEN None ELSE Hold[p]
    BY <1>2, <1>p, Places DEF AcceptFails, Holds
  <2>2. \A i \in Worker : i \in Place /\ i > 0 /\ value[i] = Hold[i]
    BY Places DEF Hold, Holds
  <2>3. /\ cut' = cut
        /\ \A f : f \in open' <=> f \in open /\ \A i \in Worker : value[i] # f
    BY <1>2 DEF AcceptFails
  <2>4. ASSUME NEW f \in Fd \ cut
        PROVE  /\ f \in open' <=> \E p \in Place : Hold'[p] = f
               /\ \A p, q \in Place : Hold'[p] = f /\ Hold'[q] = f => p = q
    <3>1. /\ f \in open <=> \E p \in Place : Hold[p] = f
          /\ \A p, q \in Place : Hold[p] = f /\ Hold[q] = f => p = q
          /\ f # None
      BY DEF Owned
    <3>2. ASSUME NEW p \in Place, Hold'[p] = f
          PROVE  f \in open'
      <4>1. ~(p > 0) /\ Hold[p] = f
        BY <2>1, <3>1, <3>2
      <4>2. ASSUME NEW i \in Worker, value[i] = f
            PROVE  FALSE
        BY <2>2, <3>1, <4>1, <4>2
      <4>3. QED
        BY <2>3, <3>1, <4>1, <4>2
    <3>3. ASSUME f \in open'
          PROVE  \E p \in Place : Hold'[p] = f
      <4>1. PICK p \in Place : Hold[p] = f
        BY <2>3, <3>1, <3>3
      <4>2. ~(p > 0)
        BY <2>2, <2>3, <3>3, <4>1, Places
      <4>3. QED
        BY <2>1, <4>1, <4>2
    <3>4. \A p, q \in Place : Hold'[p] = f /\ Hold'[q] = f => p = q
      BY <2>1, <3>1
    <3>5. QED
      BY <3>2, <3>3, <3>4
  <2>5. open' \subseteq Fd
    BY <1>t DEF TypeOK
  <2>6. QED
    BY <1>h, <2>3, <2>4, <2>5 DEF Owned
<1>3. CASE Unwind
  <2>1. hand = None /\ \A i \in Worker : value[i] = None
    BY <1>3 DEF Unwind, TypeOK, SlotsAreClean
  <2>2. \A p \in Place : Holds(p)' = None
    BY <1>3, <2>1, Places DEF Unwind, Holds
  <2>3. open' = {} /\ \A p \in Place : Hold'[p] = None
    BY <1>3, <1>p, <2>2 DEF Unwind
  <2>4. QED
    BY <1>h, <2>3 DEF Owned
<1>4. CASE Scan
  BY <1>4, QuietOwned DEF Scan, Quiet
<1>5. CASE Fill
  <2>1. value[cur] = None /\ cur \in Worker
    BY <1>5 DEF Fill, SlotsAreClean, TypeOK
  <2>a. ASSUME NEW p \in Place
        PROVE  Holds(p)' = IF p = cur THEN hand
                           ELSE IF p = 0 THEN None ELSE Holds(p)
    <3>1. CASE p = 0
      BY <1>5, <2>1, <3>1, Places DEF Fill, Holds
    <3>2. CASE p > 0
      BY <1>5, <2>1, <3>2, Places DEF Fill, Holds, TypeOK
    <3>3. CASE p < 0
      BY <1>5, <2>1, <3>3, Places DEF Fill, Holds
    <3>4. QED
      BY <3>1, <3>2, <3>3, Places
  <2>b. Hold[0] = hand
    BY Places DEF Hold, Holds
  <2>2. Hold' = [Hold EXCEPT ![0] = None, ![cur] = Hold[0]]
    BY <2>1, <2>a, <2>b, Places DEF Hold
  <2>3. Hold[cur] = None /\ cur # 0
    BY <2>1, Places DEF Hold, Holds
  <2>4. open' = open /\ cut' = cut
    BY <1>5 DEF Fill
  <2>5. QED
    BY <2>1, <2>2, <2>3, <2>4, Places, Moves
<1>6. CASE Engage
  BY <1>6, QuietOwned DEF Engage, Quiet
<1>7. CASE Notify
  BY <1>7, QuietOwned DEF Notify, Quiet
<1>8. QED
  BY <1>1, <1>2, <1>3, <1>4, <1>5, <1>6, <1>7 DEF Go

\* The two places of a worker.
LEMMA Hands ==
    ASSUME NEW i \in Worker
    PROVE  /\ i \in Place /\ -i \in Place /\ i # -i
           /\ Holds(i) = value[i]
           /\ Holds(-i) = acc[i]
<1>1. /\ i \in Place /\ -i \in Place
      /\ i > 0 /\ -i < 0 /\ -(-i) = i /\ i # 0 /\ -i # 0
  BY Places
<1>2. i # -i
  BY Places
<1>3. Holds(i) = value[i]
  BY <1>1 DEF Holds
<1>4. ~(-i = 0) /\ ~(-i > 0)
  BY Places
<1>5. Holds(-i) = acc[i]
  BY <1>1, <1>4 DEF Holds
<1>6. QED
  BY <1>1, <1>2, <1>3, <1>5

LEMMA OwnedWorker ==
    ASSUME NEW i \in Worker
    PROVE  Inv /\ (Work(i) \/ SpuriousWakeup(i)) => Owned(Hold, open, cut)'
<1> SUFFICES ASSUME Inv, Work(i) \/ SpuriousWakeup(i)
             PROVE  Owned(Hold, open, cut)'
  OBVIOUS
<1> USE DEF Inv, build
<1>1. CASE Look(i)
  BY <1>1, QuietOwned DEF Look, Quiet, main
<1>2. CASE Sleep(i)
  BY <1>2, QuietOwned DEF Sleep, Quiet, main
<1>3. CASE SpuriousWakeup(i)
  BY <1>3, QuietOwned DEF SpuriousWakeup, Quiet, main
<1>4. CASE Take(i)
  <2>1. acc[i] = None
    BY <1>4 DEF Take, Goto, SlotsAreClean
  <2>a. Holds(i) = value[i] /\ Holds(-i) = None /\ i # -i
    BY <2>1, Hands
  <2>b. Hold[i] = Holds(i) /\ Hold[-i] = Holds(-i)
    BY Hands DEF Hold
  <2>c. ASSUME NEW p \in Place
        PROVE  Holds(p)' = IF p = -i THEN Holds(i)
                           ELSE IF p = i THEN None ELSE Holds(p)
    <3>1. CASE p = 0
      BY <1>4, <3>1, Places DEF Take, main, Holds
    <3>2. CASE p > 0
      BY <1>4, <2>a, <3>2, Places DEF Take, main, Holds, TypeOK
    <3>3. CASE p < 0
      <4>1. p = -i <=> -p = i
        BY Places
      <4>2. -p \in Worker /\ p # i
        BY <3>3, Places
      <4>3. Holds(p) = acc[-p] /\ Holds(p)' = acc'[-p]
        BY <3>3, Places DEF Holds
      <4>4. acc'[-p] = IF -p = i THEN value[i] ELSE acc[-p]
        BY <1>4, <4>2 DEF Take, TypeOK
      <4>5. QED
        BY <2>a, <4>1, <4>2, <4>3, <4>4
    <3>4. QED
      BY <3>1, <3>2, <3>3, Places
  <2>2. Hold' = [Hold EXCEPT ![i] = None, ![-i] = Hold[i]]
    BY <2>b, <2>c, Hands DEF Hold
  <2>3. Hold[-i] = None /\ i # -i
    BY <2>a, <2>b
  <2>4. open' = open /\ cut' = cut
    BY <1>4 DEF Take
  <2>5. QED
    BY <2>2, <2>3, <2>4, Places, Moves
<1>5. CASE Clear(i)
  BY <1>5, QuietOwned DEF Clear, Quiet, main
<1>6. CASE Destroy(i)
  <2>1. value[i] \in Fd \cup {None}
    BY DEF TypeOK
  <2>2. Hold' = Hold
    BY <1>6 DEF Destroy, Hold, Holds, main
  <2>3. open' = open \ {value[i]} /\ cut' = cut \cup ({value[i]} \ {None})
    BY <1>6 DEF Destroy
  <2>4. QED
    BY <2>1, <2>2, <2>3, IsCut
<1>7. CASE Serve(i)
  <2>a. ASSUME NEW p \in Place
        PROVE  Holds(p)' = IF p = -i THEN None ELSE Holds(p)
    <3>1. CASE p >= 0
      BY <1>7, <3>1, Places DEF Serve, main, Holds
    <3>2. CASE p < 0
      <4>1. p = -i <=> -p = i
        BY Places
      <4>2. -p \in Worker
        BY <3>2, Places
      <4>3. Holds(p) = acc[-p] /\ Holds(p)' = acc'[-p]
        BY <3>2, Places DEF Holds
      <4>4. acc'[-p] = IF -p = i THEN None ELSE acc[-p]
        BY <1>7, <4>2 DEF Serve, TypeOK
      <4>5. QED
        BY <4>1, <4>3, <4>4
    <3>3. QED
      BY <3>1, <3>2, Places
  <2>1. Hold' = [Hold EXCEPT ![-i] = None]
    BY <2>a DEF Hold
  <2>b. Hold[-i] = acc[i]
    BY Hands DEF Hold
  <2>2. open' = open \ {Hold[-i]} /\ cut' = cut
    BY <1>7, <2>b DEF Serve
  <2>3. QED
    BY <2>1, <2>2, Places, Closes
<1>8. QED
  BY <1>1, <1>2, <1>3, <1>4, <1>5, <1>6, <1>7 DEF Work

LEMMA CleanMain ==
    TypeOK /\ SlotsAreClean /\ (Accept \/ AcceptFails \/ Go) => SlotsAreClean'
<1> SUFFICES ASSUME TypeOK, SlotsAreClean, Accept \/ AcceptFails \/ Go
             PROVE  SlotsAreClean'
  OBVIOUS
<1> USE DEF TypeOK, SlotsAreClean, build
<1>1. CASE Accept
  BY <1>1 DEF Accept
<1>2. CASE AcceptFails
  BY <1>2 DEF AcceptFails
<1>3. CASE Unwind
  BY <1>3 DEF Unwind
<1>4. CASE Scan
  BY <1>4 DEF Scan
<1>5. CASE Fill
  BY <1>5 DEF Fill
<1>6. CASE Engage
  BY <1>6 DEF Engage
<1>7. CASE Notify
  BY <1>7 DEF Notify
<1>8. QED
  BY <1>1, <1>2, <1>3, <1>4, <1>5, <1>6, <1>7 DEF Go

LEMMA CleanWorker ==
    ASSUME NEW i \in Worker
    PROVE  TypeOK /\ SlotsAreClean /\ (Work(i) \/ SpuriousWakeup(i))
                => SlotsAreClean'
<1> SUFFICES ASSUME TypeOK, SlotsAreClean, Work(i) \/ SpuriousWakeup(i)
             PROVE  SlotsAreClean'
  OBVIOUS
<1> USE DEF TypeOK, SlotsAreClean, Goto, main, build
<1>1. CASE Look(i)
  BY <1>1 DEF Look
<1>2. CASE Sleep(i)
  BY <1>2 DEF Sleep
<1>3. CASE SpuriousWakeup(i)
  BY <1>3 DEF SpuriousWakeup
<1>4. CASE Take(i)
  BY <1>4 DEF Take
<1>5. CASE Clear(i)
  BY <1>5 DEF Clear
<1>6. CASE Destroy(i)
  BY <1>6 DEF Destroy
<1>7. CASE Serve(i)
  BY <1>7 DEF Serve
<1>8. QED
  BY <1>1, <1>2, <1>3, <1>4, <1>5, <1>6, <1>7 DEF Work

LEMMA InvNext == Inv /\ [Next]_vars => Inv'
<1> SUFFICES ASSUME Inv, [Next]_vars PROVE Inv'
  OBVIOUS
<1>1. TypeOK'
  BY TypeNext DEF Inv
<1>2. CASE UNCHANGED vars
  BY <1>1, <1>2, QuietOwned DEF Inv, SlotsAreClean, Quiet, vars
<1>3. CASE Accept \/ AcceptFails \/ Go
  BY <1>1, <1>3, OwnedMain, CleanMain DEF Inv
<1>4. CASE \E i \in Worker : Work(i) \/ SpuriousWakeup(i)
  BY <1>1, <1>4, OwnedWorker, CleanWorker DEF Inv
<1>5. QED
  BY <1>2, <1>3, <1>4 DEF Next

\* thread_pool_accept: slots are handed over without a lock, and yet a connection
\* has exactly one owner as long as it is open, for any number of workers and
\* either order of optional::reset, unless its number was closed in a slot by a
\* reset; with an optional that destroys its payload first, none ever is.
THEOREM OneOwner == Spec => []ConnectionsAreOwned
BY InvInit, InvNext, InvImplies, PTL DEF Spec

-------------------------------------------------------------------------------
(***************************************************************************)
(* Console                                                                 *)
(***************************************************************************)

\* Each element of a range goes on where the one before it ends and prints no more
\* than is announced.
CutsOK(c) ==
    \A i, j \in 1 .. Len(c) : i <= j => c[i] <= c[j] /\ c[j] - c[i] <= (j - i) * CharsPerElement

\* What is still to be printed begins where it has come to and ends with the text
\* that the call was given, of length n.
ArgsOK(args, n) ==
    /\ \A i \in 1 .. Len(args) : args[i].cuts # <<>> /\ Honest(args[i])
    /\ Follow(args)
    /\ args # <<>> => After(args[Len(args)]) = n

NextOf(args, n) == IF args = <<>> THEN n ELSE Before(args[1])

NextPlace == NextOf(todo, given)

TodoOK == ArgsOK(todo, given) /\ (call # "print" => todo = <<>>)

\* What has been started and not ended, at each stage of a parallel print.
JobOK ==
    /\ job = "none" => cuts = <<0>> /\ results = <<>> /\ own = 0
    /\ job # "none" => CutsOK(cuts) /\ cuts[Len(cuts)] = NextPlace
    /\ job \notin {"none", "alone"} => threads > 1
    /\ job = "alone" => threads = 1 /\ results = <<>>
    /\ job = "spawn" => Len(results) + 1 < threads /\ own = 0
    /\ job \in {"own", "join", "collect"} => Len(results) + 1 = threads
    /\ own <= First(1)
    /\ job = "collect" => written < Len(results)
    /\ job # "collect" => written = 0
    /\ running \subseteq DOMAIN results
    /\ job \in {"none", "alone", "collect"} => running = {}

\* A span is empty and has room for its share, or holds it.
ResultsOK ==
    \A w \in DOMAIN results :
        /\ ~results[w].wild
        /\ IF w \in running THEN results[w] = Span(Room(w)) ELSE results[w].text = Share(w)

\* The place up to which the text has left the arguments.
Reached ==
    CASE job = "none" -> NextPlace
      [] job \in {"alone", "own"} -> IF direct THEN cuts[1] ELSE cuts[own + 1]
      [] job = "spawn" -> cuts[1]
      [] job = "join" -> cuts[First(1) + 1]
      [] job = "collect" -> cuts[First(written + 1) + 1]
      [] OTHER -> 0

\* A stream that has been given the text up to place p, and has it whole if nothing went wrong.
Has(s, p, whole) ==
    /\ Ascending(s)
    /\ \A i \in 1 .. Len(s) : s[i] <= p
    /\ whole => s = Text(0, p)

TextOK ==
    /\ Ascending(out.call)
    /\ call \in {"none", "relay"} /\ "call" \notin faulty => out.call = Text(0, given)
    /\ call = "all" => /\ "call" \notin faulty
                       /\ Len(left) <= given
                       /\ left = Text(given - Len(left), given)
                       /\ Has(out.call, given - Len(left), TRUE)
    /\ call = "print" /\ direct => /\ tmp.text = <<>>
                                   /\ job # "unwind" => Has(out.call, Reached, "call" \notin faulty)
    /\ call = "print" /\ ~direct => /\ out.call = <<>>
                                    /\ job # "unwind" => tmp.text = Text(0, Reached)
    /\ job = "unwind" => "call" \in faulty

\* The temporary buffer.
Inside(b, l) ==
    /\ b.cap >= StaticSize
    /\ IF b.wild THEN l > StaticSize ELSE Len(b.text) <= b.cap

TmpOK == Inside(tmp, longest)

\* What has been relayed is before the block, or, before the refill, before its end.
RelayOK ==
    LET done == IF stage = "refill" THEN end ELSE curr IN
    /\ call # "relay" => stage = "rest"
    /\ stage = "block" => curr < end
    /\ taken \subseteq 1 .. curr - 1
    /\ ~broken => Has(out.source, done - 1, FALSE)
    /\ "source" \notin faulty =>
        /\ ~broken
        /\ \A i \in 1 .. done - 1 : (i \in taken) # (\E j \in 1 .. Len(out.source) : out.source[j] = i)
        /\ ended => curr = SourceLength + 1

IInv == ConsoleOK /\ TodoOK /\ JobOK /\ ResultsOK /\ TextOK /\ TmpOK /\ RelayOK

(***************************************************************************)
(* Texts                                                                   *)
(***************************************************************************)

LEMMA TextIs ==
    ASSUME NEW a \in Nat, NEW b \in Nat
    PROVE  /\ Text(a, b) \in Seq(Nat)
           /\ a <= b => Len(Text(a, b)) = b - a
           /\ b <= a => Text(a, b) = <<>>
           /\ \A i \in 1 .. b - a : Text(a, b)[i] = a + i
<1>1. \A i \in 1 .. b - a : a + i \in Nat
  OBVIOUS
<1>2. CASE a <= b
  <2>1. b - a \in Nat
    BY <1>2
  <2>2. Text(a, b) \in [1 .. b - a -> Nat]
    BY <1>1 DEF Text
  <2>3. Text(a, b) \in Seq(Nat)
    BY <2>1, <2>2
  <2>4. Len(Text(a, b)) = b - a
    BY <2>1, <2>2, <2>3
  <2>5. a = b => Text(a, b) = <<>>
    BY <2>3, <2>4, EmptySeq
  <2> QED
    BY <1>2, <2>3, <2>4, <2>5 DEF Text
<1>3. CASE ~(a <= b)
  <2>1. 1 .. b - a = 1 .. 0
    BY <1>3
  <2>2. Text(a, b) \in [1 .. 0 -> Nat]
    BY <2>1 DEF Text
  <2>3. Text(a, b) \in Seq(Nat) /\ Len(Text(a, b)) = 0
    BY <2>2
  <2>4. Text(a, b) = <<>>
    BY <2>3, EmptySeq
  <2> QED
    BY <1>3, <2>3, <2>4 DEF Text
<1> QED
  BY <1>2, <1>3

\* Two texts that meet are one.
LEMMA TextJoins ==
    ASSUME NEW a \in Nat, NEW b \in Nat, NEW c \in Nat, a <= b, b <= c
    PROVE  Text(a, b) \o Text(b, c) = Text(a, c)
<1> DEFINE s == Text(a, b)
           t == Text(b, c)
           u == Text(a, c)
<1>1. a <= c
  OBVIOUS
<1>2. s \in Seq(Nat) /\ Len(s) = b - a /\ \A i \in 1 .. b - a : s[i] = a + i
  BY TextIs
<1>3. t \in Seq(Nat) /\ Len(t) = c - b /\ \A i \in 1 .. c - b : t[i] = b + i
  BY TextIs
<1>4. u \in Seq(Nat) /\ Len(u) = c - a /\ \A i \in 1 .. c - a : u[i] = a + i
  BY <1>1, TextIs
<1> HIDE DEF s, t, u
<1>5. /\ s \o t \in Seq(Nat) /\ Len(s \o t) = Len(s) + Len(t)
      /\ \A i \in 1 .. Len(s) + Len(t) : (s \o t)[i] = IF i <= Len(s) THEN s[i] ELSE t[i - Len(s)]
  BY <1>2, <1>3, ConcatProperties
<1>6. ASSUME NEW i \in 1 .. Len(u)
      PROVE  (s \o t)[i] = u[i]
  <2>1. CASE i <= Len(s)
    BY <2>1, <1>2, <1>3, <1>4, <1>5
  <2>2. CASE ~(i <= Len(s))
    <3>1. i - Len(s) \in 1 .. c - b
      BY <2>2, <1>2, <1>3, <1>4
    <3>2. t[i - Len(s)] = b + (i - Len(s))
      BY <3>1, <1>3
    <3>3. i \in 1 .. Len(s) + Len(t) /\ i \in 1 .. c - a
      BY <1>2, <1>3, <1>4
    <3>4. (s \o t)[i] = t[i - Len(s)]
      BY <2>2, <3>3, <1>5
    <3>5. u[i] = a + i
      BY <3>3, <1>4
    <3> QED
      BY <3>2, <3>4, <3>5, <1>2
  <2> QED
    BY <2>1, <2>2
<1>7. Len(s \o t) = Len(u)
  BY <1>2, <1>3, <1>4, <1>5
<1>8. s \o t = u
  BY <1>4, <1>5, <1>6, <1>7, SeqEqual
<1> QED
  BY <1>8 DEF s, t, u

LEMMA TextCuts ==
    ASSUME NEW a \in Nat, NEW b \in Nat, a <= b, NEW k \in 0 .. b - a
    PROVE  /\ SubSeq(Text(a, b), 1, k) = Text(a, a + k)
           /\ SubSeq(Text(a, b), k + 1, b - a) = Text(a + k, b)
<1> DEFINE t == Text(a, b)
           c == a + k
           u == Text(a, c)
           v == Text(c, b)
<1>1. c \in Nat /\ a <= c /\ c <= b /\ c - a = k
  OBVIOUS
<1>2. t \in Seq(Nat) /\ Len(t) = b - a /\ \A i \in 1 .. b - a : t[i] = a + i
  BY TextIs
<1> HIDE DEF c
<1>3. u \in Seq(Nat) /\ Len(u) = c - a /\ \A i \in 1 .. c - a : u[i] = a + i
  BY <1>1, TextIs
<1>4. v \in Seq(Nat) /\ Len(v) = b - c /\ \A i \in 1 .. b - c : v[i] = c + i
  BY <1>1, TextIs
<1> HIDE DEF t, u, v
<1>5. /\ SubSeq(t, 1, k) \in Seq(Nat)
      /\ Len(SubSeq(t, 1, k)) = k
      /\ \A i \in 1 .. k : SubSeq(t, 1, k)[i] = a + i
  <2>1. 1 .. k \subseteq 1 .. Len(t)
    BY <1>2
  <2>2. \A i \in 1 .. k : t[i] \in Nat
    BY <1>2
  <2> QED
    BY <1>2, <2>1, <2>2
<1>6. SubSeq(t, 1, k) = u
  BY <1>1, <1>3, <1>5, SeqEqual
<1>7. /\ SubSeq(t, k + 1, b - a) \in Seq(Nat)
      /\ Len(SubSeq(t, k + 1, b - a)) = b - c
      /\ \A i \in 1 .. b - c : SubSeq(t, k + 1, b - a)[i] = c + i
  <2>1. \A i \in k + 1 .. b - a : i \in 1 .. Len(t) /\ t[i] \in Nat
    BY <1>2
  <2> QED
    BY <1>1, <1>2, <2>1
<1>8. SubSeq(t, k + 1, b - a) = v
  BY <1>4, <1>7, SeqEqual
<1> QED
  BY <1>6, <1>8 DEF c, t, u, v

\* A stream that is given what follows takes the beginning of it.
LEMMA Takes ==
    ASSUME NEW s \in Seq(Nat), NEW a \in Nat, NEW b \in Nat, a <= b, NEW k \in 0 .. b - a,
           NEW whole \in BOOLEAN, NEW later \in BOOLEAN,
           Has(s, a, whole), later => whole /\ k = b - a
    PROVE  /\ s \o SubSeq(Text(a, b), 1, k) \in Seq(Nat)
           /\ Has(s \o SubSeq(Text(a, b), 1, k), b, later)
<1> DEFINE c == a + k
           t == Text(a, c)
           r == s \o t
<1>1. c \in Nat /\ a <= c /\ c <= b /\ c - a = k
  OBVIOUS
<1>2. SubSeq(Text(a, b), 1, k) = t
  BY TextCuts
<1> HIDE DEF c
<1>3. t \in Seq(Nat) /\ Len(t) = k /\ \A i \in 1 .. k : t[i] = a + i
  BY <1>1, TextIs
<1>4. ASSUME later PROVE r = Text(0, b)
  <2>1. s = Text(0, a) /\ c = b
    BY <1>1, <1>4 DEF Has, c
  <2>2. 0 \in Nat /\ 0 <= a
    OBVIOUS
  <2>3. Text(0, a) \o Text(a, b) = Text(0, b)
    BY <2>2, TextJoins
  <2> QED
    BY <2>1, <2>3
<1> HIDE DEF t
<1>5. /\ r \in Seq(Nat)
      /\ Len(r) = Len(s) + k
      /\ \A i \in 1 .. Len(r) : r[i] = IF i <= Len(s) THEN s[i] ELSE t[i - Len(s)]
  <2>1. /\ s \o t \in Seq(Nat) /\ Len(s \o t) = Len(s) + Len(t)
        /\ \A i \in 1 .. Len(s) + Len(t) : (s \o t)[i] = IF i <= Len(s) THEN s[i] ELSE t[i - Len(s)]
    BY <1>3, ConcatProperties
  <2> QED
    BY <2>1, <1>3
<1> HIDE DEF r
<1>6. ASSUME NEW i \in 1 .. Len(r), i > Len(s) PROVE r[i] = a + (i - Len(s))
  <2>1. Len(s) \in Nat /\ i - Len(s) \in 1 .. k /\ ~(i <= Len(s))
    BY <1>5, <1>6
  <2> QED
    BY <2>1, <1>3, <1>5
<1>7. Len(s) \in Nat /\ \A i \in 1 .. Len(s) : r[i] = s[i] /\ s[i] \in Nat /\ s[i] <= a
  BY <1>5 DEF Has
<1>8. ASSUME NEW i \in 1 .. Len(r) PROVE r[i] <= b
  <2>1. CASE i <= Len(s)
    BY <2>1, <1>7
  <2>2. CASE i > Len(s)
    BY <2>2, <1>5, <1>6, <1>7
  <2> QED
    BY <2>1, <2>2, <1>7
<1>9. ASSUME NEW i \in 1 .. Len(r) - 1
      PROVE  r[i] < r[i + 1]
  <2>1. i \in 1 .. Len(r) /\ i + 1 \in 1 .. Len(r)
    BY <1>5, <1>7
  <2>2. CASE i + 1 <= Len(s)
    <3>1. s[i] < s[i + 1]
      BY <2>2, <1>7 DEF Has, Ascending
    <3> QED
      BY <2>2, <3>1, <1>7
  <2>3. CASE i = Len(s)
    <3>1. r[i] <= a /\ r[i] \in Nat
      BY <2>3, <1>7
    <3>2. r[i + 1] = a + ((i + 1) - Len(s))
      BY <2>1, <2>3, <1>6, <1>7
    <3> QED
      BY <2>3, <3>1, <3>2
  <2>4. CASE i > Len(s)
    <3>1. r[i] = a + (i - Len(s)) /\ r[i + 1] = a + ((i + 1) - Len(s))
      BY <2>1, <2>4, <1>6, <1>7
    <3> QED
      BY <3>1, <1>7
  <2> QED
    BY <2>2, <2>3, <2>4, <1>7
<1>10. Has(r, b, later)
  BY <1>4, <1>8, <1>9 DEF Has, Ascending
<1> QED
  BY <1>2, <1>5, <1>10 DEF r

LEMMA HasMore ==
    ASSUME NEW s \in Seq(Nat), NEW a \in Nat, NEW b \in Nat, a <= b, NEW whole, Has(s, a, whole)
    PROVE  Has(s, b, FALSE)
BY DEF Has

LEMMA HasNothing ==
    ASSUME NEW whole
    PROVE  Has(<<>>, 0, whole)
BY TextIs DEF Has, Ascending

(***************************************************************************)
(* The shares of the threads                                               *)
(***************************************************************************)

LEMMA Division ==
    ASSUME NEW n \in Nat, NEW d \in Nat \ {0}
    PROVE  /\ n \div d \in Nat
           /\ n - (n \div d) * d \in 0 .. d - 1
OBVIOUS

LEMMA Multiples ==
    ASSUME NEW k \in Nat, NEW m \in Nat, NEW r \in Nat, k <= m
    PROVE  k * r \in Nat /\ m * r \in Nat /\ k * r <= m * r /\ (k + 1) * r = k * r + r
<1>1. k * r \in Nat /\ (m - k) * r \in Nat /\ m - k \in Nat
  OBVIOUS
<1>2. m * r = k * r + (m - k) * r
  OBVIOUS
<1>3. (k + 1) * r = k * r + r
  OBVIOUS
<1> QED
  BY <1>1, <1>2, <1>3

CountsOK == cuts \in Seq(Nat) /\ cuts # <<>> /\ threads \in Nat \ {0}

LEMMA Counts ==
    ASSUME CountsOK
    PROVE  /\ elements \in Nat /\ range \in Nat /\ remainder \in Nat
           /\ elements = range * threads + remainder
           /\ Len(cuts) = elements + 1
           /\ First(0) = 0 /\ First(1) = range
<1>1. elements \in Nat /\ Len(cuts) = elements + 1
  BY EmptySeq DEF CountsOK, elements
<1>2. range \in Nat /\ remainder \in Nat
  <2>1. /\ elements \div threads \in Nat
        /\ elements - (elements \div threads) * threads \in 0 .. threads - 1
    BY <1>1, Division DEF CountsOK
  <2> QED
    BY <2>1 DEF CountsOK, range, remainder
<1>3. range * threads \in Int
  BY <1>2 DEF CountsOK
<1>4. elements = range * threads + remainder
  BY <1>1, <1>3 DEF remainder
<1> QED
  BY <1>1, <1>2, <1>4 DEF First

\* The shares follow each other from the first element to the last.
LEMMA Shares ==
    ASSUME CountsOK
    PROVE  /\ \A w \in 0 .. threads : First(w) \in 0 .. elements
           /\ First(threads) = elements
           /\ \A w \in 1 .. threads - 1 :
                First(w + 1) = First(w) + (IF w = 1 THEN range + remainder ELSE range)
<1>1. /\ elements \in Nat /\ range \in Nat /\ remainder \in Nat
      /\ elements = range * threads + remainder
      /\ First(0) = 0 /\ First(1) = range /\ threads \in Nat \ {0}
  BY Counts DEF CountsOK
<1>2. CASE threads = 1
  <2>1. elements = range + remainder
    BY <1>1, <1>2
  <2>2. remainder = 0
    <3>1. remainder \in 0 .. threads - 1
      BY <1>1, Division DEF range, remainder
    <3> QED
      BY <3>1, <1>2
  <2> QED
    BY <1>1, <1>2, <2>1, <2>2
<1>3. CASE threads > 1
  <2>1. \A w \in 2 .. threads : First(w) = 2 * range + remainder + (w - 2) * range
    BY DEF First
  <2>2. range * threads = 2 * range + (threads - 2) * range
    BY <1>1
  <2>3. \A w \in 2 .. threads :
            (w - 2) * range \in Nat /\ (w - 2) * range <= (threads - 2) * range
    <3>1. TAKE w \in 2 .. threads
    <3>2. w - 2 \in Nat /\ threads - 2 \in Nat /\ w - 2 <= threads - 2
      BY <1>1, <1>3
    <3> QED
      BY <3>2, <1>1, Multiples
  <2>4. (threads - 2) * range \in Nat
    BY <1>3, <1>1, <2>3
  <2>5. First(threads) = elements
    BY <1>1, <1>3, <2>1, <2>2, <2>4
  <2>6. \A w \in 2 .. threads : First(w) \in 0 .. elements
    BY <1>1, <2>1, <2>2, <2>3, <2>4
  <2>7. First(1) \in 0 .. elements
    BY <1>1, <2>2, <2>4
  <2>8. ASSUME NEW w \in 1 .. threads - 1
        PROVE  First(w + 1) = First(w) + (IF w = 1 THEN range + remainder ELSE range)
    <3>1. CASE w = 1
      <4>1. First(2) = 2 * range + remainder + (2 - 2) * range
        BY <2>1, <1>1, <1>3
      <4> QED
        BY <3>1, <4>1, <1>1
    <3>2. CASE w > 1
      <4>1. First(w) = 2 * range + remainder + (w - 2) * range
        BY <2>1, <3>2, <1>1
      <4>2. First(w + 1) = 2 * range + remainder + ((w - 2) + 1) * range
        <5>1. w + 1 \in 2 .. threads /\ (w + 1) - 2 = (w - 2) + 1
          BY <3>2, <1>1
        <5> QED
          BY <5>1, <2>1
      <4>3. w - 2 \in Nat /\ (w - 2) * range \in Nat /\ ((w - 2) + 1) * range = (w - 2) * range + range
        BY <3>2, <1>1, Multiples
      <4> QED
        BY <3>2, <4>1, <4>2, <4>3, <1>1
    <3> QED
      BY <3>1, <3>2
  <2> QED
    BY <1>1, <2>5, <2>6, <2>7, <2>8
<1> QED
  BY <1>1, <1>2, <1>3

\* A share is no longer than its room, and where it begins and ends are places of
\* the text.
LEMMA ShareFits ==
    ASSUME CountsOK, CutsOK(cuts), NEW w \in 0 .. threads - 1
    PROVE  /\ First(w) + 1 \in 1 .. Len(cuts) /\ First(w + 1) + 1 \in 1 .. Len(cuts)
           /\ First(w) <= First(w + 1)
           /\ cuts[First(w) + 1] \in Nat /\ cuts[First(w + 1) + 1] \in Nat
           /\ cuts[First(w) + 1] <= cuts[First(w + 1) + 1]
           /\ Share(w) \in Seq(Nat)
           /\ w # 0 => Room(w) \in Nat /\ Len(Share(w)) <= Room(w)
<1> DEFINE f == First(w)
           g == First(w + 1)
<1>1. /\ elements \in Nat /\ range \in Nat /\ remainder \in Nat
      /\ Len(cuts) = elements + 1 /\ threads \in Nat \ {0}
      /\ First(0) = 0 /\ First(1) = range
  BY Counts DEF CountsOK
<1>2. f \in 0 .. elements /\ g \in 0 .. elements
  BY <1>1, Shares
<1>3. w # 0 => g = f + (IF w = 1 THEN range + remainder ELSE range)
  BY <1>1, Shares
<1>4. f <= g
  BY <1>1, <1>2, <1>3
<1>5. Share(w) = Text(cuts[f + 1], cuts[g + 1])
  BY DEF Share
<1>6. w # 0 => Room(w) = (g - f) * CharsPerElement
  BY <1>1, <1>2, <1>3 DEF Room
<1> HIDE DEF f, g
<1>7. f + 1 \in 1 .. Len(cuts) /\ g + 1 \in 1 .. Len(cuts)
  BY <1>1, <1>2
<1>8. /\ cuts[f + 1] \in Nat /\ cuts[g + 1] \in Nat
      /\ cuts[f + 1] <= cuts[g + 1]
      /\ cuts[g + 1] - cuts[f + 1] <= (g - f) * CharsPerElement
  <2>1. f + 1 <= g + 1 /\ (g + 1) - (f + 1) = g - f
    BY <1>2, <1>4
  <2> QED
    BY <1>7, <2>1 DEF CutsOK, CountsOK
<1>9. Text(cuts[f + 1], cuts[g + 1]) \in Seq(Nat) /\ Len(Text(cuts[f + 1], cuts[g + 1])) = cuts[g + 1] - cuts[f + 1]
  BY <1>8, TextIs
<1>10. g - f \in Nat /\ (g - f) * CharsPerElement \in Nat
  BY <1>2, <1>4, ParallelAssumption
<1> QED
  BY <1>4, <1>5, <1>6, <1>7, <1>8, <1>9, <1>10 DEF f, g

(***************************************************************************)
(* The temporary buffer                                                    *)
(***************************************************************************)

LEMMA LargerIs ==
    ASSUME NEW a \in Nat, NEW b \in Nat
    PROVE  Larger(a, b) \in Nat /\ Larger(a, b) >= a /\ Larger(a, b) >= b
BY DEF Larger

LEMMA CopyIs ==
    ASSUME NEW b \in Buffer, NEW t \in Seq(Nat)
    PROVE  /\ CopyTo(b, t) \in Buffer
           /\ CopyTo(b, t).text = b.text \o t
           /\ CopyTo(b, t).cap = b.cap
           /\ CopyTo(b, t).wild => b.wild \/ Len(b.text) + Len(t) > b.cap
           /\ ~CopyTo(b, t).wild => ~b.wild /\ Len(b.text) + Len(t) <= b.cap
           /\ Len(b.text \o t) = Len(b.text) + Len(t)
<1>1. b.text \in Seq(Nat) /\ b.text \o t \in Seq(Nat) /\ Len(b.text \o t) = Len(b.text) + Len(t)
  BY ConcatProperties DEF Buffer
<1> DEFINE u == b.text \o t
           w == b.wild \/ Len(b.text) + Len(t) > b.cap
<1>2. CopyTo(b, t) = [b EXCEPT !.text = u, !.wild = w]
  BY DEF CopyTo
<1>3. w \in BOOLEAN /\ u \in Seq(Nat)
  BY <1>1
<1>4. /\ w => b.wild \/ Len(b.text) + Len(t) > b.cap
      /\ ~w => ~b.wild /\ ~(Len(b.text) + Len(t) > b.cap)
  OBVIOUS
<1>5. ~(Len(b.text) + Len(t) > b.cap) => Len(b.text) + Len(t) <= b.cap
  BY <1>1 DEF Buffer
<1> HIDE DEF u, w
<1>6. /\ CopyTo(b, t) \in Buffer
      /\ CopyTo(b, t).text = u /\ CopyTo(b, t).cap = b.cap /\ CopyTo(b, t).wild = w
  BY <1>2, <1>3 DEF Buffer
<1>7. u = b.text \o t
  BY DEF u
<1> QED
  BY <1>1, <1>4, <1>5, <1>6, <1>7

LEMMA GrowIs ==
    ASSUME NEW b \in Buffer, NEW n \in Nat
    PROVE  /\ ogrow(b, n) \in Buffer
           /\ ogrow(b, n).text = b.text /\ ogrow(b, n).cap = n /\ ogrow(b, n).wild = b.wild
BY DEF ogrow, Buffer

\* What comes of a buffer b and the text t, the longest text before being of length l.
Gets(b, t, l, r) ==
    /\ r \in Buffer
    /\ r.text = b.text \o t
    /\ Inside(r, Larger(l, Len(t)))

LEMMA WriteIs ==
    ASSUME NEW b \in Buffer, NEW t \in Seq(Nat), NEW l \in Nat, Inside(b, l)
    PROVE  Gets(b, t, l, Write(b, t))
<1> DEFINE n == Larger(2 * b.cap, Len(t))
<1>1. /\ b.text \in Seq(Nat) /\ Len(b.text) \in Nat /\ b.cap \in Nat /\ b.wild \in BOOLEAN
      /\ Len(t) \in Nat /\ StaticSize \in Nat
  BY StaticSizeAssumption DEF Buffer
<1>2. n \in Nat /\ n >= 2 * b.cap /\ n >= Len(t)
  <2>1. 2 * b.cap \in Nat
    BY <1>1
  <2> QED
    BY <1>1, <2>1, LargerIs
<1>3. Larger(l, Len(t)) \in Nat /\ Larger(l, Len(t)) >= l /\ Larger(l, Len(t)) >= Len(t)
  BY <1>1, LargerIs
<1> HIDE DEF n
<1>4. CASE b.cap - Len(b.text) < Len(t)
  <2>1. /\ ogrow(b, n) \in Buffer
        /\ ogrow(b, n).text = b.text /\ ogrow(b, n).cap = n /\ ogrow(b, n).wild = b.wild
    BY <1>2, GrowIs
  <2>2. Write(b, t) = CopyTo(ogrow(b, n), t)
    BY <1>4 DEF Write, n
  <2>3. /\ Write(b, t) \in Buffer
        /\ Write(b, t).text = b.text \o t
        /\ Write(b, t).cap = n
        /\ Write(b, t).wild => b.wild \/ Len(b.text) + Len(t) > n
        /\ ~Write(b, t).wild => Len(b.text) + Len(t) <= n
        /\ Len(b.text \o t) = Len(b.text) + Len(t)
    <3> DEFINE g == ogrow(b, n)
    <3> HIDE DEF g
    <3>1. g \in Buffer /\ g.text = b.text /\ g.cap = n /\ g.wild = b.wild
      BY <2>1 DEF g
    <3>2. Write(b, t) = CopyTo(g, t)
      BY <2>2 DEF g
    <3>3. /\ CopyTo(g, t) \in Buffer
          /\ CopyTo(g, t).text = g.text \o t
          /\ CopyTo(g, t).cap = g.cap
          /\ CopyTo(g, t).wild => g.wild \/ Len(g.text) + Len(t) > g.cap
          /\ ~CopyTo(g, t).wild => ~g.wild /\ Len(g.text) + Len(t) <= g.cap
          /\ Len(g.text \o t) = Len(g.text) + Len(t)
      BY <3>1, CopyIs
    <3> QED
      BY <3>1, <3>2, <3>3
  <2>4. n >= StaticSize
    BY <1>1, <1>2 DEF Inside
  <2>5. CASE Write(b, t).wild
    <3>1. Larger(l, Len(t)) > StaticSize
      <4>1. CASE b.wild
        BY <4>1, <1>1, <1>3 DEF Inside
      <4>2. CASE ~b.wild
        BY <4>2, <1>1, <1>2, <1>3, <2>3, <2>5 DEF Inside
      <4> QED
        BY <4>1, <4>2
    <3> QED
      BY <2>3, <2>4, <2>5, <3>1 DEF Gets, Inside
  <2>6. CASE ~Write(b, t).wild
    <3>1. Len(b.text) + Len(t) <= n
      BY <2>3, <2>6, <1>1, <1>2
    <3> QED
      BY <2>3, <2>4, <2>6, <3>1 DEF Gets, Inside
  <2> QED
    BY <2>5, <2>6
<1>5. CASE ~(b.cap - Len(b.text) < Len(t))
  <2>1. Write(b, t) = CopyTo(b, t)
    BY <1>5 DEF Write
  <2>2. /\ Write(b, t) \in Buffer
        /\ Write(b, t).text = b.text \o t
        /\ Write(b, t).cap = b.cap
        /\ Write(b, t).wild => b.wild \/ Len(b.text) + Len(t) > b.cap
        /\ ~Write(b, t).wild => ~b.wild
        /\ Len(b.text \o t) = Len(b.text) + Len(t)
    BY <2>1, CopyIs
  <2>3. Len(b.text) + Len(t) <= b.cap
    BY <1>1, <1>5
  <2>4. /\ Write(b, t).wild => b.wild
        /\ ~Write(b, t).wild => ~b.wild
    BY <2>2, <2>3, <1>1
  <2>5. b.wild => Larger(l, Len(t)) > StaticSize
    BY <1>1, <1>3 DEF Inside
  <2> QED
    BY <2>2, <2>3, <2>4, <2>5 DEF Gets, Inside
<1> QED
  BY <1>4, <1>5

LEMMA PutIs ==
    ASSUME NEW b \in Buffer, NEW c \in Nat, NEW l \in Nat, Inside(b, l)
    PROVE  Gets(b, <<c>>, l, PutChar(b, c))
<1> DEFINE g == IF Len(b.text) = b.cap THEN ogrow(b, 2 * b.cap) ELSE b
<1>1. /\ b.text \in Seq(Nat) /\ Len(b.text) \in Nat /\ b.cap \in Nat /\ b.wild \in BOOLEAN
      /\ StaticSize \in Nat /\ StaticSize > 0
  BY StaticSizeAssumption DEF Buffer
<1>2. /\ g \in Buffer /\ g.text = b.text /\ g.wild = b.wild /\ g.cap \in Nat
      /\ g.cap >= b.cap
      /\ ~b.wild => Len(b.text) + 1 <= g.cap
  <2>1. CASE Len(b.text) = b.cap
    <3>1. 2 * b.cap \in Nat
      BY <1>1
    <3>2. g = ogrow(b, 2 * b.cap)
      BY <2>1
    <3>3. g \in Buffer /\ g.text = b.text /\ g.cap = 2 * b.cap /\ g.wild = b.wild
      <4> DEFINE n == 2 * b.cap
      <4>1. n \in Nat /\ g = ogrow(b, n)
        BY <3>1, <3>2
      <4> HIDE DEF n
      <4>2. /\ ogrow(b, n) \in Buffer
            /\ ogrow(b, n).text = b.text /\ ogrow(b, n).cap = n /\ ogrow(b, n).wild = b.wild
        BY <4>1, GrowIs
      <4> HIDE DEF g
      <4> QED
        BY <4>1, <4>2 DEF n
    <3>4. b.cap > 0
      BY <1>1 DEF Inside
    <3> QED
      BY <2>1, <3>3, <3>4, <1>1
  <2>2. CASE Len(b.text) # b.cap
    BY <2>2, <1>1 DEF Inside
  <2> QED
    BY <2>1, <2>2
<1>3. <<c>> \in Seq(Nat) /\ Len(<<c>>) = 1
  OBVIOUS
<1>4. PutChar(b, c) = CopyTo(g, <<c>>)
  BY DEF PutChar
<1> HIDE DEF g
<1>5. /\ PutChar(b, c) \in Buffer
      /\ PutChar(b, c).text = b.text \o <<c>>
      /\ PutChar(b, c).cap = g.cap
      /\ PutChar(b, c).wild => b.wild \/ Len(b.text) + 1 > g.cap
      /\ ~PutChar(b, c).wild => ~b.wild
      /\ Len(b.text \o <<c>>) = Len(b.text) + 1
  <2> DEFINE t == <<c>>
  <2> HIDE DEF t
  <2>1. t \in Seq(Nat) /\ Len(t) = 1
    BY <1>3 DEF t
  <2>2. /\ CopyTo(g, t) \in Buffer
        /\ CopyTo(g, t).text = g.text \o t
        /\ CopyTo(g, t).cap = g.cap
        /\ CopyTo(g, t).wild => g.wild \/ Len(g.text) + Len(t) > g.cap
        /\ ~CopyTo(g, t).wild => ~g.wild
        /\ Len(g.text \o t) = Len(g.text) + Len(t)
    BY <1>2, <2>1, CopyIs
  <2>3. PutChar(b, c) = CopyTo(g, t)
    BY <1>4 DEF t
  <2> QED
    BY <1>2, <2>1, <2>2, <2>3 DEF t
<1>6. Larger(l, 1) \in Nat /\ Larger(l, 1) >= l
  BY LargerIs
<1>7. /\ PutChar(b, c).wild => b.wild
      /\ ~PutChar(b, c).wild => ~b.wild
  BY <1>1, <1>2, <1>5
<1>8. b.wild => Larger(l, 1) > StaticSize
  BY <1>1, <1>6 DEF Inside
<1>9. g.cap >= StaticSize
  BY <1>1, <1>2 DEF Inside
<1>10. ~b.wild => Len(PutChar(b, c).text) <= PutChar(b, c).cap
  BY <1>2, <1>5
<1> QED
  BY <1>3, <1>5, <1>7, <1>8, <1>9, <1>10 DEF Gets, Inside

LEMMA ReserveIs ==
    ASSUME NEW b \in Buffer, NEW t \in Seq(Nat), NEW l \in Nat, Inside(b, l),
           NEW n \in Nat, Len(t) <= n
    PROVE  Gets(b, t, l, PrintReserve(b, n, t))
<1>1. CASE oreserve(b, n)
  <2>1. /\ b.text \in Seq(Nat) /\ Len(b.text) \in Nat /\ b.cap \in Nat /\ b.wild \in BOOLEAN
        /\ Len(t) \in Nat /\ StaticSize \in Nat
    BY StaticSizeAssumption DEF Buffer
  <2>2. PrintReserve(b, n, t) = Write(b, t)
    BY <1>1, <2>1 DEF PrintReserve, oreserve, Write
  <2> QED
    BY <2>2, WriteIs
<1>2. CASE ~oreserve(b, n)
  BY <1>2, WriteIs DEF PrintReserve
<1> QED
  BY <1>1, <1>2

(***************************************************************************)
(* What is unchanged                                                       *)
(***************************************************************************)

LEMMA CountsAre ==
    ASSUME ParOK
    PROVE  CountsOK
BY ParallelAssumption DEF ParOK, CountsOK

LEMMA NewBufferIs ==
    /\ NewBuffer \in Buffer /\ NewBuffer.text = <<>>
    /\ NewBuffer.cap = StaticSize /\ ~NewBuffer.wild
    /\ \A l : Inside(NewBuffer, l)
BY StaticSizeAssumption DEF NewBuffer, Span, Buffer, Inside

\* As long as no range is printed in parallel, nothing of it is touched.
LEMMA Idle ==
    ASSUME ParOK, JobOK, ResultsOK, job = "none", UNCHANGED parVars
    PROVE  ParOK' /\ JobOK' /\ ResultsOK' /\ job' = "none"
<1>1. /\ threads' = threads /\ job' = job /\ cuts' = cuts /\ own' = own
      /\ results' = results /\ running' = running /\ written' = written
  BY DEF parVars
<1>2. elements' = elements /\ First(1)' = First(1)
  BY <1>1 DEF elements, First, range
<1>3. ParOK'
  BY <1>1, <1>2 DEF ParOK
<1>4. JobOK'
  BY <1>1, <1>2 DEF JobOK
<1>5. ResultsOK'
  <2>1. DOMAIN results = {}
    BY DEF JobOK
  <2> QED
    BY <1>1, <2>1 DEF ResultsOK
<1> QED
  BY <1>1, <1>3, <1>4, <1>5

\* A call to print leaves the relay as it is.
LEMMA RelayStays ==
    ASSUME SourceOK, RelayOK, UNCHANGED relayVars, out.source = out'.source,
           "source" \in faulty' <=> "source" \in faulty, call # "relay", call' # "relay"
    PROVE  SourceOK' /\ RelayOK'
<1>1. /\ curr' = curr /\ end' = end /\ stage' = stage /\ moved' = moved /\ ended' = ended
      /\ left' = left /\ taken' = taken /\ broken' = broken
  BY DEF relayVars
<1>2. SourceOK'
  BY <1>1 DEF SourceOK
<1>3. RelayOK'
  BY <1>1 DEF RelayOK, Has
<1> QED
  BY <1>2, <1>3

\* A write of t gives the stream the beginning of it.
LEMMA WriteOutIs ==
    ASSUME OutOK, NEW c \in {"call", "source"}, NEW t \in Seq(Nat), WriteOut(c, t)
    PROVE  \E k \in 0 .. Len(t) :
            /\ out' = [out EXCEPT ![c] = @ \o SubSeq(t, 1, k)]
            /\ \/ k = Len(t) /\ trouble' = trouble /\ faulty' = faulty
               \/ trouble' \in 0 .. MaxTrouble /\ faulty' = faulty \cup {c}
<1>1. Len(t) \in Nat
  OBVIOUS
<1>2. PICK k \in (IF out.kind = "device" THEN 0 ELSE Len(t)) .. Len(t) :
            /\ out' = [out EXCEPT ![c] = @ \o SubSeq(t, 1, k)]
            /\ IF k < Len(t) THEN Trouble(c) ELSE UNCHANGED <<trouble, faulty>>
  BY DEF WriteOut
<1>3. k \in 0 .. Len(t)
  BY <1>1, <1>2
<1>4. CASE k < Len(t)
  <2>1. trouble' \in 0 .. MaxTrouble /\ faulty' = faulty \cup {c}
    BY <1>2, <1>4, OutAssumption DEF Trouble, OutOK
  <2> QED
    BY <1>2, <1>3, <2>1
<1>5. CASE ~(k < Len(t))
  <2>1. k = Len(t)
    BY <1>1, <1>3, <1>5
  <2> QED
    BY <1>2, <1>3, <1>5, <2>1
<1> QED
  BY <1>4, <1>5

\* What the stream has of the call after a write of the text from a to b.
LEMMA CallGets ==
    ASSUME OutOK, NEW a \in Nat, NEW b \in Nat, a <= b,
           Has(out.call, a, "call" \notin faulty), WriteOut("call", Text(a, b))
    PROVE  /\ out' \in [kind : {"device", "span"}, call : Seq(Nat), source : Seq(Nat)]
           /\ out'.source = out.source
           /\ trouble' \in 0 .. MaxTrouble /\ faulty' \subseteq {"call", "source"}
           /\ "source" \in faulty' <=> "source" \in faulty
           /\ Has(out'.call, b, "call" \notin faulty')
<1>1. Text(a, b) \in Seq(Nat) /\ Len(Text(a, b)) = b - a
  BY TextIs
<1>2. PICK k \in 0 .. b - a :
            /\ out' = [out EXCEPT !["call"] = @ \o SubSeq(Text(a, b), 1, k)]
            /\ \/ k = b - a /\ trouble' = trouble /\ faulty' = faulty
               \/ trouble' \in 0 .. MaxTrouble /\ faulty' = faulty \cup {"call"}
  BY <1>1, WriteOutIs
<1> DEFINE s == out.call \o SubSeq(Text(a, b), 1, k)
<1>3. out.call \in Seq(Nat)
  BY DEF OutOK
<1>4. "call" \notin faulty' => "call" \notin faulty /\ k = b - a
  BY <1>2
<1>5. ("call" \notin faulty') \in BOOLEAN /\ ("call" \notin faulty) \in BOOLEAN
  OBVIOUS
<1>6. s \in Seq(Nat) /\ Has(s, b, "call" \notin faulty')
  BY <1>3, <1>4, <1>5, Takes
<1>7. out' = [out EXCEPT !.call = s]
  BY <1>2
<1> HIDE DEF s
<1>8. out'.call = s /\ out'.source = out.source
      /\ out' \in [kind : {"device", "span"}, call : Seq(Nat), source : Seq(Nat)]
  BY <1>6, <1>7 DEF OutOK
<1>9. /\ trouble' \in 0 .. MaxTrouble /\ faulty' \subseteq {"call", "source"}
      /\ "source" \in faulty' <=> "source" \in faulty
  BY <1>2 DEF OutOK
<1> QED
  BY <1>6, <1>8, <1>9

\* A write that throws gives it nothing.
LEMMA Throws ==
    ASSUME OutOK, NEW c \in {"call", "source"}, Trouble(c)
    PROVE  trouble' \in 0 .. MaxTrouble /\ faulty' = faulty \cup {c} /\ faulty' \subseteq {"call", "source"}
BY OutAssumption DEF Trouble, OutOK

(***************************************************************************)
(* The arguments of a print                                                *)
(***************************************************************************)

LEMMA ArgumentIs ==
    ASSUME NEW a \in Argument, a.cuts # <<>>, Honest(a)
    PROVE  /\ a.cuts \in Seq(Nat) /\ Len(a.cuts) \in Nat \ {0} /\ a.size \in Nat
           /\ Before(a) \in Nat /\ After(a) \in Nat /\ Before(a) <= After(a)
           /\ TextOf(a) = Text(Before(a), After(a))
           /\ TextOf(a) \in Seq(Nat) /\ Len(TextOf(a)) = After(a) - Before(a)
           /\ a.how = "parallel" => CutsOK(a.cuts)
<1>1. a.cuts \in Seq(Nat) /\ Len(a.cuts) \in Nat \ {0} /\ a.size \in Nat
  BY EmptySeq DEF Argument
<1>2. 1 \in 1 .. Len(a.cuts) /\ Len(a.cuts) \in 1 .. Len(a.cuts) /\ 1 <= Len(a.cuts)
  BY <1>1
<1>3. Before(a) \in Nat /\ After(a) \in Nat
  BY <1>1, <1>2 DEF Before, After
<1>4. Before(a) <= After(a)
  BY <1>2 DEF Before, After, Honest
<1>5. TextOf(a) = Text(Before(a), After(a))
  BY DEF TextOf
<1>6. TextOf(a) \in Seq(Nat) /\ Len(TextOf(a)) = After(a) - Before(a)
  BY <1>3, <1>4, <1>5, TextIs
<1>7. a.how = "parallel" => CutsOK(a.cuts)
  BY DEF Honest, CutsOK
<1> QED
  BY <1>1, <1>3, <1>4, <1>5, <1>6, <1>7

LEMMA HeadIs ==
    ASSUME NEW args \in Seq(Argument), NEW n \in Nat, ArgsOK(args, n), args # <<>>
    PROVE  /\ Head(args) \in Argument /\ Head(args).cuts # <<>> /\ Honest(Head(args))
           /\ NextOf(args, n) = Before(Head(args))
           /\ Tail(args) \in Seq(Argument) /\ ArgsOK(Tail(args), n)
           /\ NextOf(Tail(args), n) = After(Head(args))
<1> DEFINE t == Tail(args)
<1>1. Len(args) \in Nat /\ Len(args) >= 1 /\ Head(args) = args[1]
  BY EmptySeq
<1>2. /\ t \in Seq(Argument) /\ Len(t) = Len(args) - 1
      /\ \A i \in 1 .. Len(t) : t[i] = args[i + 1]
  BY HeadTailProperties
<1>3. Head(args) \in Argument /\ Head(args).cuts # <<>> /\ Honest(Head(args))
  BY <1>1 DEF ArgsOK
<1> HIDE DEF t
<1>4. NextOf(args, n) = Before(Head(args))
  BY <1>1 DEF NextOf
<1>5. CASE Len(args) = 1
  <2>1. t = <<>> /\ Len(t) = 0
    <3>1. Len(t) = 0
      BY <1>2, <1>5
    <3> QED
      BY <1>2, <3>1, EmptySeq
  <2>2. ArgsOK(t, n)
    BY <2>1 DEF ArgsOK, Follow
  <2>3. NextOf(t, n) = After(Head(args))
    BY <1>1, <1>5, <2>1 DEF ArgsOK, NextOf
  <2> QED
    BY <1>2, <1>3, <1>4, <2>2, <2>3 DEF t
<1>6. CASE Len(args) > 1
  <2>1. t # <<>> /\ Len(t) \in 1 .. Len(t) /\ 1 \in 1 .. Len(t)
    <3>1. Len(t) \in Nat /\ Len(t) >= 1
      BY <1>1, <1>2, <1>6
    <3>2. t # <<>>
      BY <1>2, <3>1, EmptySeq
    <3> QED
      BY <3>1, <3>2
  <2>2. t[1] = args[2] /\ t[Len(t)] = args[Len(args)]
    <3>1. Len(t) + 1 = Len(args)
      BY <1>1, <1>2
    <3>2. t[1] = args[1 + 1] /\ t[Len(t)] = args[Len(t) + 1]
      BY <1>2, <2>1
    <3> QED
      BY <3>1, <3>2
  <2>3. \A i \in 1 .. Len(t) : t[i].cuts # <<>> /\ Honest(t[i])
    <3>1. TAKE i \in 1 .. Len(t)
    <3>2. i + 1 \in 1 .. Len(args)
      BY <1>1, <1>2
    <3> QED
      BY <1>2, <3>2 DEF ArgsOK
  <2>4. Follow(t)
    <3> SUFFICES ASSUME NEW i \in 1 .. Len(t) - 1 PROVE After(t[i]) = Before(t[i + 1])
      BY DEF Follow
    <3>1. i \in 1 .. Len(t) /\ i + 1 \in 1 .. Len(t) /\ i + 1 \in 1 .. Len(args) - 1
      BY <1>1, <1>2
    <3>2. t[i] = args[i + 1] /\ t[i + 1] = args[(i + 1) + 1]
      BY <1>2, <3>1
    <3> QED
      BY <3>1, <3>2 DEF ArgsOK, Follow
  <2>5. After(t[Len(t)]) = n
    BY <2>2 DEF ArgsOK
  <2>6. After(args[1]) = Before(args[2])
    <3>1. 1 \in 1 .. Len(args) - 1
      BY <1>1, <1>6
    <3>2. After(args[1]) = Before(args[1 + 1])
      BY <3>1 DEF ArgsOK, Follow
    <3> QED
      BY <3>2
  <2>7. NextOf(t, n) = After(Head(args))
    BY <1>1, <2>1, <2>2, <2>6 DEF NextOf
  <2> QED
    <3>1. ArgsOK(t, n)
      BY <2>3, <2>4, <2>5 DEF ArgsOK
    <3> QED
      BY <1>2, <1>3, <1>4, <2>7, <3>1 DEF t
<1>7. Len(args) = 1 \/ Len(args) > 1
  <2>1. \A k \in Nat : k >= 1 => k = 1 \/ k > 1
    OBVIOUS
  <2> QED
    BY <1>1, <2>1
<1> QED
  BY <1>5, <1>6, <1>7 DEF t

LEMMA NextIs ==
    ASSUME NEW args \in Seq(Argument), NEW n \in Nat, ArgsOK(args, n)
    PROVE  NextOf(args, n) \in Nat
<1>1. CASE args = <<>>
  BY <1>1 DEF NextOf
<1>2. CASE args # <<>>
  BY <1>2, HeadIs, ArgumentIs
<1> QED
  BY <1>1, <1>2

\* A call begins with the whole list.
LEMMA Begins ==
    ASSUME IInv, NEW args \in Seq(Argument), NEW n \in Nat, ArgsOK(args, n),
           NextOf(args, n) = 0, direct' \in BOOLEAN,
           BeginCall("print", n), todo' = args, Begin, UNCHANGED relayVars
    PROVE  IInv'
<1> USE DEF IInv, ConsoleOK
<1>1. /\ call = "none" /\ call' = "print" /\ given' = n /\ out' = [out EXCEPT !.call = <<>>]
      /\ faulty' = faulty \ {"call"} /\ trouble' = trouble
      /\ tmp' = NewBuffer /\ longest' = 0 /\ UNCHANGED parVars
  BY DEF BeginCall, Begin
<1>2. /\ out' \in [kind : {"device", "span"}, call : Seq(Nat), source : Seq(Nat)]
      /\ out'.call = <<>> /\ out'.source = out.source
  <2>1. <<>> \in Seq(Nat)
    BY EmptySeq
  <2> QED
    BY <1>1, <2>1 DEF OutOK
<1>3. OutOK'
  BY <1>1, <1>2 DEF OutOK
<1>4. job = "none"
  BY <1>1 DEF ParOK
<1>5. ParOK' /\ JobOK' /\ ResultsOK' /\ job' = "none"
  BY <1>1, <1>4, Idle
<1>6. PrintOK'
  BY <1>1, NewBufferIs, StaticSizeAssumption DEF PrintOK
<1>7. SourceOK' /\ RelayOK'
  BY <1>1, <1>2, RelayStays
<1>8. TodoOK'
  BY <1>1 DEF TodoOK
<1>9. TmpOK'
  BY <1>1, NewBufferIs DEF TmpOK
<1>10. TextOK'
  <2>1. NextPlace' = 0
    BY <1>1 DEF NextPlace
  <2>2. Reached' = 0
    BY <1>5, <2>1 DEF Reached
  <2>3. \A f : Has(out'.call, 0, f)
    BY <1>2, HasNothing
  <2>4. tmp'.text = <<>> /\ Text(0, 0) = <<>>
    BY <1>1, NewBufferIs, TextIs
  <2> QED
    BY <1>1, <1>2, <1>5, <2>2, <2>3, <2>4 DEF TextOK, Has
<1> QED
  BY <1>3, <1>5, <1>6, <1>7, <1>8, <1>9, <1>10

LEMMA CallsAre ==
    ASSUME NEW args \in Calls
    PROVE  /\ args \in Seq(Argument) /\ args # <<>> /\ Len(args) \in Nat \ {0}
           /\ Length(args) \in Nat /\ ArgsOK(args, Length(args))
           /\ NextOf(args, Length(args)) = 0
<1>1. /\ args \in Seq(Argument) /\ args # <<>>
      /\ \A i \in 1 .. Len(args) : args[i].cuts # <<>> /\ Honest(args[i])
      /\ Before(args[1]) = 0 /\ Follow(args)
  BY CallsAssumption
<1>2. Len(args) \in Nat \ {0} /\ Len(args) \in 1 .. Len(args)
  BY <1>1, EmptySeq
<1>3. Length(args) \in Nat
  BY <1>1, <1>2, ArgumentIs DEF Length
<1>4. ArgsOK(args, Length(args))
  BY <1>1 DEF ArgsOK, Length
<1> QED
  BY <1>1, <1>2, <1>3, <1>4 DEF NextOf

LEMMA PrintKeeps ==
    ASSUME IInv, print, UNCHANGED relayVars
    PROVE  IInv'
<1>1. PICK args \in Calls :
        /\ BeginCall("print", Length(args))
        /\ todo' = args
        /\ direct' = (Len(args) = 1 /\ printable(args[1]))
  BY DEF print
<1>2. direct' \in BOOLEAN
  BY <1>1
<1>3. Begin
  BY DEF print
<1> QED
  BY <1>1, <1>2, <1>3, CallsAre, Begins

LEMMA PrintlnKeeps ==
    ASSUME IInv, println, UNCHANGED relayVars
    PROVE  IInv'
<1>1. PICK args \in Calls :
        /\ BeginCall("print", Length(args) + 1)
        /\ direct' = Lone(args)
        /\ todo' =
            IF Lone(args)
            THEN <<[args[1] EXCEPT !.cuts = <<Before(args[1]), Length(args) + 1>>, !.size = @ + 1]>>
            ELSE Append(args, [how |-> "chars", cuts |-> <<Length(args), Length(args) + 1>>, size |-> 0])
  BY DEF println
<1> DEFINE n == Length(args)
<1>2. direct' \in BOOLEAN /\ Begin
  BY <1>1 DEF println, Lone
<1>3. /\ args \in Seq(Argument) /\ args # <<>> /\ Len(args) \in Nat \ {0}
      /\ n \in Nat /\ ArgsOK(args, n) /\ NextOf(args, n) = 0
  BY CallsAre
<1>4. CASE Lone(args)
  <2> DEFINE a == args[1]
             b == [a EXCEPT !.cuts = <<Before(a), n + 1>>, !.size = @ + 1]
  <2>1. a \in Argument /\ a.cuts # <<>> /\ Honest(a) /\ a.how = "reserve"
    BY <1>3, <1>4 DEF Lone, ArgsOK
  <2>2. Before(a) = 0 /\ After(a) = n
    BY <1>3, <1>4 DEF Lone, ArgsOK, NextOf
  <2>3. a.size \in Nat /\ <<0, n + 1>> \in Seq(Nat)
    BY <2>1, <1>3 DEF Argument
  <2>4. /\ b \in Argument /\ b.cuts = <<0, n + 1>> /\ b.how = "reserve" /\ b.size = a.size + 1
        /\ Before(b) = 0 /\ After(b) = n + 1 /\ Len(b.cuts) = 2
    <3>1. b \in Argument /\ b.cuts = <<0, n + 1>> /\ b.how = "reserve" /\ b.size = a.size + 1
      <4> DEFINE m == a.size + 1
                 c == <<Before(a), n + 1>>
      <4>1. m \in Nat /\ c \in Seq(Nat) /\ c = <<0, n + 1>>
        BY <2>2, <2>3
      <4>2. b = [a EXCEPT !.cuts = c, !.size = m]
        OBVIOUS
      <4> HIDE DEF m, c, a, b
      <4>3. b \in Argument /\ b.cuts = c /\ b.how = a.how /\ b.size = m
        BY <2>1, <4>1, <4>2 DEF Argument
      <4> QED
        BY <2>1, <4>1, <4>3 DEF m
    <3> QED
      BY <3>1 DEF Before, After
  <2>9. todo' = <<b>> /\ n + 1 \in Nat
    BY <1>1, <1>3, <1>4
  <2> HIDE DEF a, b
  <2>5. n <= a.size
    BY <2>1, <2>2, <1>3 DEF Honest
  <2>6. Honest(b) /\ b.cuts # <<>>
    BY <2>4, <2>3, <2>5, <1>3 DEF Honest
  <2>7. <<b>> \in Seq(Argument) /\ Len(<<b>>) = 1 /\ <<b>>[1] = b /\ <<b>> # <<>>
    BY <2>4
  <2>8. ArgsOK(<<b>>, n + 1) /\ NextOf(<<b>>, n + 1) = 0
    <3>1. Follow(<<b>>)
      BY <2>7 DEF Follow
    <3> QED
      <4>1. \A i \in 1 .. Len(<<b>>) : <<b>>[i] = b
        BY <2>7
      <4>2. <<b>>[Len(<<b>>)] = b
        BY <2>7
      <4>3. ArgsOK(<<b>>, n + 1)
        BY <3>1, <2>4, <2>6, <4>1, <4>2 DEF ArgsOK
      <4> QED
        BY <2>4, <2>7, <4>3 DEF NextOf
  <2> QED
    BY <1>1, <1>2, <2>7, <2>8, <2>9, Begins
<1>5. CASE ~Lone(args)
  <2> DEFINE b == [how |-> "chars", cuts |-> <<n, n + 1>>, size |-> 0]
             t == Append(args, b)
  <2>1. /\ b \in Argument /\ b.cuts = <<n, n + 1>> /\ b.how = "chars"
        /\ Before(b) = n /\ After(b) = n + 1 /\ Len(b.cuts) = 2 /\ b.cuts # <<>>
    BY <1>3 DEF Argument, Kinds, Before, After
  <2>2. Honest(b)
    BY <2>1, <1>3 DEF Honest
  <2> HIDE DEF b
  <2>3. /\ t \in Seq(Argument) /\ Len(t) = Len(args) + 1
        /\ \A i \in 1 .. Len(args) : t[i] = args[i]
        /\ t[Len(args) + 1] = b
    BY <1>3, <2>1, AppendProperties
  <2> HIDE DEF t
  <2>4. \A i \in 1 .. Len(t) : t[i].cuts # <<>> /\ Honest(t[i])
    <3>1. TAKE i \in 1 .. Len(t)
    <3>2. CASE i \in 1 .. Len(args)
      BY <3>2, <2>3, <1>3 DEF ArgsOK
    <3>3. CASE i = Len(args) + 1
      BY <3>3, <2>1, <2>2, <2>3
    <3> QED
      BY <3>2, <3>3, <2>3, <1>3
  <2>5. After(args[Len(args)]) = n
    BY <1>3 DEF ArgsOK
  <2>6. Follow(t)
    <3> SUFFICES ASSUME NEW i \in 1 .. Len(t) - 1 PROVE After(t[i]) = Before(t[i + 1])
      BY DEF Follow
    <3>1. CASE i = Len(args)
      <4>1. t[i] = args[Len(args)] /\ t[i + 1] = b
        BY <1>3, <3>1, <2>3
      <4> QED
        BY <4>1, <2>1, <2>5
    <3>2. CASE i \in 1 .. Len(args) - 1
      <4>1. i \in 1 .. Len(args) /\ i + 1 \in 1 .. Len(args)
        BY <1>3, <3>2
      <4>2. t[i] = args[i] /\ t[i + 1] = args[i + 1]
        BY <4>1, <2>3
      <4> QED
        BY <3>2, <4>2, <1>3 DEF ArgsOK, Follow
    <3> QED
      BY <3>1, <3>2, <2>3, <1>3
  <2>7. t # <<>> /\ t[1] = args[1] /\ t[Len(t)] = b
    BY <1>3, <2>3, EmptySeq
  <2>8. ArgsOK(t, n + 1) /\ NextOf(t, n + 1) = 0
    BY <1>3, <2>1, <2>4, <2>6, <2>7 DEF ArgsOK, NextOf
  <2>9. todo' = t /\ n + 1 \in Nat
    BY <1>1, <1>3, <1>5 DEF b, t
  <2> QED
    BY <1>1, <1>2, <2>3, <2>8, <2>9, Begins
<1> QED
  BY <1>4, <1>5

\* The variables of a print that is not in parallel, between its arguments.
LEMMA PrintingIs ==
    ASSUME IInv, Printing
    PROVE  /\ ParOK /\ JobOK /\ ResultsOK /\ job = "none" /\ call = "print"
           /\ Reached = NextPlace /\ NextPlace \in Nat
           /\ direct => tmp.text = <<>> /\ Has(out.call, NextPlace, "call" \notin faulty)
           /\ ~direct => out.call = <<>> /\ tmp.text = Text(0, NextPlace)
           /\ todo \in Seq(Argument) /\ given \in Nat /\ ArgsOK(todo, given)
           /\ tmp \in Buffer /\ longest \in Nat /\ Inside(tmp, longest)
<1> USE DEF IInv, ConsoleOK
<1>1. job = "none" /\ call = "print"
  BY DEF Printing
<1>2. todo \in Seq(Argument) /\ given \in Nat /\ ArgsOK(todo, given)
  BY DEF PrintOK, OutOK, TodoOK
<1>3. Reached = NextPlace
  BY <1>1 DEF Reached
<1>4. NextPlace \in Nat
  BY <1>2, NextIs DEF NextPlace
<1>5. tmp \in Buffer /\ longest \in Nat /\ Inside(tmp, longest)
  BY DEF PrintOK, TmpOK
<1>6. /\ direct => tmp.text = <<>> /\ Has(out.call, NextPlace, "call" \notin faulty)
      /\ ~direct => out.call = <<>> /\ tmp.text = Text(0, NextPlace)
  BY <1>1, <1>3 DEF TextOK
<1> QED
  BY <1>1, <1>2, <1>3, <1>4, <1>5, <1>6

\* What remains to be shown of a step that prints an argument, or a part of one, into
\* the temporary buffer.
LEMMA Kept ==
    ASSUME IInv, Printing, ~direct, NEW b, NEW t \in Seq(Nat), Keep(b, t),
           Gets(tmp, t, longest, b), b.text = Text(0, NextPlace'),
           todo' \in Seq(Argument), ArgsOK(todo', given),
           UNCHANGED <<call, direct, given, parVars>>, UNCHANGED relayVars
    PROVE  IInv'
<1>1. /\ ParOK /\ JobOK /\ ResultsOK /\ job = "none" /\ call = "print"
      /\ out.call = <<>> /\ tmp \in Buffer /\ longest \in Nat /\ Inside(tmp, longest)
  BY PrintingIs
<1>2. /\ tmp' = b /\ longest' = Larger(longest, Len(t))
      /\ out' = out /\ trouble' = trouble /\ faulty' = faulty
      /\ call' = call /\ direct' = direct /\ given' = given /\ UNCHANGED parVars
  BY DEF Keep
<1>3. Larger(longest, Len(t)) \in Nat
  BY <1>1, LargerIs
<1>4. b \in Buffer /\ Inside(b, longest')
  BY <1>2 DEF Gets
<1>5. ParOK' /\ JobOK' /\ ResultsOK' /\ job' = "none"
  BY <1>1, <1>2, Idle
<1>6. OutOK'
  BY <1>2 DEF OutOK, IInv, ConsoleOK
<1>7. PrintOK'
  BY <1>2, <1>3, <1>4 DEF PrintOK, IInv, ConsoleOK, Inside
<1>8. SourceOK' /\ RelayOK'
  BY <1>1, <1>2, RelayStays DEF IInv, ConsoleOK
<1>9. TodoOK'
  BY <1>1, <1>2 DEF TodoOK
<1>10. TmpOK'
  BY <1>2, <1>4 DEF TmpOK
<1>11. TextOK'
  <2>1. Reached' = NextPlace'
    BY <1>5 DEF Reached
  <2> QED
    BY <1>1, <1>2, <1>5, <2>1 DEF TextOK, IInv, Ascending
<1> QED
  BY <1>5, <1>6, <1>7, <1>8, <1>9, <1>10, <1>11 DEF IInv, ConsoleOK

LEMMA PutNextKeeps ==
    ASSUME IInv, PutNext, UNCHANGED relayVars
    PROVE  IInv'
<1> DEFINE a == Head(todo)
           p == Before(a)
           c == p + 1
           a2 == [a EXCEPT !.cuts = <<c, After(a)>>]
           r == Tail(todo)
           t2 == <<a2>> \o r
<1>1. /\ Printing /\ ~direct /\ todo # <<>> /\ a.how = "chars" /\ TextOf(a) # <<>>
      /\ Keep(PutChar(tmp, c), <<c>>) /\ todo' = t2
      /\ UNCHANGED <<call, direct, given, parVars>>
  BY DEF PutNext
<1>2. /\ job = "none" /\ call = "print" /\ NextPlace \in Nat
      /\ tmp.text = Text(0, NextPlace)
      /\ todo \in Seq(Argument) /\ given \in Nat /\ ArgsOK(todo, given)
      /\ tmp \in Buffer /\ longest \in Nat /\ Inside(tmp, longest)
  BY <1>1, PrintingIs
<1>3. /\ a \in Argument /\ a.cuts # <<>> /\ Honest(a)
      /\ NextOf(todo, given) = p
      /\ r \in Seq(Argument) /\ ArgsOK(r, given) /\ NextOf(r, given) = After(a)
  BY <1>1, <1>2, HeadIs
<1>4. /\ p \in Nat /\ After(a) \in Nat /\ p <= After(a)
      /\ TextOf(a) \in Seq(Nat) /\ Len(TextOf(a)) = After(a) - p
  BY <1>3, ArgumentIs
<1>5. p < After(a) /\ c <= After(a) /\ c \in Nat
  <2>1. Len(TextOf(a)) # 0
    BY <1>1, <1>4, EmptySeq
  <2> QED
    BY <1>4, <2>1
<1>6. /\ a2 \in Argument /\ a2.cuts = <<c, After(a)>> /\ a2.how = "chars"
      /\ Before(a2) = c /\ After(a2) = After(a) /\ Len(a2.cuts) = 2
  <2>1. <<c, After(a)>> \in Seq(Nat)
    BY <1>4, <1>5
  <2>2. a2 \in Argument /\ a2.cuts = <<c, After(a)>> /\ a2.how = a.how
    BY <1>3, <2>1 DEF Argument
  <2> HIDE DEF a2, c
  <2> QED
    BY <1>1, <2>2 DEF Before, After
<1>7. Honest(a2) /\ a2.cuts # <<>>
  <2> HIDE DEF a2, c, p
  <2>1. a2.cuts[1] = c /\ a2.cuts[2] = After(a)
    BY <1>6
  <2> QED
    BY <1>4, <1>5, <1>6, <2>1 DEF Honest
<1> HIDE DEF a2, c, r
<1>8. /\ t2 \in Seq(Argument) /\ Len(t2) = Len(r) + 1 /\ t2[1] = a2
      /\ \A i \in 2 .. Len(t2) : t2[i] = r[i - 1]
  <2>1. <<a2>> \in Seq(Argument) /\ Len(<<a2>>) = 1 /\ <<a2>>[1] = a2 /\ Len(r) \in Nat
    BY <1>3, <1>6
  <2>2. /\ t2 \in Seq(Argument) /\ Len(t2) = 1 + Len(r)
        /\ \A i \in 1 .. 1 + Len(r) : t2[i] = IF i <= 1 THEN <<a2>>[i] ELSE r[i - 1]
    BY <1>3, <2>1, ConcatProperties
  <2> HIDE DEF t2
  <2> QED
    BY <2>1, <2>2
<1> HIDE DEF t2
<1>9. Len(r) \in Nat /\ t2 # <<>>
  BY <1>3, <1>8, EmptySeq
<1>10. ArgsOK(t2, given)
  <2>1. \A i \in 1 .. Len(t2) : t2[i].cuts # <<>> /\ Honest(t2[i])
    <3>1. TAKE i \in 1 .. Len(t2)
    <3>2. CASE i = 1
      BY <3>2, <1>7, <1>8
    <3>3. CASE i # 1
      <4>1. i \in 2 .. Len(t2) /\ i - 1 \in 1 .. Len(r)
        BY <3>3, <1>8, <1>9
      <4> QED
        BY <4>1, <1>3, <1>8 DEF ArgsOK
    <3> QED
      BY <3>2, <3>3
  <2>2. Follow(t2)
    <3> SUFFICES ASSUME NEW i \in 1 .. Len(t2) - 1 PROVE After(t2[i]) = Before(t2[i + 1])
      BY DEF Follow
    <3>1. CASE i = 1
      <4>1. r # <<>> /\ 2 \in 2 .. Len(t2)
        <5>1. Len(r) # 0
          BY <3>1, <1>8, <1>9
        <5> QED
          BY <5>1, <1>3, <1>8, <1>9, EmptySeq
      <4>2. t2[2] = r[1]
        <5>1. t2[2] = r[2 - 1]
          BY <4>1, <1>8
        <5> QED
          BY <5>1
      <4>3. Before(r[1]) = After(a)
        BY <4>1, <1>3 DEF NextOf
      <4> QED
        BY <3>1, <4>2, <4>3, <1>6, <1>8
    <3>2. CASE i # 1
      <4>1. i \in 2 .. Len(t2) /\ i + 1 \in 2 .. Len(t2) /\ i - 1 \in 1 .. Len(r) - 1
        BY <3>2, <1>8, <1>9
      <4>2. t2[i] = r[i - 1] /\ t2[i + 1] = r[(i - 1) + 1]
        <5>1. (i + 1) - 1 = (i - 1) + 1
          BY <4>1
        <5> QED
          BY <4>1, <5>1, <1>8
      <4> QED
        BY <4>1, <4>2, <1>3 DEF ArgsOK, Follow
    <3> QED
      BY <3>1, <3>2
  <2>3. After(t2[Len(t2)]) = given
    <3>1. CASE r = <<>>
      <4>1. Len(t2) = 1
        BY <3>1, <1>3, <1>8, EmptySeq
      <4> QED
        BY <3>1, <4>1, <1>3, <1>6, <1>8 DEF NextOf
    <3>2. CASE r # <<>>
      <4>1. Len(r) # 0
        BY <3>2, <1>3, EmptySeq
      <4>2. Len(t2) \in 2 .. Len(t2) /\ Len(t2) - 1 = Len(r)
        BY <4>1, <1>8, <1>9
      <4>3. t2[Len(t2)] = r[Len(r)]
        BY <4>2, <1>8
      <4> QED
        BY <3>2, <4>3, <1>3 DEF ArgsOK
    <3> QED
      BY <3>1, <3>2
  <2> QED
    BY <2>1, <2>2, <2>3 DEF ArgsOK
<1>11. NextPlace' = c
  <2>1. NextPlace' = NextOf(t2, given)
    BY <1>1 DEF NextPlace, NextOf
  <2> QED
    BY <2>1, <1>6, <1>8, <1>9 DEF NextOf
<1>12. Gets(tmp, <<c>>, longest, PutChar(tmp, c))
  BY <1>2, <1>5, PutIs
<1>13. PutChar(tmp, c).text = Text(0, NextPlace')
  <2>1. Text(p, c) = <<c>>
    <3>1. Text(p, c) \in Seq(Nat) /\ Len(Text(p, c)) = 1 /\ Text(p, c)[1] = c
      <4>1. c - p = 1 /\ p <= c /\ p \in Nat /\ c \in Nat
        BY <1>4, <1>5 DEF c
      <4>2. \A i \in 1 .. c - p : Text(p, c)[i] = p + i
        BY <4>1, TextIs
      <4>3. Text(p, c)[1] = p + 1
        BY <4>1, <4>2
      <4> QED
        BY <4>1, <4>3, TextIs DEF c
    <3>2. <<c>> \in Seq(Nat) /\ Len(<<c>>) = 1 /\ <<c>>[1] = c
      BY <1>5
    <3>3. \A i \in 1 .. Len(<<c>>) : <<c>>[i] = Text(p, c)[i]
      BY <3>1, <3>2
    <3> QED
      BY <3>1, <3>2, <3>3, SeqEqual
  <2>2. NextPlace = p
    BY <1>3 DEF NextPlace
  <2>3. 0 <= p /\ p <= c
    BY <1>4, <1>5 DEF c
  <2>4. Text(0, p) \o Text(p, c) = Text(0, c)
    BY <1>4, <1>5, <2>3, TextJoins
  <2> QED
    BY <1>2, <1>11, <1>12, <2>1, <2>2, <2>4 DEF Gets
<1>14. <<c>> \in Seq(Nat)
  BY <1>5
<1> QED
  BY <1>1, <1>8, <1>10, <1>12, <1>13, <1>14, Kept

LEMMA PrintArgKeeps ==
    ASSUME IInv, PrintArg, UNCHANGED relayVars
    PROVE  IInv'
<1> DEFINE a == Head(todo)
           p == Before(a)
           q == After(a)
           r == Tail(todo)
<1>1. /\ Printing /\ todo # <<>>
      /\ IF direct
         THEN WriteOut("call", TextOf(a)) /\ UNCHANGED <<tmp, longest>>
         ELSE Keep(PrintControl(tmp, a), TextOf(a))
      /\ todo' = r
      /\ call' = call /\ direct' = direct /\ given' = given /\ UNCHANGED parVars
  BY DEF PrintArg
<1>2. /\ ParOK /\ JobOK /\ ResultsOK /\ job = "none" /\ call = "print" /\ NextPlace \in Nat
      /\ direct => tmp.text = <<>> /\ Has(out.call, NextPlace, "call" \notin faulty)
      /\ ~direct => out.call = <<>> /\ tmp.text = Text(0, NextPlace)
      /\ todo \in Seq(Argument) /\ given \in Nat /\ ArgsOK(todo, given)
      /\ tmp \in Buffer /\ longest \in Nat /\ Inside(tmp, longest)
  BY <1>1, PrintingIs
<1>3. /\ a \in Argument /\ a.cuts # <<>> /\ Honest(a)
      /\ NextOf(todo, given) = p
      /\ r \in Seq(Argument) /\ ArgsOK(r, given) /\ NextOf(r, given) = q
  BY <1>1, <1>2, HeadIs
<1>4. /\ p \in Nat /\ q \in Nat /\ p <= q /\ a.size \in Nat
      /\ TextOf(a) = Text(p, q) /\ TextOf(a) \in Seq(Nat) /\ Len(TextOf(a)) = q - p
  BY <1>3, ArgumentIs
<1>5. NextPlace = p /\ NextPlace' = q
  BY <1>1, <1>3 DEF NextPlace, NextOf
<1> HIDE DEF p, q, r
<1>6. CASE direct
  <2>1. WriteOut("call", Text(p, q)) /\ tmp' = tmp /\ longest' = longest
    BY <1>1, <1>4, <1>6
  <2>2. OutOK
    BY DEF IInv, ConsoleOK
  <2>3. /\ out' \in [kind : {"device", "span"}, call : Seq(Nat), source : Seq(Nat)]
        /\ out'.source = out.source
        /\ trouble' \in 0 .. MaxTrouble /\ faulty' \subseteq {"call", "source"}
        /\ "source" \in faulty' <=> "source" \in faulty
        /\ Has(out'.call, q, "call" \notin faulty')
    BY <1>2, <1>4, <1>5, <1>6, <2>1, <2>2, CallGets
  <2>4. OutOK'
    BY <1>1, <2>2, <2>3 DEF OutOK
  <2>5. ParOK' /\ JobOK' /\ ResultsOK' /\ job' = "none"
    BY <1>1, <1>2, Idle
  <2>6. PrintOK'
    BY <1>1, <1>3, <2>1 DEF PrintOK, IInv, ConsoleOK
  <2>7. SourceOK' /\ RelayOK'
    BY <1>1, <1>2, <2>3, RelayStays DEF IInv, ConsoleOK
  <2>8. TodoOK'
    BY <1>1, <1>2, <1>3 DEF TodoOK
  <2>9. TmpOK'
    BY <1>2, <2>1 DEF TmpOK
  <2>10. TextOK'
    <3>1. Reached' = q
      BY <1>5, <2>5 DEF Reached
    <3> QED
      BY <1>1, <1>2, <1>6, <2>1, <2>3, <2>5, <3>1 DEF TextOK, Has
  <2> QED
    BY <2>4, <2>5, <2>6, <2>7, <2>8, <2>9, <2>10 DEF IInv, ConsoleOK
<1>7. CASE ~direct
  <2>1. Gets(tmp, TextOf(a), longest, PrintControl(tmp, a))
    <3>1. CASE a.how = "reserve"
      <4>1. Len(TextOf(a)) <= a.size
        BY <1>3, <1>4, <3>1 DEF Honest, p, q
      <4> QED
        BY <1>2, <1>4, <3>1, <4>1, ReserveIs DEF PrintControl
    <3>2. CASE a.how # "reserve"
      BY <1>2, <1>4, <3>2, WriteIs DEF PrintControl
    <3> QED
      BY <3>1, <3>2
  <2>2. PrintControl(tmp, a).text = Text(0, NextPlace')
    <3>1. 0 <= p
      BY <1>4
    <3>2. Text(0, p) \o Text(p, q) = Text(0, q)
      BY <1>4, <3>1, TextJoins
    <3> QED
      BY <1>2, <1>4, <1>5, <1>7, <2>1, <3>2 DEF Gets
  <2>3. Keep(PrintControl(tmp, a), TextOf(a))
    BY <1>1, <1>7
  <2> QED
    BY <1>1, <1>3, <1>4, <1>7, <2>1, <2>2, <2>3, Kept
<1> QED
  BY <1>6, <1>7

\* A call ends with what the stream has, and nothing is left of it.
LEMMA Ends ==
    ASSUME IInv, call = "print", call' = "none", given' = given, todo' = <<>>, tmp' = NewBuffer,
           direct' = direct, longest' = longest, UNCHANGED relayVars,
           OutOK', out'.source = out.source,
           "source" \in faulty' <=> "source" \in faulty,
           Ascending(out'.call), "call" \notin faulty' => out'.call = Text(0, given),
           ParOK', JobOK', ResultsOK', job' = "none"
    PROVE  IInv'
<1>1. PrintOK'
  BY NewBufferIs, StaticSizeAssumption DEF PrintOK, IInv, ConsoleOK
<1>2. SourceOK' /\ RelayOK'
  BY RelayStays DEF IInv, ConsoleOK
<1>3. TodoOK'
  <2>1. Len(<<>>) = 0
    BY EmptySeq
  <2> QED
    BY <2>1 DEF TodoOK, ArgsOK, Follow
<1>4. TmpOK'
  BY NewBufferIs DEF TmpOK
<1>5. TextOK'
  BY DEF TextOK
<1> QED
  BY <1>1, <1>2, <1>3, <1>4, <1>5 DEF IInv, ConsoleOK

LEMMA NextIsGiven ==
    ASSUME todo = <<>>
    PROVE  NextPlace = given
BY DEF NextPlace, NextOf

LEMMA ReturnKeeps ==
    ASSUME IInv, Return, UNCHANGED relayVars
    PROVE  IInv'
<1>1. /\ Printing /\ todo = <<>>
      /\ IF direct THEN UNCHANGED <<out, trouble, faulty>> ELSE WriteOut("call", tmp.text)
      /\ call' = "none" /\ tmp' = NewBuffer
      /\ todo' = todo /\ direct' = direct /\ longest' = longest /\ given' = given /\ UNCHANGED parVars
  BY DEF Return
<1>2. /\ ParOK /\ JobOK /\ ResultsOK /\ job = "none" /\ call = "print" /\ NextPlace \in Nat
      /\ direct => tmp.text = <<>> /\ Has(out.call, NextPlace, "call" \notin faulty)
      /\ ~direct => out.call = <<>> /\ tmp.text = Text(0, NextPlace)
      /\ todo \in Seq(Argument) /\ given \in Nat /\ ArgsOK(todo, given)
  BY <1>1, PrintingIs
<1>3. NextPlace = given
  BY <1>1, NextIsGiven
<1>4. ParOK' /\ JobOK' /\ ResultsOK' /\ job' = "none"
  BY <1>1, <1>2, Idle
<1>5. OutOK
  BY DEF IInv, ConsoleOK
<1>6. CASE direct
  <2>1. out' = out /\ trouble' = trouble /\ faulty' = faulty
    BY <1>1, <1>6
  <2>2. OutOK'
    BY <1>1, <1>5, <2>1 DEF OutOK
  <2> QED
    BY <1>1, <1>2, <1>3, <1>4, <1>6, <2>1, <2>2, Ends DEF Has, Ascending
<1>7. CASE ~direct
  <2>1. WriteOut("call", Text(0, given)) /\ 0 <= given /\ 0 \in Nat
    BY <1>1, <1>2, <1>3, <1>7
  <2>2. Has(out.call, 0, "call" \notin faulty)
    BY <1>2, <1>7, HasNothing
  <2>3. /\ out' \in [kind : {"device", "span"}, call : Seq(Nat), source : Seq(Nat)]
        /\ out'.source = out.source
        /\ trouble' \in 0 .. MaxTrouble /\ faulty' \subseteq {"call", "source"}
        /\ "source" \in faulty' <=> "source" \in faulty
        /\ Has(out'.call, given, "call" \notin faulty')
    BY <1>2, <1>5, <2>1, <2>2, CallGets
  <2>4. OutOK'
    BY <1>1, <1>5, <2>3 DEF OutOK
  <2> QED
    BY <1>1, <1>2, <1>4, <2>3, <2>4, Ends DEF Has
<1> QED
  BY <1>6, <1>7

\* The call ends with an exception: what the stream has is a part of the text.
LEMMA Fails ==
    ASSUME IInv, call = "print", Trouble("call"), out' = out, call' = "none", given' = given,
           todo' = <<>>, tmp' = NewBuffer, direct' = direct, longest' = longest, UNCHANGED relayVars,
           ParOK', JobOK', ResultsOK', job' = "none"
    PROVE  IInv'
<1>1. trouble' \in 0 .. MaxTrouble /\ faulty' = faulty \cup {"call"} /\ faulty' \subseteq {"call", "source"}
  BY Throws DEF IInv, ConsoleOK
<1>2. OutOK'
  BY <1>1 DEF OutOK, IInv, ConsoleOK
<1>3. "source" \in faulty' <=> "source" \in faulty
  BY <1>1
<1>4. Ascending(out'.call) /\ "call" \in faulty'
  BY <1>1 DEF IInv, TextOK, Ascending
<1> QED
  BY <1>2, <1>3, <1>4, Ends

LEMMA PrintThrowsKeeps ==
    ASSUME IInv, PrintThrows, UNCHANGED relayVars
    PROVE  IInv'
<1>1. /\ Printing /\ WriteThrows("call") /\ todo' = <<>> /\ tmp' = NewBuffer
      /\ direct' = direct /\ longest' = longest /\ UNCHANGED parVars
  BY DEF PrintThrows
<1>2. Trouble("call") /\ call' = "none" /\ out' = out /\ given' = given
  BY <1>1 DEF WriteThrows
<1>3. ParOK /\ JobOK /\ ResultsOK /\ job = "none" /\ call = "print"
  BY <1>1, PrintingIs
<1>4. ParOK' /\ JobOK' /\ ResultsOK' /\ job' = "none"
  BY <1>1, <1>3, Idle
<1> QED
  BY <1>1, <1>2, <1>3, <1>4, Fails

(***************************************************************************)
(* A print in parallel                                                     *)
(***************************************************************************)

LEMMA SharesStay ==
    ASSUME cuts' = cuts, threads' = threads
    PROVE  /\ elements' = elements
           /\ \A w : First(w)' = First(w) /\ Share(w)' = Share(w) /\ Room(w)' = Room(w)
BY DEF elements, First, Share, Room, range, remainder

\* What a step of the threads, or between them, leaves as it is.
LEMMA Outside ==
    ASSUME IInv, UNCHANGED <<outVars, printVars, relayVars>>
    PROVE  OutOK' /\ PrintOK' /\ SourceOK' /\ TodoOK' /\ TmpOK' /\ RelayOK' /\ NextPlace' = NextPlace
<1>1. /\ out' = out /\ call' = call /\ given' = given /\ trouble' = trouble /\ faulty' = faulty
      /\ todo' = todo /\ direct' = direct /\ tmp' = tmp /\ longest' = longest
      /\ curr' = curr /\ end' = end /\ stage' = stage /\ moved' = moved /\ ended' = ended
      /\ left' = left /\ taken' = taken /\ broken' = broken
  BY DEF outVars, printVars, relayVars
<1>2. OutOK' /\ PrintOK' /\ SourceOK'
  BY <1>1 DEF IInv, ConsoleOK, OutOK, PrintOK, SourceOK
<1>3. TodoOK' /\ TmpOK' /\ NextPlace' = NextPlace
  BY <1>1 DEF IInv, TodoOK, TmpOK, NextPlace
<1>4. RelayOK'
  BY <1>1 DEF IInv, RelayOK
<1> QED
  BY <1>2, <1>3, <1>4

\* The same for a step that throws.
LEMMA OutsideThrows ==
    ASSUME IInv, call = "print", Trouble("call"), UNCHANGED <<out, call, given, printVars, relayVars>>
    PROVE  /\ OutOK' /\ PrintOK' /\ SourceOK' /\ TodoOK' /\ TmpOK' /\ RelayOK' /\ NextPlace' = NextPlace
           /\ "call" \in faulty'
<1>1. /\ out' = out /\ call' = call /\ given' = given
      /\ todo' = todo /\ direct' = direct /\ tmp' = tmp /\ longest' = longest
      /\ UNCHANGED relayVars
  BY DEF printVars
<1>2. trouble' \in 0 .. MaxTrouble /\ faulty' = faulty \cup {"call"} /\ faulty' \subseteq {"call", "source"}
  BY Throws DEF IInv, ConsoleOK
<1>3. OutOK' /\ PrintOK'
  BY <1>1, <1>2 DEF IInv, ConsoleOK, OutOK, PrintOK
<1>4. TodoOK' /\ TmpOK' /\ NextPlace' = NextPlace
  BY <1>1 DEF IInv, TodoOK, TmpOK, NextPlace
<1>5. SourceOK' /\ RelayOK'
  BY <1>1, <1>2, RelayStays DEF IInv, ConsoleOK
<1> QED
  BY <1>2, <1>3, <1>4, <1>5

\* The stream is given the text from the place that it has come to.
LEMMA Sent ==
    ASSUME IInv, call = "print", direct, job # "unwind", job' # "unwind",
           NEW q \in Nat, Reached \in Nat, Reached <= q, WriteOut("call", Text(Reached, q)), Reached' = q,
           UNCHANGED <<tmp, longest, call, todo, direct, given>>, UNCHANGED relayVars,
           ParOK', JobOK', ResultsOK'
    PROVE  IInv'
<1>1. OutOK /\ Has(out.call, Reached, "call" \notin faulty) /\ tmp.text = <<>>
  BY DEF IInv, ConsoleOK, TextOK
<1>2. /\ out' \in [kind : {"device", "span"}, call : Seq(Nat), source : Seq(Nat)]
      /\ out'.source = out.source
      /\ trouble' \in 0 .. MaxTrouble /\ faulty' \subseteq {"call", "source"}
      /\ "source" \in faulty' <=> "source" \in faulty
      /\ Has(out'.call, q, "call" \notin faulty')
  BY <1>1, CallGets
<1>3. OutOK'
  BY <1>1, <1>2 DEF OutOK
<1>4. PrintOK' /\ TodoOK' /\ TmpOK'
  BY DEF IInv, ConsoleOK, PrintOK, TodoOK, TmpOK
<1>5. SourceOK' /\ RelayOK'
  BY <1>2, RelayStays DEF IInv, ConsoleOK
<1>6. TextOK'
  BY <1>1, <1>2 DEF TextOK, Has
<1> QED
  BY <1>3, <1>4, <1>5, <1>6 DEF IInv, ConsoleOK

\* The temporary buffer is given it.
LEMMA Added ==
    ASSUME IInv, call = "print", ~direct, job' # "unwind", NEW b, NEW t \in Seq(Nat), Keep(b, t),
           Gets(tmp, t, longest, b), b.text = Text(0, Reached'),
           UNCHANGED <<call, todo, direct, given>>, UNCHANGED relayVars,
           ParOK', JobOK', ResultsOK'
    PROVE  IInv'
<1>1. /\ tmp' = b /\ longest' = Larger(longest, Len(t))
      /\ out' = out /\ trouble' = trouble /\ faulty' = faulty
      /\ call' = call /\ direct' = direct /\ given' = given /\ todo' = todo
  BY DEF Keep
<1>2. Larger(longest, Len(t)) \in Nat
  BY LargerIs DEF IInv, ConsoleOK, PrintOK
<1>3. b \in Buffer /\ Inside(b, longest')
  BY <1>1 DEF Gets
<1>4. OutOK'
  BY <1>1 DEF OutOK, IInv, ConsoleOK
<1>5. PrintOK'
  BY <1>1, <1>2, <1>3 DEF PrintOK, IInv, ConsoleOK, Inside
<1>6. SourceOK' /\ RelayOK'
  BY <1>1, RelayStays DEF IInv, ConsoleOK
<1>7. TodoOK'
  BY <1>1 DEF TodoOK, IInv
<1>8. TmpOK'
  BY <1>1, <1>3 DEF TmpOK
<1>9. TextOK'
  BY <1>1 DEF TextOK, IInv, Ascending
<1> QED
  BY <1>4, <1>5, <1>6, <1>7, <1>8, <1>9 DEF IInv, ConsoleOK

\* A parallel print ends when no thread runs.
LEMMA ParEnds ==
    ASSUME ParOK, EndParallel, running = {}
    PROVE  ParOK' /\ JobOK' /\ ResultsOK' /\ job' = "none" /\ Reached' = NextPlace'
<1>1. /\ job' = "none" /\ cuts' = <<0>> /\ own' = 0 /\ results' = <<>> /\ written' = 0
      /\ threads' = threads /\ running' = {}
  BY DEF EndParallel
<1>2. <<0>> \in Seq(Nat) /\ Len(<<0>>) = 1 /\ <<0>> # <<>>
  OBVIOUS
<1>3. threads \in Nat \ {0}
  BY ParallelAssumption DEF ParOK
<1>4. elements' = 0
  BY <1>1, <1>2 DEF elements
<1>5. <<>> \in Seq(Buffer) /\ Len(<<>>) = 0 /\ DOMAIN <<>> = {}
  BY EmptySeq
<1>6. ParOK'
  BY <1>1, <1>2, <1>3, <1>4, <1>5 DEF ParOK
<1>7. First(1)' \in Nat
  <2>1. 0 \div threads \in Nat
    BY <1>3, Division
  <2> QED
    BY <1>1, <1>4, <2>1 DEF First, range
<1>8. JobOK'
  BY <1>1, <1>5, <1>7 DEF JobOK
<1>9. ResultsOK'
  BY <1>1, <1>5 DEF ResultsOK
<1> QED
  BY <1>1, <1>6, <1>8, <1>9 DEF Reached

LEMMA BeginParallelKeeps ==
    ASSUME IInv, BeginParallel, UNCHANGED relayVars
    PROVE  IInv'
<1> DEFINE a == Head(todo)
           c == a.cuts
           r == Tail(todo)
<1>1. /\ Printing /\ todo # <<>> /\ a.how = "parallel" /\ todo' = r
      /\ cuts' = c /\ own' = 0 /\ job' = IF threads < 2 THEN "alone" ELSE "spawn"
      /\ threads' = threads /\ results' = results /\ running' = running /\ written' = written
      /\ out' = out /\ call' = call /\ given' = given /\ trouble' = trouble /\ faulty' = faulty
      /\ direct' = direct /\ tmp' = tmp /\ longest' = longest
  BY DEF BeginParallel, StartParallel, outVars
<1>2. /\ ParOK /\ JobOK /\ ResultsOK /\ job = "none" /\ call = "print" /\ NextPlace \in Nat
      /\ direct => tmp.text = <<>> /\ Has(out.call, NextPlace, "call" \notin faulty)
      /\ ~direct => out.call = <<>> /\ tmp.text = Text(0, NextPlace)
      /\ todo \in Seq(Argument) /\ given \in Nat /\ ArgsOK(todo, given)
  BY <1>1, PrintingIs
<1>3. /\ a \in Argument /\ c # <<>> /\ Honest(a)
      /\ NextOf(todo, given) = Before(a)
      /\ r \in Seq(Argument) /\ ArgsOK(r, given) /\ NextOf(r, given) = After(a)
  BY <1>1, <1>2, HeadIs
<1>4. c \in Seq(Nat) /\ Len(c) \in Nat \ {0} /\ CutsOK(c) /\ Before(a) = c[1] /\ After(a) = c[Len(c)]
  BY <1>1, <1>3, ArgumentIs DEF Before, After
<1>5. NextPlace = c[1] /\ NextPlace' = c[Len(c)]
  BY <1>1, <1>3, <1>4 DEF NextPlace, NextOf
<1> HIDE DEF c, r
<1>6. threads \in Nat \ {0}
  BY <1>2, ParallelAssumption DEF ParOK
<1>7. elements' \in Nat /\ First(1)' \in Nat
  <2>1. elements' = Len(c) - 1 /\ Len(c) - 1 \in Nat
    BY <1>1, <1>4 DEF elements
  <2>2. (Len(c) - 1) \div threads \in Nat
    BY <2>1, <1>6, Division
  <2> QED
    BY <1>1, <2>1, <2>2 DEF First, range
<1>8. /\ results' = <<>> /\ Len(results') = 0 /\ running' = {} /\ written' = 0 /\ DOMAIN results' = {}
      /\ results' \in Seq(Buffer)
  BY <1>1, <1>2, EmptySeq DEF JobOK
<1>9. ParOK'
  BY <1>1, <1>2, <1>3, <1>4, <1>6, <1>7, <1>8 DEF ParOK
<1>10. JobOK'
  BY <1>1, <1>4, <1>5, <1>6, <1>7, <1>8 DEF JobOK
<1>11. ResultsOK'
  BY <1>8 DEF ResultsOK
<1>12. OutOK' /\ PrintOK' /\ TmpOK'
  BY <1>1, <1>3 DEF IInv, ConsoleOK, OutOK, PrintOK, TmpOK
<1>13. SourceOK' /\ RelayOK'
  BY <1>1, <1>2, RelayStays DEF IInv, ConsoleOK
<1>14. TodoOK'
  BY <1>1, <1>2, <1>3 DEF TodoOK
<1>15. TextOK'
  <2>1. Reached' = NextPlace /\ job' # "unwind"
    BY <1>1, <1>5 DEF Reached
  <2> QED
    BY <1>1, <1>2, <2>1 DEF TextOK, IInv
<1> QED
  BY <1>9, <1>10, <1>11, <1>12, <1>13, <1>14, <1>15 DEF IInv, ConsoleOK

LEMMA SpawnKeeps ==
    ASSUME IInv, Plainly(Spawn), UNCHANGED relayVars
    PROVE  IInv'
<1> DEFINE w == Len(results) + 1
           s == Span(Room(w))
<1>1. /\ job = "spawn" /\ results' = Append(results, s) /\ running' = running \cup {w}
      /\ job' = IF w + 1 = threads THEN "own" ELSE "spawn"
      /\ threads' = threads /\ cuts' = cuts /\ own' = own /\ written' = written
      /\ UNCHANGED <<outVars, printVars>>
  BY DEF Plainly, Spawn
<1>2. /\ ParOK /\ JobOK /\ ResultsOK /\ TextOK
      /\ OutOK' /\ PrintOK' /\ SourceOK' /\ TodoOK' /\ TmpOK' /\ RelayOK' /\ NextPlace' = NextPlace
  BY <1>1, Outside DEF IInv, ConsoleOK
<1>3. /\ threads \in Nat \ {0} /\ results \in Seq(Buffer) /\ Len(results) \in Nat
      /\ w \in Nat \ {0} /\ w < threads /\ own = 0 /\ call = "print" /\ CountsOK
      /\ written = 0 /\ CutsOK(cuts)
  BY <1>1, <1>2, ParallelAssumption, CountsAre DEF ParOK, JobOK
<1>4. s \in Buffer /\ ~s.wild
  <2>1. w \in 0 .. threads - 1 /\ w # 0
    BY <1>3
  <2>2. Room(w) \in Nat
    BY <2>1, <1>3, ShareFits
  <2>3. <<>> \in Seq(Nat)
    BY EmptySeq
  <2> QED
    BY <2>2, <2>3 DEF Span, Buffer
<1>5. \A i : Span(Room(i))' = Span(Room(i))
  BY <1>1, SharesStay DEF Span
<1> HIDE DEF s
<1>6. /\ results' \in Seq(Buffer) /\ Len(results') = w
      /\ \A i \in 1 .. Len(results) : results'[i] = results[i]
      /\ results'[w] = s
  BY <1>1, <1>3, <1>4, AppendProperties
<1>7. DOMAIN results = 1 .. Len(results) /\ DOMAIN results' = 1 .. w
  BY <1>3, <1>6
<1>8. elements' = elements /\ \A i : First(i)' = First(i) /\ Share(i)' = Share(i) /\ Room(i)' = Room(i)
  BY <1>1, SharesStay
<1>9. call' = call /\ direct' = direct /\ tmp' = tmp /\ out' = out /\ faulty' = faulty
  BY <1>1 DEF outVars, printVars
<1>10. ParOK'
  BY <1>1, <1>2, <1>3, <1>6, <1>8, <1>9 DEF ParOK
<1>11. JobOK'
  BY <1>1, <1>2, <1>3, <1>6, <1>7, <1>8 DEF JobOK
<1>12. ResultsOK'
  <2> SUFFICES ASSUME NEW i \in 1 .. w
               PROVE  /\ ~results'[i].wild
                      /\ IF i \in running' THEN results'[i] = Span(Room(i))' ELSE results'[i].text = Share(i)'
    BY <1>7 DEF ResultsOK
  <2>1. CASE i = w
    <3>1. i \in running' /\ results'[i] = s /\ Span(Room(i))' = s
      BY <2>1, <1>1, <1>5, <1>6 DEF s
    <3> QED
      BY <3>1, <1>4
  <2>2. CASE i # w
    <3>1. i \in 1 .. Len(results) /\ i \in DOMAIN results
      BY <2>2, <1>3, <1>7
    <3>2. i \in running' <=> i \in running
      BY <2>2, <1>1
    <3> QED
      BY <3>1, <3>2, <1>2, <1>5, <1>6, <1>8 DEF ResultsOK
  <2> QED
    BY <2>1, <2>2
<1>13. TextOK'
  <2>1. Reached' = Reached /\ job' # "unwind"
    BY <1>1, <1>3 DEF Reached
  <2> QED
    BY <1>1, <1>2, <1>3, <1>9, <2>1 DEF TextOK
<1> QED
  BY <1>2, <1>10, <1>11, <1>12, <1>13 DEF IInv, ConsoleOK

\* An exception leaves everything to the unwinding.
LEMMA Unwinding ==
    ASSUME IInv, job \in {"spawn", "own"}, Trouble("call"), Unwinds,
           UNCHANGED <<out, call, given, printVars, relayVars>>
    PROVE  IInv'
<1>1. /\ job' = "unwind" /\ threads' = threads /\ cuts' = cuts /\ own' = own
      /\ results' = results /\ running' = running /\ written' = written
  BY DEF Unwinds
<1>2. ParOK /\ JobOK /\ ResultsOK /\ TextOK /\ call = "print"
  BY DEF IInv, ConsoleOK, ParOK
<1>3. /\ OutOK' /\ PrintOK' /\ SourceOK' /\ TodoOK' /\ TmpOK' /\ RelayOK' /\ NextPlace' = NextPlace
      /\ "call" \in faulty'
  BY <1>2, OutsideThrows
<1>4. elements' = elements /\ \A i : First(i)' = First(i) /\ Share(i)' = Share(i) /\ Room(i)' = Room(i)
  BY <1>1, SharesStay
<1>5. call' = call
  OBVIOUS
<1>6. ParOK'
  BY <1>1, <1>2, <1>4, <1>5 DEF ParOK
<1>7. JobOK'
  BY <1>1, <1>2, <1>3, <1>4 DEF JobOK
<1>8. ResultsOK'
  <2>1. \A i : Span(Room(i))' = Span(Room(i))
    BY <1>4 DEF Span
  <2> QED
    BY <1>1, <1>2, <1>4, <2>1 DEF ResultsOK
<1>9. TextOK'
  BY <1>1, <1>2, <1>3 DEF TextOK, printVars, Ascending
<1> QED
  BY <1>3, <1>6, <1>7, <1>8, <1>9 DEF IInv, ConsoleOK

LEMMA SpawnThrowsKeeps ==
    ASSUME IInv, SpawnThrows, UNCHANGED relayVars
    PROVE  IInv'
BY Unwinding DEF SpawnThrows

LEMMA OwnThrowsKeeps ==
    ASSUME IInv, OwnThrows, UNCHANGED relayVars
    PROVE  IInv'
BY Unwinding DEF OwnThrows

LEMMA JoinKeeps ==
    ASSUME IInv, Plainly(Join), UNCHANGED relayVars
    PROVE  IInv'
<1>1. /\ job = "join" /\ running = {} /\ job' = "collect"
      /\ threads' = threads /\ cuts' = cuts /\ own' = own
      /\ results' = results /\ running' = running /\ written' = written
      /\ UNCHANGED <<outVars, printVars>>
  BY DEF Plainly, Join
<1>2. /\ ParOK /\ JobOK /\ ResultsOK /\ TextOK
      /\ OutOK' /\ PrintOK' /\ SourceOK' /\ TodoOK' /\ TmpOK' /\ RelayOK' /\ NextPlace' = NextPlace
  BY <1>1, Outside DEF IInv, ConsoleOK
<1>3. elements' = elements /\ \A i : First(i)' = First(i) /\ Share(i)' = Share(i) /\ Room(i)' = Room(i)
  BY <1>1, SharesStay
<1>4. call' = call /\ direct' = direct /\ tmp' = tmp /\ out' = out /\ faulty' = faulty
  BY <1>1 DEF outVars, printVars
<1>5. written = 0 /\ Len(results) \in Nat /\ Len(results) + 1 = threads /\ threads > 1 /\ threads \in Nat
  BY <1>1, <1>2, ParallelAssumption DEF ParOK, JobOK
<1>6. ParOK'
  BY <1>1, <1>2, <1>3, <1>4 DEF ParOK
<1>7. JobOK'
  BY <1>1, <1>2, <1>3, <1>5 DEF JobOK
<1>8. ResultsOK'
  <2>1. \A i : Span(Room(i))' = Span(Room(i))
    BY <1>3 DEF Span
  <2> QED
    BY <1>1, <1>2, <1>3, <2>1 DEF ResultsOK
<1>9. TextOK'
  <2>1. Reached = cuts[range + 1]
    BY <1>1 DEF Reached, First
  <2>2. range' = range
    BY <1>1 DEF range, elements
  <2>3. Reached' = cuts[range + 1]
    BY <1>1, <1>5, <2>2 DEF Reached, First
  <2> QED
    BY <1>1, <1>2, <1>4, <2>1, <2>3 DEF TextOK, ParOK
<1> QED
  BY <1>2, <1>6, <1>7, <1>8, <1>9 DEF IInv, ConsoleOK

LEMMA PrintOutKeeps ==
    ASSUME IInv, NEW w \in running, Plainly(PrintOut(w)), UNCHANGED relayVars
    PROVE  IInv'
<1>1. /\ w \in running /\ w \in DOMAIN results
      /\ results' = [results EXCEPT ![w] = CopyTo(@, Share(w))]
      /\ running' = running \ {w} /\ threads' = threads /\ job' = job /\ cuts' = cuts /\ own' = own
      /\ written' = written /\ UNCHANGED <<outVars, printVars>>
  BY DEF Plainly, PrintOut
<1>2. /\ ParOK /\ JobOK /\ ResultsOK /\ TextOK
      /\ OutOK' /\ PrintOK' /\ SourceOK' /\ TodoOK' /\ TmpOK' /\ RelayOK' /\ NextPlace' = NextPlace
  BY <1>1, Outside DEF IInv, ConsoleOK
<1>3. elements' = elements /\ \A i : First(i)' = First(i) /\ Share(i)' = Share(i) /\ Room(i)' = Room(i)
  BY <1>1, SharesStay
<1>4. call' = call /\ direct' = direct /\ tmp' = tmp /\ out' = out /\ faulty' = faulty
  BY <1>1 DEF outVars, printVars
<1>5. /\ results \in Seq(Buffer) /\ Len(results) \in Nat /\ DOMAIN results = 1 .. Len(results)
      /\ threads \in Nat \ {0} /\ Len(results) < threads /\ CountsOK
      /\ w \in 1 .. Len(results) /\ w \in 0 .. threads - 1 /\ w # 0
  BY <1>1, <1>2, ParallelAssumption, CountsAre DEF ParOK
<1>6. job # "none" /\ CutsOK(cuts)
  BY <1>1, <1>2 DEF JobOK
<1>7. results[w] = Span(Room(w)) /\ results[w] \in Buffer
  BY <1>1, <1>2, <1>5 DEF ResultsOK
<1>8. Share(w) \in Seq(Nat) /\ Room(w) \in Nat /\ Len(Share(w)) <= Room(w)
  BY <1>5, <1>6, ShareFits
<1> DEFINE c == CopyTo(results[w], Share(w))
<1>9. c \in Buffer /\ ~c.wild /\ c.text = Share(w)
  <2>1. results[w].text = <<>> /\ results[w].cap = Room(w) /\ ~results[w].wild /\ Len(<<>>) = 0
    BY <1>7, EmptySeq DEF Span
  <2>2. /\ c \in Buffer /\ c.text = results[w].text \o Share(w)
        /\ c.wild => results[w].wild \/ Len(results[w].text) + Len(Share(w)) > results[w].cap
    BY <1>7, <1>8, CopyIs
  <2>3. <<>> \o Share(w) = Share(w)
    BY <1>8, ConcatEmptySeq
  <2> HIDE DEF c
  <2> QED
    BY <1>8, <2>1, <2>2, <2>3
<1> HIDE DEF c
<1>10. /\ results' \in Seq(Buffer) /\ Len(results') = Len(results) /\ DOMAIN results' = DOMAIN results
       /\ results'[w] = c
       /\ \A i \in DOMAIN results : i # w => results'[i] = results[i]
  <2>1. results' = [results EXCEPT ![w] = c]
    BY <1>1 DEF c
  <2> QED
    BY <1>5, <1>9, <2>1, ExceptSeq
<1>11. ParOK'
  BY <1>1, <1>2, <1>3, <1>4, <1>10 DEF ParOK
<1>12. JobOK'
  BY <1>1, <1>2, <1>3, <1>10 DEF JobOK
<1>13. ResultsOK'
  <2> SUFFICES ASSUME NEW i \in DOMAIN results
               PROVE  /\ ~results'[i].wild
                      /\ IF i \in running' THEN results'[i] = Span(Room(i))' ELSE results'[i].text = Share(i)'
    BY <1>10 DEF ResultsOK
  <2>1. CASE i = w
    <3>1. i \notin running' /\ results'[i] = c
      BY <2>1, <1>1, <1>10
    <3> QED
      BY <2>1, <3>1, <1>3, <1>9
  <2>2. CASE i # w
    <3>1. results'[i] = results[i] /\ (i \in running' <=> i \in running)
      BY <2>2, <1>1, <1>10
    <3>2. Span(Room(i))' = Span(Room(i))
      BY <1>3 DEF Span
    <3> QED
      BY <3>1, <3>2, <1>2, <1>3 DEF ResultsOK
  <2> QED
    BY <2>1, <2>2
<1>14. TextOK'
  <2>1. Reached' = Reached
    BY <1>1, <1>2, <1>3, <1>4 DEF Reached
  <2> QED
    BY <1>1, <1>2, <1>4, <1>6, <2>1 DEF TextOK, ParOK
<1> QED
  BY <1>2, <1>11, <1>12, <1>13, <1>14 DEF IInv, ConsoleOK

\* The places of the caller's own elements.
LEMMA OwnPlaces ==
    ASSUME ParOK, JobOK, job \in {"own", "alone"}, NextPlace \in Nat
    PROVE  /\ CountsOK /\ CutsOK(cuts) /\ First(0) = 0 /\ First(1) \in 0 .. elements
           /\ Len(cuts) = elements + 1 /\ elements \in Nat
           /\ \A i \in 1 .. Len(cuts) : cuts[i] \in Nat
           /\ Share(0) = Text(cuts[1], cuts[First(1) + 1]) /\ cuts[1] <= cuts[First(1) + 1]
           /\ job = "alone" => First(1) = elements /\ cuts[First(1) + 1] = NextPlace
<1>1. CountsOK /\ CutsOK(cuts) /\ threads \in Nat \ {0}
  BY CountsAre DEF JobOK, CountsOK
<1>2. /\ elements \in Nat /\ Len(cuts) = elements + 1 /\ First(0) = 0
      /\ First(1) \in 0 .. elements
  BY <1>1, Counts, Shares
<1>3. \A i \in 1 .. Len(cuts) : cuts[i] \in Nat
  BY <1>1 DEF CountsOK
<1>4. Share(0) = Text(cuts[1], cuts[First(1) + 1])
  <2>1. 0 + 1 = 1
    OBVIOUS
  <2>2. Share(0) = Text(cuts[First(0) + 1], cuts[First(0 + 1) + 1])
    BY DEF Share
  <2> QED
    BY <1>2, <2>1, <2>2
<1>5. cuts[1] <= cuts[First(1) + 1]
  <2>1. First(1) + 1 \in 1 .. Len(cuts) /\ 1 \in 1 .. Len(cuts) /\ 1 <= First(1) + 1
    BY <1>2
  <2> QED
    BY <1>1, <2>1 DEF CutsOK
<1>6. job = "alone" => First(1) = elements /\ cuts[First(1) + 1] = NextPlace
  <2> SUFFICES ASSUME job = "alone" PROVE First(1) = elements /\ cuts[First(1) + 1] = NextPlace
    OBVIOUS
  <2>1. threads = 1 /\ cuts[Len(cuts)] = NextPlace
    BY DEF JobOK
  <2>2. First(1) = elements
    BY <1>1, <2>1, Shares
  <2> QED
    BY <1>2, <2>1, <2>2
<1> QED
  BY <1>1, <1>2, <1>3, <1>4, <1>5, <1>6

LEMMA OwnElementKeeps ==
    ASSUME IInv, OwnElement, UNCHANGED relayVars
    PROVE  IInv'
<1> DEFINE p == cuts[own + 1]
           q == cuts[own + 2]
           t == Text(p, q)
           b == PrintReserve(tmp, CharsPerElement, t)
<1>1. /\ job \in {"own", "alone"} /\ ~direct /\ own < First(1) /\ Keep(b, t)
      /\ own' = own + 1 /\ threads' = threads /\ job' = job /\ cuts' = cuts
      /\ results' = results /\ running' = running /\ written' = written
      /\ UNCHANGED <<call, todo, direct, given>>
  BY DEF OwnElement
<1>2. /\ ParOK /\ JobOK /\ ResultsOK /\ call = "print"
      /\ tmp \in Buffer /\ longest \in Nat /\ Inside(tmp, longest)
  BY <1>1 DEF IInv, ConsoleOK, ParOK, PrintOK, TmpOK
<1>3. NextPlace \in Nat
  BY NextIs DEF IInv, ConsoleOK, PrintOK, OutOK, TodoOK, NextPlace
<1>4. /\ CutsOK(cuts) /\ First(1) \in 0 .. elements /\ Len(cuts) = elements + 1 /\ elements \in Nat
      /\ \A i \in 1 .. Len(cuts) : cuts[i] \in Nat
  BY <1>1, <1>2, <1>3, OwnPlaces
<1>5. own \in Nat /\ own + 1 \in 1 .. Len(cuts) /\ own + 2 \in 1 .. Len(cuts) /\ own + 1 <= elements
  BY <1>1, <1>2, <1>4 DEF ParOK
<1>6. p \in Nat /\ q \in Nat /\ p <= q /\ q - p <= CharsPerElement
  <2>1. own + 1 <= own + 2 /\ (own + 2) - (own + 1) = 1 /\ 1 * CharsPerElement = CharsPerElement
    BY <1>5, ParallelAssumption
  <2>2. p <= q /\ q - p <= ((own + 2) - (own + 1)) * CharsPerElement
    BY <1>4, <1>5, <2>1 DEF CutsOK
  <2> QED
    BY <1>4, <1>5, <2>1, <2>2
<1> HIDE DEF p, q
<1>7. t \in Seq(Nat) /\ Len(t) = q - p /\ Len(t) <= CharsPerElement
  BY <1>6, TextIs
<1> HIDE DEF t
<1>8. Gets(tmp, t, longest, b)
  BY <1>2, <1>7, ParallelAssumption, ReserveIs
<1> HIDE DEF b
<1>9. elements' = elements /\ \A i : First(i)' = First(i) /\ Share(i)' = Share(i) /\ Room(i)' = Room(i)
  BY <1>1, SharesStay
<1>10. ParOK'
  BY <1>1, <1>2, <1>4, <1>5, <1>9 DEF ParOK
<1>11. NextPlace' = NextPlace
  BY <1>1 DEF NextPlace
<1>12. JobOK'
  <2>1. own + 1 <= First(1)
    BY <1>1, <1>4, <1>5
  <2> QED
    BY <1>1, <1>2, <1>9, <1>11, <2>1 DEF JobOK
<1>13. ResultsOK'
  <2>1. \A i : Span(Room(i))' = Span(Room(i))
    BY <1>9 DEF Span
  <2> QED
    BY <1>1, <1>2, <1>9, <2>1 DEF ResultsOK
<1>14. b.text = Text(0, Reached')
  <2>1. tmp.text = Text(0, p)
    BY <1>1, <1>2 DEF IInv, TextOK, Reached, p
  <2>2. Reached' = q
    <3>1. (own + 1) + 1 = own + 2
      BY <1>5
    <3>2. Reached' = cuts[(own + 1) + 1]
      BY <1>1 DEF Reached
    <3> QED
      BY <3>1, <3>2 DEF q
  <2>3. 0 \in Nat /\ 0 <= p
    BY <1>6
  <2>4. Text(0, p) \o Text(p, q) = Text(0, q)
    BY <1>6, <2>3, TextJoins
  <2> QED
    BY <1>8, <2>1, <2>2, <2>4 DEF Gets, t
<1>15. Keep(b, t)
  BY <1>1 DEF b
<1>16. job' # "unwind" /\ ~direct
  BY <1>1
<1>17. UNCHANGED <<call, todo, direct, given>>
  BY <1>1
<1> QED
  BY <1>2, <1>7, <1>8, <1>10, <1>12, <1>13, <1>14, <1>15, <1>16, <1>17, Added

LEMMA OwnKeeps ==
    ASSUME IInv, Own, UNCHANGED relayVars
    PROVE  IInv'
<1> DEFINE p == cuts[1]
           q == cuts[First(1) + 1]
<1>1. /\ job \in {"own", "alone"}
      /\ IF direct THEN WriteOut("call", Share(0))
         ELSE own = First(1) /\ UNCHANGED <<out, trouble, faulty>>
      /\ IF job = "alone" THEN EndParallel
         ELSE job' = "join" /\ UNCHANGED <<threads, cuts, own, results, running, written>>
      /\ tmp' = tmp /\ longest' = longest /\ call' = call /\ todo' = todo /\ direct' = direct
      /\ given' = given
  BY DEF Own
<1>2. /\ ParOK /\ JobOK /\ ResultsOK /\ call = "print" /\ TextOK
  BY <1>1 DEF IInv, ConsoleOK, ParOK
<1>3. NextPlace \in Nat
  BY NextIs DEF IInv, ConsoleOK, PrintOK, OutOK, TodoOK, NextPlace
<1>4. /\ First(1) \in 0 .. elements /\ Len(cuts) = elements + 1 /\ elements \in Nat
      /\ \A i \in 1 .. Len(cuts) : cuts[i] \in Nat
      /\ Share(0) = Text(p, q) /\ p <= q
      /\ job = "alone" => First(1) = elements /\ q = NextPlace
  BY <1>1, <1>2, <1>3, OwnPlaces
<1>5. p \in Nat /\ q \in Nat
  <2>1. 1 \in 1 .. Len(cuts) /\ First(1) + 1 \in 1 .. Len(cuts)
    BY <1>4
  <2> QED
    BY <1>4, <2>1
<1>6. NextPlace' = NextPlace
  BY <1>1 DEF NextPlace
<1>7. ParOK' /\ JobOK' /\ ResultsOK' /\ job' # "unwind" /\ Reached' = q
  <2>1. CASE job = "alone"
    <3>1. EndParallel /\ running = {}
      BY <1>1, <1>2, <2>1 DEF JobOK
    <3>2. ParOK' /\ JobOK' /\ ResultsOK' /\ job' = "none" /\ Reached' = NextPlace'
      BY <1>2, <3>1, ParEnds
    <3> QED
      BY <1>4, <1>6, <2>1, <3>2
  <2>2. CASE job = "own"
    <3>1. /\ job' = "join" /\ threads' = threads /\ cuts' = cuts /\ own' = own
          /\ results' = results /\ running' = running /\ written' = written
      BY <1>1, <2>2
    <3>2. elements' = elements /\ \A i : First(i)' = First(i) /\ Share(i)' = Share(i) /\ Room(i)' = Room(i)
      BY <3>1, SharesStay
    <3>3. ParOK'
      BY <1>1, <1>2, <3>1, <3>2 DEF ParOK
    <3>4. JobOK'
      BY <1>2, <1>6, <2>2, <3>1, <3>2 DEF JobOK
    <3>5. ResultsOK'
      <4>1. \A i : Span(Room(i))' = Span(Room(i))
        BY <3>2 DEF Span
      <4> QED
        BY <1>2, <3>1, <3>2, <4>1 DEF ResultsOK
    <3>6. Reached' = q
      BY <3>1, <3>2 DEF Reached
    <3> QED
      BY <3>1, <3>3, <3>4, <3>5, <3>6
  <2> QED
    BY <1>1, <2>1, <2>2
<1>8. CASE direct
  <2>1. Reached = p /\ job # "unwind"
    BY <1>1, <1>8 DEF Reached
  <2>2. WriteOut("call", Text(Reached, q))
    BY <1>1, <1>4, <1>8, <2>1
  <2>3. Reached \in Nat /\ Reached <= q
    BY <1>4, <1>5, <2>1
  <2>4. UNCHANGED <<tmp, longest, call, todo, direct, given>>
    BY <1>1
  <2> HIDE DEF p, q
  <2> QED
    BY <1>2, <1>5, <1>7, <1>8, <2>1, <2>2, <2>3, <2>4, Sent
<1>9. CASE ~direct
  <2>1. out' = out /\ trouble' = trouble /\ faulty' = faulty /\ own = First(1)
    BY <1>1, <1>9
  <2>2. Reached = q /\ job # "unwind"
    BY <1>1, <1>9, <2>1 DEF Reached
  <2>3. OutOK' /\ PrintOK' /\ TodoOK' /\ TmpOK'
    BY <1>1, <2>1 DEF IInv, ConsoleOK, OutOK, PrintOK, TodoOK, TmpOK
  <2>4. SourceOK' /\ RelayOK'
    BY <1>1, <1>2, <2>1, RelayStays DEF IInv, ConsoleOK
  <2>5. TextOK'
    BY <1>1, <1>2, <1>7, <1>9, <2>1, <2>2 DEF TextOK
  <2> QED
    BY <1>7, <2>3, <2>4, <2>5 DEF IInv, ConsoleOK
<1> QED
  BY <1>8, <1>9

LEMMA CollectKeeps ==
    ASSUME IInv, Collect, UNCHANGED relayVars
    PROVE  IInv'
<1> DEFINE w == written + 1
           p == cuts[First(w) + 1]
           q == cuts[First(w + 1) + 1]
           t == results[w].text
<1>1. /\ job = "collect"
      /\ IF direct
         THEN WriteOut("call", t) /\ UNCHANGED <<tmp, longest>>
         ELSE Keep(Write(tmp, t), t)
      /\ IF w = Len(results)
         THEN EndParallel
         ELSE written' = w /\ UNCHANGED <<threads, job, cuts, own, results, running>>
      /\ UNCHANGED <<call, todo, direct, given>>
  BY DEF Collect, Collected
<1>2. /\ ParOK /\ JobOK /\ ResultsOK /\ TextOK /\ call = "print"
      /\ tmp \in Buffer /\ longest \in Nat /\ Inside(tmp, longest)
  BY <1>1 DEF IInv, ConsoleOK, ParOK, PrintOK, TmpOK
<1>3. NextPlace \in Nat /\ NextPlace' = NextPlace
  BY <1>1, NextIs DEF IInv, ConsoleOK, PrintOK, OutOK, TodoOK, NextPlace
<1>4. /\ Len(results) \in Nat /\ DOMAIN results = 1 .. Len(results) /\ Len(results) + 1 = threads
      /\ written \in Nat /\ written < Len(results) /\ threads \in Nat
      /\ CutsOK(cuts) /\ cuts[Len(cuts)] = NextPlace /\ running = {}
  BY <1>1, <1>2, ParallelAssumption DEF ParOK, JobOK
<1>5. /\ w \in DOMAIN results /\ w \in 0 .. threads - 1 /\ w \in 1 .. Len(results)
      /\ w \notin running
  BY <1>4
<1>6. CountsOK
  BY <1>2, CountsAre
<1>7. Reached = p
  BY <1>1 DEF Reached
<1> HIDE DEF w
<1>8. /\ p \in Nat /\ q \in Nat /\ p <= q /\ Share(w) = Text(p, q) /\ Share(w) \in Seq(Nat)
  BY <1>4, <1>5, <1>6, ShareFits DEF Share
<1>9. t = Text(p, q) /\ t \in Seq(Nat)
  BY <1>2, <1>5, <1>8 DEF ResultsOK
<1>10. ParOK' /\ JobOK' /\ ResultsOK' /\ job' # "unwind" /\ Reached' = q
  <2>1. CASE w = Len(results)
    <3>1. EndParallel /\ running = {}
      BY <1>1, <1>4, <2>1
    <3>2. ParOK' /\ JobOK' /\ ResultsOK' /\ job' = "none" /\ Reached' = NextPlace'
      BY <1>2, <3>1, ParEnds
    <3>3. w + 1 = threads /\ First(threads) = elements /\ Len(cuts) = elements + 1
      BY <1>4, <1>6, <2>1, Shares, Counts
    <3>4. q = NextPlace
      BY <1>4, <3>3
    <3> QED
      BY <1>3, <3>2, <3>4
  <2>2. CASE w # Len(results)
    <3>1. /\ written' = w /\ threads' = threads /\ job' = job /\ cuts' = cuts /\ own' = own
          /\ results' = results /\ running' = running /\ call' = call
      BY <1>1, <2>2
    <3>2. elements' = elements /\ \A i : First(i)' = First(i) /\ Share(i)' = Share(i) /\ Room(i)' = Room(i)
      BY <3>1, SharesStay
    <3>3. w \in Nat /\ w < Len(results)
      BY <1>5, <1>4, <2>2
    <3>4. ParOK'
      BY <1>2, <1>4, <3>1, <3>2, <3>3 DEF ParOK
    <3>5. JobOK'
      BY <1>1, <1>2, <1>3, <3>1, <3>2, <3>3 DEF JobOK
    <3>6. ResultsOK'
      <4>1. \A i : Span(Room(i))' = Span(Room(i))
        BY <3>2 DEF Span
      <4> QED
        BY <1>2, <3>1, <3>2, <4>1 DEF ResultsOK
    <3>7. Reached' = q
      <4>1. range' = range /\ remainder' = remainder
        BY <3>1 DEF range, remainder, elements
      <4> QED
        BY <1>1, <3>1, <4>1 DEF Reached, First
    <3> QED
      BY <1>1, <3>1, <3>4, <3>5, <3>6, <3>7
  <2> QED
    BY <2>1, <2>2
<1>11. UNCHANGED <<call, todo, direct, given>> /\ job # "unwind"
  BY <1>1
<1> HIDE DEF p, q
<1>12. CASE direct
  <2>1. WriteOut("call", Text(Reached, q)) /\ UNCHANGED <<tmp, longest, call, todo, direct, given>>
    BY <1>1, <1>7, <1>9, <1>12
  <2>2. Reached \in Nat /\ Reached <= q
    BY <1>7, <1>8
  <2> QED
    BY <1>2, <1>8, <1>10, <1>11, <1>12, <2>1, <2>2, Sent
<1>13. CASE ~direct
  <2> DEFINE b == Write(tmp, t)
  <2>1. Keep(b, t) /\ Gets(tmp, t, longest, b)
    BY <1>1, <1>2, <1>9, <1>13, WriteIs
  <2>2. b.text = Text(0, Reached')
    <3>1. tmp.text = Text(0, p) /\ 0 \in Nat /\ 0 <= p
      BY <1>2, <1>7, <1>8, <1>11, <1>13 DEF TextOK
    <3>2. Text(0, p) \o Text(p, q) = Text(0, q)
      BY <1>8, <3>1, TextJoins
    <3>3. b.text = tmp.text \o t
      BY <2>1 DEF Gets
    <3> QED
      BY <1>9, <1>10, <3>1, <3>2, <3>3
  <2> HIDE DEF b, t
  <2> QED
    BY <1>2, <1>9, <1>10, <1>11, <1>13, <2>1, <2>2, Added
<1> QED
  BY <1>12, <1>13

LEMMA ParallelThrowsKeeps ==
    ASSUME IInv, ParallelThrows, UNCHANGED relayVars
    PROVE  IInv'
<1>1. /\ \/ Unwound /\ call' = "none" /\ UNCHANGED <<out, given, trouble, faulty>>
         \/ job \in {"alone", "collect"} /\ direct /\ WriteThrows("call") /\ EndParallel
      /\ todo' = <<>> /\ tmp' = NewBuffer /\ direct' = direct /\ longest' = longest
  BY DEF ParallelThrows
<1>2. ParOK /\ JobOK /\ OutOK /\ TextOK
  BY DEF IInv, ConsoleOK
<1>3. EndParallel /\ running = {} /\ job # "none" /\ call' = "none" /\ given' = given /\ out' = out
  BY <1>1, <1>2 DEF Unwound, WriteThrows, JobOK
<1>4. call = "print"
  BY <1>2, <1>3 DEF ParOK
<1>5. ParOK' /\ JobOK' /\ ResultsOK' /\ job' = "none"
  BY <1>2, <1>3, ParEnds
<1>6. CASE job = "unwind"
  <2>1. trouble' = trouble /\ faulty' = faulty /\ "call" \in faulty
    BY <1>1, <1>2, <1>6 DEF TextOK
  <2>2. OutOK'
    BY <1>2, <1>3, <2>1 DEF OutOK
  <2>3. Ascending(out'.call)
    BY <1>2, <1>3 DEF TextOK, Ascending
  <2> QED
    BY <1>1, <1>3, <1>4, <1>5, <2>1, <2>2, <2>3, Ends
<1>7. CASE job # "unwind"
  <2>1. Trouble("call")
    BY <1>1, <1>7 DEF Unwound, WriteThrows
  <2> QED
    BY <1>1, <1>3, <1>4, <1>5, <2>1, Fails
<1> QED
  BY <1>6, <1>7

(***************************************************************************)
(* The relay, and writes until everything is taken                         *)
(***************************************************************************)

LEMMA Apart ==
    ASSUME IInv, call # "print", call' # "print", UNCHANGED <<parVars, printVars>>
    PROVE  ParOK' /\ JobOK' /\ ResultsOK' /\ PrintOK' /\ TodoOK' /\ TmpOK' /\ job' = "none"
<1>1. /\ ParOK /\ JobOK /\ ResultsOK /\ PrintOK /\ TodoOK /\ TmpOK
      /\ todo' = todo /\ direct' = direct /\ tmp' = tmp /\ longest' = longest /\ UNCHANGED parVars
  BY DEF IInv, ConsoleOK, printVars
<1>2. job = "none" /\ todo = <<>>
  BY <1>1 DEF ParOK, TodoOK
<1>3. ParOK' /\ JobOK' /\ ResultsOK' /\ job' = "none"
  BY <1>1, <1>2, Idle
<1>4. TodoOK'
  <2>1. Len(<<>>) = 0
    BY EmptySeq
  <2> QED
    BY <1>1, <1>2, <2>1 DEF TodoOK, ArgsOK, Follow
<1>5. PrintOK' /\ TmpOK'
  BY <1>1 DEF PrintOK, TmpOK
<1> QED
  BY <1>3, <1>4, <1>5

\* A step after which no text is being written.
LEMMA Relays ==
    ASSUME IInv, call # "print", call' \in {"none", "relay"}, UNCHANGED <<parVars, printVars>>,
           OutOK', SourceOK', RelayOK',
           Ascending(out'.call), "call" \notin faulty' => out'.call = Text(0, given')
    PROVE  IInv'
<1>1. call' # "print"
  OBVIOUS
<1>2. ParOK' /\ JobOK' /\ ResultsOK' /\ PrintOK' /\ TodoOK' /\ TmpOK' /\ job' = "none"
  BY <1>1, Apart
<1>3. TextOK'
  BY <1>2 DEF TextOK
<1> QED
  BY <1>2, <1>3 DEF IInv, ConsoleOK

\* The same for one that writes nothing and does not go wrong.
LEMMA RelaysQuietly ==
    ASSUME IInv, call \in {"none", "relay"}, call' \in {"none", "relay"}, UNCHANGED <<parVars, printVars>>,
           UNCHANGED <<out, given, trouble, faulty>>, SourceOK', RelayOK'
    PROVE  IInv'
<1>1. /\ Ascending(out.call)
      /\ "call" \notin faulty => out.call = Text(0, given)
  BY DEF IInv, TextOK
<1>2. Ascending(out'.call) /\ ("call" \notin faulty' => out'.call = Text(0, given'))
  BY <1>1 DEF Ascending
<1>3. OutOK'
  BY DEF IInv, ConsoleOK, OutOK
<1> QED
  BY <1>2, <1>3, Relays

\* What the stream has of the source after a write of the characters after a up to b.
LEMMA SourceGets ==
    ASSUME OutOK, NEW a \in Nat, NEW b \in Nat, a <= b, WriteOut("source", Text(a, b))
    PROVE  /\ out' \in [kind : {"device", "span"}, call : Seq(Nat), source : Seq(Nat)]
           /\ out'.call = out.call
           /\ trouble' \in 0 .. MaxTrouble /\ faulty' \subseteq {"call", "source"}
           /\ "call" \in faulty' <=> "call" \in faulty
           /\ Has(out.source, a, FALSE) => Has(out'.source, b, FALSE)
           /\ "source" \notin faulty' => /\ "source" \notin faulty
                                         /\ out'.source = out.source \o Text(a, b)
<1>1. Text(a, b) \in Seq(Nat) /\ Len(Text(a, b)) = b - a
  BY TextIs
<1>2. PICK k \in 0 .. b - a :
            /\ out' = [out EXCEPT !["source"] = @ \o SubSeq(Text(a, b), 1, k)]
            /\ \/ k = b - a /\ trouble' = trouble /\ faulty' = faulty
               \/ trouble' \in 0 .. MaxTrouble /\ faulty' = faulty \cup {"source"}
  BY <1>1, WriteOutIs
<1> DEFINE t == SubSeq(Text(a, b), 1, k)
           s == out.source \o t
<1>3. out.source \in Seq(Nat)
  BY DEF OutOK
<1>4. t = Text(a, a + k) /\ t \in Seq(Nat)
  <2>1. t = Text(a, a + k)
    BY TextCuts
  <2>2. a + k \in Nat
    OBVIOUS
  <2>3. Text(a, a + k) \in Seq(Nat)
    BY <2>2, TextIs
  <2> QED
    BY <2>1, <2>3
<1>5. s \in Seq(Nat)
  BY <1>3, <1>4
<1>6. Has(out.source, a, FALSE) => Has(s, b, FALSE)
  BY <1>3, Takes
<1>7. k = b - a => s = out.source \o Text(a, b)
  <2>1. k = b - a => a + k = b
    OBVIOUS
  <2>2. k = b - a => t = Text(a, b)
    BY <1>4, <2>1
  <2> HIDE DEF t
  <2> QED
    BY <2>2
<1>8. out' = [out EXCEPT !.source = s]
  BY <1>2
<1> HIDE DEF s
<1>9. out'.source = s /\ out'.call = out.call
      /\ out' \in [kind : {"device", "span"}, call : Seq(Nat), source : Seq(Nat)]
  BY <1>5, <1>8 DEF OutOK
<1>10. /\ trouble' \in 0 .. MaxTrouble /\ faulty' \subseteq {"call", "source"}
       /\ "call" \in faulty' <=> "call" \in faulty
  BY <1>2 DEF OutOK
<1> QED
  BY <1>2, <1>6, <1>7, <1>9, <1>10

\* Character i has come to r, or was in s before it.
Covered(s, r, a, i) ==
    /\ i > a => \E j \in 1 .. Len(r) : r[j] = i
    /\ i <= a => ((\E j \in 1 .. Len(r) : r[j] = i) <=> \E j \in 1 .. Len(s) : s[j] = i)

\* The characters up to place b are in what a stream has, the ones before place a if
\* they were in it before.
LEMMA Covers ==
    ASSUME NEW s \in Seq(Nat), NEW a \in Nat, NEW b \in Nat, a <= b, NEW i \in 1 .. b
    PROVE  Covered(s, s \o Text(a, b), a, i)
<1> DEFINE t == Text(a, b)
           r == s \o t
<1>1. t \in Seq(Nat) /\ Len(t) = b - a /\ \A j \in 1 .. b - a : t[j] = a + j
  BY TextIs
<1> HIDE DEF t
<1>2. /\ r \in Seq(Nat) /\ Len(r) = Len(s) + Len(t) /\ Len(s) \in Nat
      /\ \A j \in 1 .. Len(s) + Len(t) : r[j] = IF j <= Len(s) THEN s[j] ELSE t[j - Len(s)]
  <2>1. /\ s \o t \in Seq(Nat) /\ Len(s \o t) = Len(s) + Len(t)
        /\ \A j \in 1 .. Len(s) + Len(t) : (s \o t)[j] = IF j <= Len(s) THEN s[j] ELSE t[j - Len(s)]
    BY <1>1, ConcatProperties
  <2> QED
    BY <2>1
<1> HIDE DEF r
<1>3. ASSUME i > a PROVE \E j \in 1 .. Len(r) : r[j] = i
  <2>1. i - a \in 1 .. b - a /\ t[i - a] = i
    <3>1. i - a \in 1 .. b - a /\ a + (i - a) = i
      BY <1>3
    <3> QED
      BY <1>1, <3>1
  <2>2. Len(s) + (i - a) \in 1 .. Len(r) /\ r[Len(s) + (i - a)] = t[(Len(s) + (i - a)) - Len(s)]
    <3> DEFINE j == Len(s) + (i - a)
    <3>1. j \in 1 .. Len(s) + Len(t) /\ ~(j <= Len(s))
      BY <1>1, <1>2, <2>1
    <3> HIDE DEF j
    <3>2. j \in 1 .. Len(r) /\ r[j] = t[j - Len(s)]
      BY <1>2, <3>1
    <3> QED
      BY <3>2 DEF j
  <2>3. (Len(s) + (i - a)) - Len(s) = i - a
    BY <1>2, <2>1
  <2>4. r[Len(s) + (i - a)] = i
    BY <2>1, <2>2, <2>3
  <2> QED
    BY <2>2, <2>4
<1>4. ASSUME i <= a, NEW j \in 1 .. Len(r), r[j] = i PROVE \E k \in 1 .. Len(s) : s[k] = i
  <2>1. CASE j <= Len(s)
    <3>1. j \in 1 .. Len(s) /\ s[j] = i
      BY <1>1, <1>2, <1>4, <2>1
    <3> QED
      BY <3>1
  <2>2. CASE j > Len(s)
    <3>1. j - Len(s) \in 1 .. b - a /\ r[j] = t[j - Len(s)]
      <4>1. j \in Nat /\ j <= Len(s) + (b - a) /\ ~(j <= Len(s)) /\ j \in 1 .. Len(s) + Len(t)
        BY <1>1, <1>2, <1>4, <2>2
      <4>2. r[j] = t[j - Len(s)]
        BY <1>2, <4>1
      <4> QED
        BY <1>2, <4>1, <4>2
    <3>2. r[j] = a + (j - Len(s)) /\ j - Len(s) \in Nat \ {0}
      BY <3>1, <1>1
    <3>3. i > a
      BY <3>2, <1>4
    <3> QED
      BY <3>3, <1>4
  <2> QED
    BY <2>1, <2>2, <1>2
<1>5. ASSUME NEW j \in 1 .. Len(s), s[j] = i PROVE \E k \in 1 .. Len(r) : r[k] = i
  <2>1. j \in 1 .. Len(r) /\ r[j] = i
    BY <1>1, <1>2, <1>5
  <2> QED
    BY <2>1
<1> QED
  BY <1>3, <1>4, <1>5 DEF r, t, Covered

\* The block is written, and the relay has come to its end.
LEMMA BlockIsWritten ==
    ASSUME IInv, call = "relay", call' \in {"none", "relay"}, stage # "refill",
           WriteOut("source", Block), UNCHANGED <<parVars, printVars>>,
           given' = given, end' = end, ended' = ended, left' = left, taken' = taken, broken' = broken,
           moved' \in Nat, stage' \in {"rest", "refill"}, curr' \in {curr, end},
           IF stage' = "refill" THEN call' = "relay" /\ curr' = curr ELSE curr' = end
    PROVE  IInv'
<1> DEFINE a == curr - 1
           b == end - 1
<1>1. OutOK /\ SourceOK /\ RelayOK
  BY DEF IInv, ConsoleOK
<1>2. /\ curr \in Nat /\ end \in Nat /\ 1 <= curr /\ curr <= end /\ end <= SourceLength + 1
      /\ SourceLength \in Nat
  BY <1>1, RelayAssumption DEF SourceOK
<1>3. a \in Nat /\ b \in Nat /\ a <= b /\ Block = Text(a, b)
  BY <1>2 DEF Block
<1>4. out.source \in Seq(Nat)
  BY <1>1 DEF OutOK
<1>5. /\ taken \subseteq 1 .. a
      /\ ~broken => Has(out.source, a, FALSE)
      /\ "source" \notin faulty =>
            /\ ~broken
            /\ \A i \in 1 .. a : (i \in taken) # (\E j \in 1 .. Len(out.source) : out.source[j] = i)
            /\ ended => curr = SourceLength + 1
  BY <1>1 DEF RelayOK
<1> HIDE DEF a, b
<1>6. /\ out' \in [kind : {"device", "span"}, call : Seq(Nat), source : Seq(Nat)]
      /\ out'.call = out.call
      /\ trouble' \in 0 .. MaxTrouble /\ faulty' \subseteq {"call", "source"}
      /\ "call" \in faulty' <=> "call" \in faulty
      /\ Has(out.source, a, FALSE) => Has(out'.source, b, FALSE)
      /\ "source" \notin faulty' => /\ "source" \notin faulty
                                    /\ out'.source = out.source \o Text(a, b)
  BY <1>1, <1>3, SourceGets
<1>7. OutOK'
  BY <1>1, <1>6 DEF OutOK
<1>8. SourceOK'
  BY <1>1, <1>2 DEF SourceOK
<1>9. ASSUME "source" \notin faulty', NEW i \in 1 .. b
      PROVE  (i \in taken) # (\E j \in 1 .. Len(out'.source) : out'.source[j] = i)
  <2> DEFINE s == out.source
             r == s \o Text(a, b)
  <2>1. out'.source = r /\ s \in Seq(Nat) /\ i \in Nat
    BY <1>3, <1>4, <1>6, <1>9
  <2>2. /\ i > a => \E j \in 1 .. Len(r) : r[j] = i
        /\ i <= a => ((\E j \in 1 .. Len(r) : r[j] = i) <=> \E j \in 1 .. Len(s) : s[j] = i)
    <3> HIDE DEF s
    <3>1. Covered(s, r, a, i)
      BY <1>3, <2>1, Covers
    <3> HIDE DEF r
    <3> QED
      BY <3>1 DEF Covered
  <2> HIDE DEF r
  <2>3. CASE i > a
    <3>1. i \notin taken
      BY <1>3, <1>5, <2>3
    <3>2. \E j \in 1 .. Len(out'.source) : out'.source[j] = i
      BY <2>1, <2>2, <2>3
    <3> QED
      BY <3>1, <3>2
  <2>4. CASE i <= a
    <3>1. i \in 1 .. a
      BY <1>3, <2>4
    <3>2. (\E j \in 1 .. Len(out'.source) : out'.source[j] = i)
            <=> \E j \in 1 .. Len(out.source) : out.source[j] = i
      BY <2>1, <2>2, <2>4
    <3>3. (i \in taken) # (\E j \in 1 .. Len(out.source) : out.source[j] = i)
      BY <1>5, <1>6, <1>9, <3>1
    <3> QED
      BY <3>2, <3>3
  <2>5. i > a \/ i <= a
    BY <1>3, <2>1
  <2> QED
    BY <2>3, <2>4, <2>5
<1>10. RelayOK'
  <2> DEFINE done == IF stage = "refill" THEN end ELSE curr
  <2>1. done' - 1 = b
    BY DEF b
  <2>2. call' # "relay" => stage' = "rest"
    OBVIOUS
  <2>3. stage' # "block"
    OBVIOUS
  <2>4. taken' \subseteq 1 .. curr' - 1
    <3>1. \A i \in taken : i \in 1 .. curr - 1
      BY <1>5 DEF a
    <3>2. curr' \in Nat /\ curr <= curr' /\ curr \in Nat /\ 1 <= curr
      <4>1. curr' = curr \/ curr' = end
        OBVIOUS
      <4> QED
        BY <4>1, <1>2
    <3> QED
      BY <3>1, <3>2
  <2>5. ~broken' => Has(out'.source, b, FALSE)
    BY <1>5, <1>6
  <2>6. "source" \notin faulty' => ~broken' /\ (ended' => curr' = SourceLength + 1)
    BY <1>2, <1>5, <1>6
  <2>7. "source" \notin faulty' =>
            \A i \in 1 .. b : (i \in taken') # (\E j \in 1 .. Len(out'.source) : out'.source[j] = i)
    BY <1>9
  <2> QED
    BY <2>1, <2>2, <2>3, <2>4, <2>5, <2>6, <2>7 DEF RelayOK, Has
<1>11. Ascending(out.call) /\ ("call" \notin faulty => out.call = Text(0, given))
  BY DEF IInv, TextOK
<1>12. Ascending(out'.call) /\ ("call" \notin faulty' => out'.call = Text(0, given'))
  BY <1>6, <1>11 DEF Ascending
<1> QED
  BY <1>7, <1>8, <1>10, <1>12, Relays

LEMMA WriteRestKeeps ==
    ASSUME IInv, WriteRest, UNCHANGED <<parVars, printVars>>
    PROVE  IInv'
<1>1. /\ call = "relay" /\ call' = call /\ stage = "rest" /\ stage' = "refill"
      /\ WriteOut("source", Block) /\ moved' = Len(Block)
      /\ given' = given /\ curr' = curr /\ end' = end /\ ended' = ended /\ left' = left
      /\ taken' = taken /\ broken' = broken
  BY DEF WriteRest
<1>2. moved' \in Nat
  <2>1. curr - 1 \in Nat /\ end - 1 \in Nat
    BY RelayAssumption DEF IInv, ConsoleOK, SourceOK
  <2>2. Block \in Seq(Nat)
    BY <2>1, TextIs DEF Block
  <2> QED
    BY <1>1, <2>2
<1> QED
  BY <1>1, <1>2, BlockIsWritten

LEMMA WriteBlockKeeps ==
    ASSUME IInv, WriteBlock, UNCHANGED <<parVars, printVars>>
    PROVE  IInv'
<1>1. /\ call = "relay" /\ call' = "none" /\ stage = "block" /\ stage' = "rest" /\ moved' = 0
      /\ WriteOut("source", Block)
      /\ given' = given /\ curr' = end /\ end' = end /\ ended' = ended /\ left' = left
      /\ taken' = taken /\ broken' = broken
  BY DEF WriteBlock, EndRelay
<1> QED
  BY <1>1, BlockIsWritten

LEMMA GetKeeps ==
    ASSUME IInv, Get, UNCHANGED <<parVars, printVars>>
    PROVE  IInv'
<1>1. /\ call = "none" /\ curr < end /\ taken' = taken \cup {curr} /\ curr' = curr + 1
      /\ out' = out /\ call' = call /\ given' = given /\ trouble' = trouble /\ faulty' = faulty
      /\ end' = end /\ stage' = stage /\ moved' = moved /\ ended' = ended /\ left' = left
      /\ broken' = broken
  BY DEF Get, outVars
<1>2. OutOK /\ SourceOK /\ RelayOK
  BY DEF IInv, ConsoleOK
<1>3. /\ curr \in Nat /\ 1 <= curr /\ end \in Nat /\ end <= SourceLength + 1 /\ SourceLength \in Nat
  BY <1>2, RelayAssumption DEF SourceOK
<1>4. stage = "rest" /\ curr - 1 \in Nat
  BY <1>1, <1>2, <1>3 DEF RelayOK
<1>5. /\ taken \subseteq 1 .. curr - 1
      /\ ~broken => Has(out.source, curr - 1, FALSE)
      /\ "source" \notin faulty =>
            /\ ~broken
            /\ \A i \in 1 .. curr - 1 : (i \in taken) # (\E j \in 1 .. Len(out.source) : out.source[j] = i)
            /\ ended => curr = SourceLength + 1
  BY <1>2, <1>4 DEF RelayOK
<1>6. out.source \in Seq(Nat)
  BY <1>2 DEF OutOK
<1>7. SourceOK'
  <2>1. curr \in 1 .. SourceLength /\ curr + 1 \in 1 .. end
    BY <1>1, <1>3
  <2> QED
    BY <1>1, <1>2, <2>1 DEF SourceOK
<1>8. ~broken => Has(out.source, curr, FALSE)
  <2>1. curr - 1 <= curr
    BY <1>3
  <2> QED
    BY <1>3, <1>4, <1>5, <1>6, <2>1, HasMore
<1>9. ASSUME "source" \notin faulty, NEW i \in 1 .. curr
      PROVE  (i \in taken') # (\E j \in 1 .. Len(out.source) : out.source[j] = i)
  <2>1. CASE i = curr
    <3>1. Has(out.source, curr - 1, FALSE)
      BY <1>5, <1>9
    <3>2. \A j \in 1 .. Len(out.source) : out.source[j] \in Nat /\ out.source[j] <= curr - 1
      BY <1>6, <3>1 DEF Has
    <3>3. \A j \in 1 .. Len(out.source) : out.source[j] # curr
      BY <1>3, <3>2
    <3> QED
      BY <1>1, <2>1, <3>3
  <2>2. CASE i # curr
    <3>1. i \in 1 .. curr - 1
      BY <1>3, <2>2
    <3>2. (i \in taken) # (\E j \in 1 .. Len(out.source) : out.source[j] = i)
      BY <1>5, <1>9, <3>1
    <3>3. CASE i \in taken
      BY <3>2, <3>3, <1>1
    <3>4. CASE i \notin taken
      <4>1. i \notin taken'
        BY <3>4, <2>2, <1>1
      <4> DEFINE has == \E j \in 1 .. Len(out.source) : out.source[j] = i
      <4>2. has \in BOOLEAN /\ ((i \in taken) # has)
        BY <3>2
      <4> HIDE DEF has
      <4>3. has
        BY <3>4, <4>2
      <4> QED
        BY <4>1, <4>3 DEF has
    <3> QED
      BY <3>3, <3>4
  <2> QED
    BY <2>1, <2>2
<1>10. RelayOK'
  <2>1. stage' # "refill" /\ stage' # "block" /\ stage' = "rest" /\ curr' - 1 = curr
    BY <1>1, <1>3, <1>4
  <2>2. taken' \subseteq 1 .. curr
    BY <1>1, <1>3, <1>5
  <2>3. "source" \notin faulty => ~broken /\ ~ended
    BY <1>1, <1>3, <1>5
  <2> QED
    BY <1>1, <1>8, <1>9, <2>1, <2>2, <2>3 DEF RelayOK, Has
<1> QED
  BY <1>1, <1>7, <1>10, RelaysQuietly

LEMMA RefillsIs ==
    ASSUME SourceOK, Refills
    PROVE  /\ curr' = end /\ end' \in end .. SourceLength + 1
           /\ end \in Nat /\ 1 <= end /\ end <= SourceLength + 1 /\ SourceLength \in Nat
           /\ end' = end => end = SourceLength + 1
<1>1. end \in Nat /\ 1 <= end /\ end <= SourceLength + 1 /\ SourceLength \in Nat /\ BlockSize \in Nat \ {0}
  BY RelayAssumption DEF SourceOK
<1> DEFINE most == IF end + BlockSize > SourceLength + 1 THEN SourceLength + 1 - end ELSE BlockSize
<1>2. curr' = end
  BY DEF Refills
<1>3. PICK k \in IF most = 0 THEN {0} ELSE 1 .. most : end' = end + k
  BY DEF Refills
<1>4. most \in Nat /\ end + most <= SourceLength + 1 /\ (most = 0 => end = SourceLength + 1)
  BY <1>1
<1> HIDE DEF most
<1>5. CASE most = 0
  BY <1>1, <1>2, <1>3, <1>4, <1>5
<1>6. CASE most # 0
  <2>1. k \in 1 .. most
    BY <1>3, <1>6
  <2> QED
    BY <1>1, <1>2, <1>3, <1>4, <2>1
<1> QED
  BY <1>5, <1>6

LEMMA UnderflowKeeps ==
    ASSUME IInv, Underflow, UNCHANGED <<parVars, printVars>>
    PROVE  IInv'
<1>1. /\ call = "none" /\ curr = end /\ Refills
      /\ out' = out /\ call' = call /\ given' = given /\ trouble' = trouble /\ faulty' = faulty
      /\ stage' = stage /\ moved' = moved /\ ended' = ended /\ left' = left
      /\ taken' = taken /\ broken' = broken
  BY DEF Underflow, outVars
<1>2. SourceOK /\ RelayOK
  BY DEF IInv, ConsoleOK
<1>3. /\ curr' = end /\ end' \in end .. SourceLength + 1
      /\ end \in Nat /\ 1 <= end /\ end <= SourceLength + 1 /\ SourceLength \in Nat
  BY <1>1, <1>2, RefillsIs
<1>4. SourceOK'
  BY <1>1, <1>2, <1>3 DEF SourceOK
<1>5. RelayOK'
  BY <1>1, <1>2, <1>3 DEF RelayOK, Has
<1> QED
  BY <1>1, <1>4, <1>5, RelaysQuietly

LEMMA TransmitKeeps ==
    ASSUME IInv, transmit_once, UNCHANGED <<parVars, printVars>>
    PROVE  IInv'
<1>1. /\ call = "none" /\ call' = "relay" /\ out' = out /\ given' = given /\ trouble' = trouble
      /\ faulty' = faulty /\ curr' = curr /\ end' = end /\ stage' = stage /\ moved' = moved
      /\ ended' = ended /\ left' = left /\ taken' = taken /\ broken' = broken
  BY DEF transmit_once, relayVars
<1>2. SourceOK /\ RelayOK
  BY DEF IInv, ConsoleOK
<1>3. SourceOK' /\ RelayOK'
  BY <1>1, <1>2 DEF SourceOK, RelayOK
<1> QED
  BY <1>1, <1>3, RelaysQuietly

LEMMA RefillKeeps ==
    ASSUME IInv, Refill, UNCHANGED <<parVars, printVars>>
    PROVE  IInv'
<1>1. /\ call = "relay" /\ stage = "refill" /\ Refills
      /\ out' = out /\ given' = given /\ trouble' = trouble /\ faulty' = faulty
      /\ left' = left /\ taken' = taken /\ broken' = broken
  BY DEF Refill
<1>2. IF end' = end
      THEN call' = "none" /\ stage' = "rest" /\ moved' = 0 /\ ended' = (moved = 0)
      ELSE stage' = "block" /\ call' = call /\ moved' = moved /\ ended' = ended
  BY DEF Refill, EndRelay
<1>3. SourceOK /\ RelayOK
  BY DEF IInv, ConsoleOK
<1>4. /\ curr' = end /\ end' \in end .. SourceLength + 1
      /\ end \in Nat /\ 1 <= end /\ end <= SourceLength + 1 /\ SourceLength \in Nat
      /\ end' = end => end = SourceLength + 1
      /\ curr \in Nat /\ curr <= end /\ 1 <= curr
  BY <1>1, <1>3, RefillsIs DEF SourceOK
<1>5. /\ taken \subseteq 1 .. curr - 1
      /\ ~broken => Has(out.source, end - 1, FALSE)
      /\ "source" \notin faulty =>
            /\ ~broken
            /\ \A i \in 1 .. end - 1 : (i \in taken) # (\E j \in 1 .. Len(out.source) : out.source[j] = i)
            /\ ended => curr = SourceLength + 1
  BY <1>1, <1>3 DEF RelayOK
<1>6. taken \subseteq 1 .. end - 1
  BY <1>4, <1>5
<1>7. CASE end' = end
  <2>1. call' = "none" /\ stage' = "rest" /\ moved' = 0 /\ ended' \in BOOLEAN
    BY <1>2, <1>7
  <2>2. SourceOK'
    BY <1>1, <1>3, <1>4, <2>1 DEF SourceOK
  <2>3. RelayOK'
    BY <1>1, <1>4, <1>5, <1>6, <1>7, <2>1 DEF RelayOK, Has
  <2> QED
    BY <1>1, <2>1, <2>2, <2>3, RelaysQuietly
<1>8. CASE end' # end
  <2>1. stage' = "block" /\ call' = "relay" /\ moved' = moved /\ ended' = ended /\ end < end'
    BY <1>1, <1>2, <1>4, <1>8
  <2>2. SourceOK'
    BY <1>1, <1>3, <1>4, <2>1 DEF SourceOK
  <2>3. RelayOK'
    <3>1. "source" \notin faulty => ~ended
      BY <1>4, <1>5, <2>1
    <3> QED
      BY <1>1, <1>4, <1>5, <1>6, <2>1, <3>1 DEF RelayOK, Has
  <2> QED
    BY <1>1, <2>1, <2>2, <2>3, RelaysQuietly
<1> QED
  BY <1>7, <1>8

\* What a call that ends with an exception of the source, or of the device while the
\* source is written, leaves.
LEMMA SourceFails ==
    ASSUME IInv, call = "relay", call' = "none", Trouble("source"), stage' = "rest", moved' = 0,
           UNCHANGED <<out, given, curr, end, ended, left, taken>>, UNCHANGED <<parVars, printVars>>,
           broken' \in BOOLEAN, (broken' = broken /\ stage # "refill") \/ broken' = TRUE
    PROVE  IInv'
<1>1. OutOK /\ SourceOK /\ RelayOK
  BY DEF IInv, ConsoleOK
<1>2. trouble' \in 0 .. MaxTrouble /\ faulty' = faulty \cup {"source"} /\ faulty' \subseteq {"call", "source"}
  BY <1>1, Throws
<1>3. OutOK'
  BY <1>1, <1>2 DEF OutOK
<1>4. SourceOK'
  BY <1>1 DEF SourceOK
<1>5. RelayOK'
  BY <1>1, <1>2 DEF RelayOK, Has
<1>6. Ascending(out.call) /\ ("call" \notin faulty => out.call = Text(0, given))
  BY DEF IInv, TextOK
<1>7. Ascending(out'.call) /\ ("call" \notin faulty' => out'.call = Text(0, given'))
  BY <1>2, <1>6 DEF Ascending
<1> QED
  BY <1>3, <1>4, <1>5, <1>7, Relays

LEMMA RefillThrowsKeeps ==
    ASSUME IInv, RefillThrows, UNCHANGED <<parVars, printVars>>
    PROVE  IInv'
BY SourceFails DEF RefillThrows, EndRelay

LEMMA RelayThrowsKeeps ==
    ASSUME IInv, RelayThrows, UNCHANGED <<parVars, printVars>>
    PROVE  IInv'
<1>1. broken \in BOOLEAN
  BY DEF IInv, ConsoleOK, SourceOK
<1> QED
  BY <1>1, SourceFails DEF RelayThrows, WriteThrows, EndRelay

LEMMA WriteAllKeeps ==
    ASSUME IInv, write_all, UNCHANGED <<parVars, printVars>>
    PROVE  IInv'
<1>1. PICK n \in Lengths : BeginCall("all", n) /\ left' = Text(0, n)
  BY DEF write_all
<1>2. /\ call = "none" /\ call' = "all" /\ given' = n /\ out' = [out EXCEPT !.call = <<>>]
      /\ faulty' = faulty \ {"call"} /\ trouble' = trouble
      /\ curr' = curr /\ end' = end /\ stage' = stage /\ moved' = moved /\ ended' = ended
      /\ taken' = taken /\ broken' = broken
  BY <1>1 DEF write_all, BeginCall
<1>3. OutOK /\ SourceOK /\ RelayOK
  BY DEF IInv, ConsoleOK
<1>4. n \in Nat /\ 0 \in Nat /\ 0 <= n
  BY RelayAssumption
<1>5. left' \in Seq(Nat) /\ Len(left') = n /\ left' = Text(n - n, n)
  <2>1. n - n = 0 /\ n - 0 = n
    BY <1>4
  <2> QED
    BY <1>1, <1>4, <2>1, TextIs
<1>6. ParOK' /\ JobOK' /\ ResultsOK' /\ PrintOK' /\ TodoOK' /\ TmpOK' /\ job' = "none"
  BY <1>2, Apart
<1>7. <<>> \in Seq(Nat)
  OBVIOUS
<1>8. /\ out'.call = <<>> /\ out'.source = out.source
      /\ out' \in [kind : {"device", "span"}, call : Seq(Nat), source : Seq(Nat)]
  BY <1>2, <1>3, <1>7 DEF OutOK
<1>9. OutOK'
  BY <1>2, <1>3, <1>4, <1>8 DEF OutOK
<1>10. SourceOK'
  BY <1>2, <1>3, <1>5 DEF SourceOK
<1>11. RelayOK'
  BY <1>2, <1>3, <1>8 DEF RelayOK, Has
<1>12. Has(<<>>, 0, TRUE) /\ Ascending(<<>>)
  BY HasNothing DEF Has
<1>13. TextOK'
  <2>1. n - n = 0
    BY <1>4
  <2> QED
    BY <1>2, <1>4, <1>5, <1>6, <1>8, <1>12, <2>1 DEF TextOK, Has, Ascending
<1> QED
  BY <1>6, <1>9, <1>10, <1>11, <1>13 DEF IInv, ConsoleOK

LEMMA WriteSomeKeeps ==
    ASSUME IInv, WriteSome, UNCHANGED <<parVars, printVars>>
    PROVE  IInv'
<1> DEFINE l == Len(left)
<1>1. /\ call = "all" /\ left # <<>> /\ call' = call /\ given' = given /\ trouble' = trouble
      /\ faulty' = faulty /\ curr' = curr /\ end' = end /\ stage' = stage /\ moved' = moved
      /\ ended' = ended /\ taken' = taken /\ broken' = broken
  BY DEF WriteSome
<1>2. PICK k \in (IF out.kind = "span" THEN {l} ELSE 1 .. l) :
        /\ out' = [out EXCEPT !.call = @ \o SubSeq(left, 1, k)]
        /\ left' = SubSeq(left, k + 1, l)
  BY DEF WriteSome
<1>3. OutOK /\ SourceOK /\ RelayOK /\ TextOK
  BY DEF IInv, ConsoleOK
<1>4. given \in Nat /\ left \in Seq(Nat) /\ l \in Nat /\ l # 0 /\ out.call \in Seq(Nat)
  BY <1>1, <1>3, EmptySeq DEF OutOK, SourceOK
<1> HIDE DEF l
<1>5. /\ "call" \notin faulty /\ l <= given /\ left = Text(given - l, given)
      /\ Has(out.call, given - l, TRUE)
  BY <1>1, <1>3 DEF TextOK, l
<1> DEFINE a == given - l
           b == a + k
           s == out.call \o SubSeq(left, 1, k)
<1>6. k \in 0 .. l /\ a \in Nat /\ a <= given /\ given - a = l
  <2>1. k = l \/ k \in 1 .. l
    BY <1>2
  <2>2. l <= given
    BY <1>5
  <2>3. k \in 0 .. l
    BY <1>4, <2>1
  <2> QED
    BY <1>4, <2>2, <2>3
<1>7. b \in Nat /\ a <= b /\ b <= given /\ k = b - a /\ given - b = l - k /\ l - k \in Nat /\ b = given - (l - k)
  BY <1>4, <1>6
<1> HIDE DEF a
<1>8. SubSeq(left, 1, k) = Text(a, b) /\ left' = Text(b, given)
  <2>1. k \in 0 .. given - a
    BY <1>6
  <2>2. /\ SubSeq(Text(a, given), 1, k) = Text(a, a + k)
        /\ SubSeq(Text(a, given), k + 1, given - a) = Text(a + k, given)
    BY <1>4, <1>6, <2>1, TextCuts
  <2>3. left = Text(a, given)
    BY <1>5 DEF a
  <2> QED
    BY <1>2, <1>6, <2>2, <2>3
<1> HIDE DEF b
<1>9. s \in Seq(Nat) /\ Has(s, b, TRUE)
  <2>1. k \in 0 .. b - a /\ Has(out.call, a, TRUE)
    <3>1. Has(out.call, a, TRUE)
      BY <1>5 DEF a
    <3>2. k \in 0 .. b - a
      BY <1>4, <1>6, <1>7
    <3> QED
      BY <3>1, <3>2
  <2>2. SubSeq(Text(a, b), 1, k) = SubSeq(left, 1, k)
    <3>1. SubSeq(Text(a, b), 1, k) = Text(a, a + k)
      BY <1>6, <1>7, <2>1, TextCuts
    <3> QED
      BY <1>8, <3>1 DEF b
  <2> DEFINE r == SubSeq(Text(a, b), 1, k)
  <2>3. out.call \o r \in Seq(Nat) /\ Has(out.call \o r, b, TRUE)
    BY <1>4, <1>6, <1>7, <2>1, Takes
  <2> HIDE DEF r
  <2>4. r = SubSeq(left, 1, k)
    BY <2>2 DEF r
  <2> QED
    BY <2>3, <2>4
<1>10. out' = [out EXCEPT !.call = s]
  BY <1>2
<1> HIDE DEF s
<1>11. /\ out'.call = s /\ out'.source = out.source
       /\ out' \in [kind : {"device", "span"}, call : Seq(Nat), source : Seq(Nat)]
  BY <1>3, <1>9, <1>10 DEF OutOK
<1>12. left' \in Seq(Nat) /\ Len(left') = l - k
  BY <1>4, <1>7, <1>8, TextIs
<1>13. ParOK' /\ JobOK' /\ ResultsOK' /\ PrintOK' /\ TodoOK' /\ TmpOK' /\ job' = "none"
  BY <1>1, Apart
<1>14. OutOK'
  BY <1>1, <1>3, <1>11 DEF OutOK
<1>15. SourceOK'
  BY <1>1, <1>3, <1>12 DEF SourceOK
<1>16. RelayOK'
  <2>1. RelayOK /\ out'.source = out.source
    BY <1>3, <1>11
  <2> HIDE DEF l
  <2> QED
    BY <1>1, <2>1 DEF RelayOK, Has
<1>17. TextOK'
  <2>1. l - k <= given
    BY <1>4, <1>6
  <2>2. Len(left') <= given' /\ left' = Text(given' - Len(left'), given') /\ given' - Len(left') = b
    BY <1>1, <1>7, <1>8, <1>12, <2>1
  <2>3. Has(out'.call, given' - Len(left'), TRUE)
    BY <1>9, <1>11, <2>2
  <2> QED
    BY <1>1, <1>5, <1>13, <2>2, <2>3 DEF TextOK, Has, Ascending
<1> QED
  BY <1>13, <1>14, <1>15, <1>16, <1>17 DEF IInv, ConsoleOK

\* A call to write_all ends.
LEMMA AllEnds ==
    ASSUME IInv, call = "all", call' = "none", out' = out, given' = given, left' \in Seq(Nat),
           OutOK', "source" \in faulty' <=> "source" \in faulty,
           "call" \notin faulty' => out.call = Text(0, given),
           UNCHANGED <<curr, end, stage, moved, ended, taken, broken>>, UNCHANGED <<parVars, printVars>>
    PROVE  IInv'
<1>1. SourceOK /\ RelayOK /\ Ascending(out.call)
  BY DEF IInv, ConsoleOK, TextOK
<1>2. SourceOK'
  BY <1>1 DEF SourceOK
<1>3. RelayOK'
  BY <1>1 DEF RelayOK, Has
<1>4. Ascending(out'.call) /\ ("call" \notin faulty' => out'.call = Text(0, given'))
  BY <1>1 DEF Ascending
<1> QED
  BY <1>2, <1>3, <1>4, Relays

LEMMA AllWrittenKeeps ==
    ASSUME IInv, AllWritten, UNCHANGED <<parVars, printVars>>
    PROVE  IInv'
<1>1. /\ call = "all" /\ left = <<>> /\ call' = "none" /\ out' = out /\ given' = given
      /\ trouble' = trouble /\ faulty' = faulty
      /\ curr' = curr /\ end' = end /\ stage' = stage /\ moved' = moved /\ ended' = ended
      /\ left' = left /\ taken' = taken /\ broken' = broken
  BY DEF AllWritten, relayVars
<1>2. OutOK' /\ left' \in Seq(Nat)
  BY <1>1 DEF IInv, ConsoleOK, OutOK, SourceOK
<1>3. out.call = Text(0, given)
  <2>1. Len(left) = 0 /\ given \in Nat /\ Has(out.call, given - Len(left), TRUE)
    BY <1>1, EmptySeq DEF IInv, TextOK, ConsoleOK, OutOK
  <2>2. given - Len(left) = given
    BY <2>1
  <2> QED
    BY <2>1, <2>2 DEF Has
<1> QED
  BY <1>1, <1>2, <1>3, AllEnds

LEMMA WriteAllThrowsKeeps ==
    ASSUME IInv, WriteAllThrows, UNCHANGED <<parVars, printVars>>
    PROVE  IInv'
<1>1. /\ call = "all" /\ Trouble("call") /\ call' = "none" /\ out' = out /\ given' = given
      /\ left' = <<>> /\ UNCHANGED <<curr, end, stage, moved, ended, taken, broken>>
  BY DEF WriteAllThrows, WriteThrows
<1>2. trouble' \in 0 .. MaxTrouble /\ faulty' = faulty \cup {"call"} /\ faulty' \subseteq {"call", "source"}
  BY <1>1, Throws DEF IInv, ConsoleOK
<1>3. OutOK' /\ left' \in Seq(Nat)
  BY <1>1, <1>2 DEF IInv, ConsoleOK, OutOK
<1> QED
  BY <1>1, <1>2, <1>3, AllEnds

(***************************************************************************)
(* The invariant                                                           *)
(***************************************************************************)

LEMMA Initially ==
    ASSUME ConsoleInit
    PROVE  IInv
<1>1. /\ call = "none" /\ given = 0 /\ trouble = 0 /\ faulty = {} /\ out.call = <<>> /\ out.source = <<>>
      /\ out \in [kind : {"device", "span"}, call : {<<>>}, source : {<<>>}]
      /\ threads \in Threads /\ job = "none" /\ cuts = <<0>> /\ own = 0 /\ results = <<>>
      /\ running = {} /\ written = 0
      /\ todo = <<>> /\ direct = FALSE /\ tmp = NewBuffer /\ longest = 0
      /\ curr = 1 /\ end = 1 /\ stage = "rest" /\ moved = 0 /\ ended = FALSE /\ left = <<>>
      /\ taken = {} /\ broken = FALSE
  BY DEF ConsoleInit, OutInit, PrintInit, ParInit, RelayInit
<1>2. <<0>> \in Seq(Nat) /\ Len(<<0>>) = 1 /\ <<0>> # <<>>
  OBVIOUS
<1>3. threads \in Nat \ {0}
  BY <1>1, ParallelAssumption
<1>4. elements = 0
  BY <1>1, <1>2 DEF elements
<1>5. /\ <<>> \in Seq(Buffer) /\ Len(<<>>) = 0 /\ DOMAIN <<>> = {}
      /\ <<>> \in Seq(Nat) /\ <<>> \in Seq(Argument)
  BY EmptySeq
<1>6. OutOK
  <2>1. out \in [kind : {"device", "span"}, call : Seq(Nat), source : Seq(Nat)]
    BY <1>1, <1>5
  <2>2. 0 \in 0 .. MaxTrouble
    BY OutAssumption
  <2> QED
    BY <1>1, <2>1, <2>2 DEF OutOK
<1>7. ParOK
  BY <1>1, <1>2, <1>3, <1>4, <1>5 DEF ParOK
<1>8. PrintOK /\ TmpOK
  <2>1. tmp \in Buffer /\ tmp.cap = StaticSize /\ Inside(tmp, longest)
    BY <1>1, NewBufferIs
  <2>2. StaticSize >= StaticSize /\ 0 \in Nat
    BY StaticSizeAssumption
  <2> QED
    BY <1>1, <1>5, <2>1, <2>2 DEF PrintOK, TmpOK
<1>9. SourceOK
  <2>1. 1 \in 1 .. 1 /\ 1 \in 1 .. SourceLength + 1 /\ 0 \in Nat
    BY RelayAssumption
  <2> QED
    BY <1>1, <1>5, <2>1 DEF SourceOK
<1>10. TodoOK
  BY <1>1, <1>5 DEF TodoOK, ArgsOK, Follow
<1>11. JobOK
  <2>1. First(1) \in Nat
    <3>1. 0 \div threads \in Nat
      BY <1>3, Division
    <3> QED
      BY <1>4, <3>1 DEF First, range
  <2> QED
    BY <1>1, <1>5, <2>1 DEF JobOK
<1>12. ResultsOK
  BY <1>1, <1>5 DEF ResultsOK
<1>13. Has(<<>>, 0, TRUE)
  BY HasNothing
<1>14. TextOK
  BY <1>1, <1>13 DEF TextOK, Has
<1>15. RelayOK
  <2>1. Has(<<>>, 1 - 1, FALSE)
    <3>1. Has(<<>>, 0, FALSE)
      BY HasNothing
    <3>2. 1 - 1 = 0
      OBVIOUS
    <3> QED
      BY <3>1, <3>2
  <2>2. \A i \in 1 .. 1 - 1 : (i \in {}) # (\E j \in 1 .. Len(<<>>) : (<<>>)[j] = i)
    OBVIOUS
  <2>3. taken \subseteq 1 .. curr - 1
    BY <1>1
  <2>4. /\ call = "none" /\ stage = "rest" /\ curr = 1 /\ out.source = <<>> /\ taken = {}
        /\ ~ended /\ ~broken
    BY <1>1
  <2> QED
    BY <2>1, <2>2, <2>3, <2>4 DEF RelayOK
<1> QED
  BY <1>6, <1>7, <1>8, <1>9, <1>10, <1>11, <1>12, <1>14, <1>15 DEF IInv, ConsoleOK

LEMMA Stutters ==
    ASSUME IInv, UNCHANGED consoleVars
    PROVE  IInv'
<1>1. UNCHANGED <<outVars, parVars, printVars, relayVars>>
  BY DEF consoleVars
<1>2. /\ OutOK' /\ PrintOK' /\ SourceOK' /\ TodoOK' /\ TmpOK' /\ RelayOK' /\ NextPlace' = NextPlace
  BY <1>1, Outside
<1>3. /\ threads' = threads /\ job' = job /\ cuts' = cuts /\ own' = own
      /\ results' = results /\ running' = running /\ written' = written
      /\ out' = out /\ call' = call /\ given' = given /\ trouble' = trouble /\ faulty' = faulty
      /\ direct' = direct /\ tmp' = tmp /\ left' = left
  BY <1>1 DEF parVars, outVars, printVars, relayVars
<1>4. ParOK'
  BY <1>3 DEF IInv, ConsoleOK, ParOK, elements
<1>5. JobOK'
  BY <1>2, <1>3 DEF IInv, JobOK, First, range, elements
<1>6. ResultsOK'
  <2>1. \A i : First(i)' = First(i) /\ Share(i)' = Share(i) /\ Room(i)' = Room(i)
    BY <1>3, SharesStay
  <2>2. \A i : Span(Room(i))' = Span(Room(i))
    BY <2>1 DEF Span
  <2> QED
    BY <1>3, <2>1, <2>2 DEF IInv, ResultsOK
<1>7. TextOK'
  <2>1. Reached' = Reached
    BY <1>2, <1>3 DEF Reached, First, range, remainder, elements
  <2> QED
    BY <1>3, <2>1 DEF IInv, TextOK
<1> QED
  BY <1>2, <1>4, <1>5, <1>6, <1>7 DEF IInv, ConsoleOK

LEMMA PrintStepKeeps ==
    ASSUME IInv, PrintNext, UNCHANGED relayVars
    PROVE  IInv'
BY PrintKeeps, PrintlnKeeps, PutNextKeeps, PrintArgKeeps, ReturnKeeps, PrintThrowsKeeps,
   BeginParallelKeeps, SpawnKeeps, SpawnThrowsKeeps, OwnElementKeeps, OwnKeeps, OwnThrowsKeeps,
   JoinKeeps, CollectKeeps, ParallelThrowsKeeps, PrintOutKeeps DEF PrintNext, PrintStep

LEMMA RelayStepKeeps ==
    ASSUME IInv, RelayNext, UNCHANGED <<parVars, printVars>>
    PROVE  IInv'
BY GetKeeps, UnderflowKeeps, TransmitKeeps, WriteAllKeeps, WriteRestKeeps, RefillKeeps,
   RefillThrowsKeeps, WriteBlockKeeps, RelayThrowsKeeps, WriteSomeKeeps, AllWrittenKeeps,
   WriteAllThrowsKeeps DEF RelayNext, RelayStep

LEMMA Invariance == ConsoleSpec => []IInv
<1>1. ConsoleInit => IInv
  BY Initially
<1>2. IInv /\ [ConsoleNext]_consoleVars => IInv'
  <2> SUFFICES ASSUME IInv, [ConsoleNext]_consoleVars PROVE IInv'
    OBVIOUS
  <2>1. CASE PrintNext /\ UNCHANGED relayVars
    BY <2>1, PrintStepKeeps
  <2>2. CASE ~tmp.wild /\ RelayNext /\ UNCHANGED <<parVars, printVars>>
    BY <2>2, RelayStepKeeps
  <2>3. CASE UNCHANGED consoleVars
    BY <2>3, Stutters
  <2> QED
    BY <2>1, <2>2, <2>3 DEF ConsoleNext
<1> QED
  BY <1>1, <1>2, PTL DEF ConsoleSpec

\* What is printed reaches the stream in the order in which it was given and each
\* character once, and all of it unless a write of that call came short or something
\* threw in it: whatever the arguments, however many threads print the elements of a
\* range, and however the call ends (print, println, write_all).
THEOREM TextKept == ConsoleSpec => []TextInOrder
<1>1. IInv => TextInOrder
  <2> SUFFICES ASSUME IInv PROVE TextInOrder
    OBVIOUS
  <2>1. ConsoleOK /\ OutOK /\ TextOK
    BY DEF IInv, ConsoleOK
  <2>2. call \notin {"print", "all"} => call \in {"none", "relay"}
    BY <2>1 DEF OutOK
  <2>3. PrintedInOrder
    BY <2>1, <2>2 DEF PrintedInOrder, TextOK
  <2> QED
    BY <2>1, <2>3 DEF TextInOrder
<1> QED
  BY <1>1, Invariance, PTL

\* A text is only copied beyond the temporary buffer when it is longer than the static
\* block, the span of a thread is always large enough for its share, and the caller of
\* a parallel print keeps the spans until the threads that write into them have ended.
THEOREM MemoryKept == ConsoleSpec => []MemoryIsThere
<1>1. IInv => MemoryIsThere
  <2> SUFFICES ASSUME IInv PROVE MemoryIsThere
    OBVIOUS
  <2>1. InsideTheBlock
    BY DEF IInv, TmpOK, Inside, ResultsOK, InsideTheBlock
  <2>2. ResultsOutliveThreads
    BY DEF IInv, JobOK, ResultsOutliveThreads
  <2> QED
    BY <2>1, <2>2 DEF MemoryIsThere
<1> QED
  BY <1>1, Invariance, PTL

\* transmit_once and the client that reads the same source get every character of it
\* exactly once between them, and all of them by the time the relay finds nothing more,
\* unless a write came short or something threw; and only a refill that throws can make
\* the relay repeat what it has written.
THEOREM RelayKept == ConsoleSpec => []RelayedOnce
<1>1. IInv => RelayedOnce
  <2> SUFFICES ASSUME IInv PROVE RelayedOnce
    OBVIOUS
  <2> DEFINE done == IF stage = "refill" THEN end ELSE curr
  <2>1. /\ ~broken => Has(out.source, done - 1, FALSE)
        /\ "source" \notin faulty =>
            /\ \A i \in 1 .. done - 1 : (i \in taken) # (\E j \in 1 .. Len(out.source) : out.source[j] = i)
            /\ ended => curr = SourceLength + 1
    BY DEF IInv, RelayOK
  <2>2. \A i \in 1 .. curr - 1 : i \in 1 .. done - 1
    BY RelayAssumption DEF IInv, ConsoleOK, SourceOK
  <2> HIDE DEF done
  <2> QED
    BY <2>1, <2>2 DEF RelayedOnce, Has
<1> QED
  BY <1>1, Invariance, PTL
================================================================================
