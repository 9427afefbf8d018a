--------------------------- MODULE MutexStreamProofs ---------------------------
(***************************************************************************)
(* Proofs about basic_iomutex for any number of threads, streams and       *)
(* calls: who holds which mutex, and that calls take effect at once.       *)
(***************************************************************************)
EXTENDS MutexStream, SequenceTheorems, TLAPS

Running(t) == pc[t] \in {"run", "half"}
Takes(t) == Running(t) /\ call[t].op # "print"

PieceSeq(t, m) == [k \in 1..m |-> [by |-> t, part |-> k]]
FieldSeq(s, p, m) == [k \in 1..m |-> [from |-> s, at |-> p + k]]

Owned == \A t \in Thread, s \in Stream : owner[s] = t <=> s \in Held(t)

Typed ==
    /\ pc \in [Thread -> {"idle", "lockOut", "lockIn", "run", "half", "unlock"}]
    /\ call \in [Thread -> Calls]
    /\ done \in [Thread -> Nat]
    /\ calls \in [Thread -> 0..MaxCalls]
    /\ log \in [Sinks -> Seq(Entry)] /\ log0 \in [Sinks -> Seq(Entry)]
    /\ taken \in [Stream -> Nat] /\ taken0 \in [Stream -> Nat]
    /\ block \in [Stream -> 0..Room]
    /\ threw \in [Thread -> BOOLEAN]
    /\ owner \in [Stream -> Thread \cup {None}]

-------------------------------------------------------------------------------
(* Calls and the mutexes of threads *)

LEMMA CallFacts ==
    ASSUME NEW c \in Calls
    PROVE  /\ c.op \in {"print", "scan", "transmit"}
           /\ c.op # "scan" => c.out \in Stream
           /\ c.op # "print" => c.in \in Stream
           /\ c.op # "transmit" => c.n \in Nat
BY CallsAssumption, BufferedAssumption

LEMMA SinkFacts ==
    ASSUME Typed, NEW t \in Thread
    PROVE  /\ call[t] \in Calls
           /\ Sink(t) \in Sinks
           /\ call[t].op = "scan" => Sink(t) = t /\ Sink(t) \notin Stream
           /\ call[t].op # "scan" => Sink(t) = call[t].out /\ Sink(t) \in Stream
           /\ Inner(t) \in Stream
<1>1. call[t] \in Calls
    BY DEF Typed
<1> QED
    BY <1>1, CallFacts, NamesAssumption DEF Sink, Sinks, Inner

\* Two calls that run write to different places and read different streams.
LEMMA Exclusive ==
    ASSUME Typed, Owned, NEW t \in Thread, NEW u \in Thread, t # u,
           Running(t), Running(u)
    PROVE  /\ Sink(t) # Sink(u)
           /\ Takes(t) /\ Takes(u) => call[t].in # call[u].in
<1>1. \A v \in {t, u} : /\ Sink(v) \in Stream => Sink(v) \in Held(v)
                        /\ Takes(v) => call[v].in \in Held(v)
  <2> TAKE v \in {t, u}
  <2>1. /\ call[v] \in Calls /\ pc[v] \in {"run", "half"}
        /\ call[v].op = "scan" => Sink(v) \notin Stream
        /\ call[v].op # "scan" => Sink(v) = call[v].out
    BY SinkFacts DEF Running
  <2>2. Held(v) = IF call[v].op = "transmit" THEN {call[v].out, call[v].in}
                  ELSE {Inner(v)}
    BY <2>1 DEF Held
  <2>3. call[v].op \in {"print", "scan", "transmit"}
    BY <2>1, CallFacts
  <2> QED
    BY <2>1, <2>2, <2>3 DEF Takes, Inner
<1>2. \A s \in Stream : ~(s \in Held(t) /\ s \in Held(u))
    BY DEF Owned
<1>3. \A v \in {t, u} : /\ Sink(v) \notin Stream => Sink(v) = v
                        /\ Takes(v) => call[v].in \in Stream
    BY SinkFacts, CallFacts DEF Takes
<1> QED
    BY <1>1, <1>2, <1>3, NamesAssumption

Disjoint ==
    \A t, u \in Thread : t # u /\ Running(t) /\ Running(u) =>
        /\ Sink(t) # Sink(u)
        /\ Takes(t) /\ Takes(u) => call[t].in # call[u].in

LEMMA Exclusion == Typed /\ Owned => Disjoint
BY Exclusive DEF Disjoint

LEMMA HeldSame ==
    ASSUME NEW u, pc'[u] = pc[u], call'[u] = call[u]
    PROVE  Held(u)' = Held(u)
BY DEF Held, Inner

\* A free mutex is taken.
LEMMA AcquireOwned ==
    ASSUME Typed, Owned, NEW t \in Thread, NEW s \in Stream,
           owner[s] = None, owner' = [owner EXCEPT ![s] = t],
           Held(t)' = Held(t) \cup {s},
           \A u \in Thread \ {t} : Held(u)' = Held(u)
    PROVE  Owned'
<1> SUFFICES ASSUME NEW u \in Thread, NEW r \in Stream
             PROVE  owner'[r] = u <=> r \in Held(u)'
    BY DEF Owned
<1>1. owner[r] = u <=> r \in Held(u)
    BY DEF Owned
<1>2. owner'[r] = IF r = s THEN t ELSE owner[r]
    BY DEF Typed
<1>3. s \notin Held(u)
    BY NamesAssumption DEF Owned
<1> QED
    BY <1>1, <1>2, <1>3

\* A mutex that is held is given back.
LEMMA ReleaseOwned ==
    ASSUME Typed, Owned, NEW t \in Thread, NEW s \in Stream,
           s \in Held(t), owner' = [owner EXCEPT ![s] = None],
           Held(t)' = Held(t) \ {s},
           \A u \in Thread \ {t} : Held(u)' = Held(u)
    PROVE  Owned'
<1> SUFFICES ASSUME NEW u \in Thread, NEW r \in Stream
             PROVE  owner'[r] = u <=> r \in Held(u)'
    BY DEF Owned
<1>1. owner[r] = u <=> r \in Held(u)
    BY DEF Owned
<1>2. owner'[r] = IF r = s THEN None ELSE owner[r]
    BY DEF Typed
<1>3. u # t => s \notin Held(u)
    BY DEF Owned
<1>4. u # None
    BY NamesAssumption
<1> QED
    BY <1>1, <1>2, <1>3, <1>4

LEMMA SameOwned ==
    ASSUME Typed, Owned, UNCHANGED owner,
           \A u \in Thread : Held(u)' = Held(u)
    PROVE  Owned'
BY DEF Owned

-------------------------------------------------------------------------------
(* The sequences that calls write *)

LEMMA PieceSeqType ==
    ASSUME NEW t \in Thread, NEW m \in Nat
    PROVE  PieceSeq(t, m) \in Seq(Entry)
<1>1. \A k \in 1..m : [by |-> t, part |-> k] \in Entry
    BY DEF Entry
<1> QED
    BY <1>1 DEF PieceSeq

LEMMA FieldSeqType ==
    ASSUME NEW s \in Stream, NEW p \in Nat, NEW m \in Nat
    PROVE  FieldSeq(s, p, m) \in Seq(Entry)
<1>1. \A k \in 1..m : [from |-> s, at |-> p + k] \in Entry
    BY DEF Entry
<1> QED
    BY <1>1 DEF FieldSeq

\* z is x and then y.
Joined(x, y, z) ==
    /\ x \in Seq(Entry) /\ y \in Seq(Entry) /\ z \in Seq(Entry)
    /\ Len(z) = Len(x) + Len(y)
    /\ \A j \in 1..Len(x) : x[j] = z[j]
    /\ \A j \in 1..Len(y) : y[j] = z[Len(x) + j]

Follows(q, x, y, z) == (q \o x) \o y = q \o z

LEMMA Joins ==
    \A q, x, y, z : q \in Seq(Entry) /\ Joined(x, y, z) => Follows(q, x, y, z)
<1> SUFFICES ASSUME NEW q \in Seq(Entry), NEW x, NEW y, NEW z, Joined(x, y, z)
             PROVE  (q \o x) \o y = q \o z
    BY DEF Follows
<1> USE DEF Joined
<1>0. Len(x) \in Nat /\ Len(y) \in Nat
    BY LenProperties
<1>1. x \o y = z
  <2>1. /\ x \o y \in Seq(Entry) /\ Len(x \o y) = Len(x) + Len(y)
        /\ \A i \in 1..(Len(x) + Len(y)) :
              (x \o y)[i] = IF i <= Len(x) THEN x[i] ELSE y[i - Len(x)]
    BY ConcatProperties
  <2>2. ASSUME NEW i \in 1..(Len(x) + Len(y))
        PROVE  (x \o y)[i] = z[i]
    <3>1. CASE i <= Len(x)
      BY <1>0, <2>1, <3>1
    <3>2. CASE ~(i <= Len(x))
      <4>1. i - Len(x) \in 1..Len(y) /\ Len(x) + (i - Len(x)) = i
        BY <1>0, <3>2
      <4>2. y[i - Len(x)] = z[Len(x) + (i - Len(x))]
        BY <4>1
      <4> QED
        BY <2>1, <3>2, <4>1, <4>2
    <3> QED
      BY <3>1, <3>2
  <2> QED
    BY <2>1, <2>2, SeqEqual
<1>2. (q \o x) \o y = q \o (x \o y)
    BY ConcatAssociative
<1> QED
    BY <1>1, <1>2

\* k more pieces follow q and the first m.
LEMMA MorePieces ==
    ASSUME NEW t \in Thread, NEW m \in Nat, NEW k \in Nat, NEW q \in Seq(Entry)
    PROVE  (q \o PieceSeq(t, m)) \o [j \in 1..k |-> [by |-> t, part |-> m + j]]
             = q \o PieceSeq(t, m + k)
<1> DEFINE x == PieceSeq(t, m)
           y == [j \in 1..k |-> [by |-> t, part |-> m + j]]
           z == PieceSeq(t, m + k)
<1>0. m + k \in Nat
    OBVIOUS
<1>1. x \in Seq(Entry) /\ z \in Seq(Entry)
    BY <1>0, PieceSeqType
<1>2. \A j \in 1..k : [by |-> t, part |-> m + j] \in Entry
    BY DEF Entry
<1>3. y \in Seq(Entry) /\ Len(x) = m /\ Len(y) = k /\ Len(z) = m + k
    BY <1>0, <1>2 DEF PieceSeq
<1>4. /\ \A j \in 1..m : x[j] = z[j]
      /\ \A j \in 1..k : y[j] = z[m + j]
    BY DEF PieceSeq
<1> HIDE DEF x, y, z
<1>5. Joined(x, y, z)
    BY <1>1, <1>3, <1>4 DEF Joined
<1>6. Follows(q, x, y, z)
    BY <1>5, Joins
<1> QED
    BY <1>6 DEF x, y, z, Follows

\* k more fields follow q and the first m.
LEMMA MoreFields ==
    ASSUME NEW s \in Stream, NEW p \in Nat, NEW m \in Nat, NEW k \in Nat,
           NEW r \in Nat, r = p + m, NEW q \in Seq(Entry)
    PROVE  Follows(q, FieldSeq(s, p, m), FieldSeq(s, r, k), FieldSeq(s, p, m + k))
<1> DEFINE x == FieldSeq(s, p, m)
           y == FieldSeq(s, r, k)
           z == FieldSeq(s, p, m + k)
<1>0. m + k \in Nat
    OBVIOUS
<1>1. x \in Seq(Entry) /\ y \in Seq(Entry) /\ z \in Seq(Entry)
    BY <1>0, FieldSeqType
<1>3. Len(x) = m /\ Len(y) = k /\ Len(z) = m + k
    BY <1>0 DEF FieldSeq
<1>4. /\ \A j \in 1..m : x[j] = z[j]
      /\ \A j \in 1..k : y[j] = z[m + j]
    BY DEF FieldSeq
<1> HIDE DEF x, y, z
<1>5. Joined(x, y, z)
    BY <1>1, <1>3, <1>4 DEF Joined
<1>6. Follows(q, x, y, z)
    BY <1>5, Joins
<1> QED
    BY <1>6 DEF x, y, z

LEMMA NothingYet ==
    ASSUME NEW q \in Seq(Entry), NEW t, NEW s, NEW p
    PROVE  q \o PieceSeq(t, 0) = q /\ q \o FieldSeq(s, p, 0) = q
<1>1. PieceSeq(t, 0) = <<>> /\ FieldSeq(s, p, 0) = <<>>
    BY DEF PieceSeq, FieldSeq
<1> QED
    BY <1>1, ConcatEmptySeq

-------------------------------------------------------------------------------
(* The inductive invariant: the log of a call that runs is what was there when *)
(* it got its mutexes, and what it has done since.  A transmit has given what  *)
(* it has taken, but in its middle: with a block it is ahead of what it has    *)
(* taken by the block, with an array it is behind by the array.                *)

In(t) == call[t].in

Since(t) == taken[In(t)] - taken0[In(t)]

Given(t) ==
    IF pc[t] # "half" THEN Since(t)
    ELSE IF In(t) \in Buffered THEN Since(t) + block[In(t)]
    ELSE Since(t) - block[In(t)]

Does(t) ==
    /\ done[t] <= Args(t)
    /\ call[t].op = "print" => log[Sink(t)] = log0[Sink(t)] \o PieceSeq(t, done[t])
    /\ call[t].op # "print" =>
        /\ Given(t) \in Nat
        /\ log[Sink(t)] = log0[Sink(t)] \o FieldSeq(In(t), taken0[In(t)], Given(t))
    /\ call[t].op = "scan" => done[t] = Since(t)
    /\ call[t].op = "transmit" => call[t].out # In(t)
    /\ call[t].op = "transmit" /\ done[t] = 1 =>
        pc[t] = "run" /\ taken[In(t)] = Length[In(t)]

Fine(t) ==
    /\ pc[t] \in {"lockOut", "lockIn"} => done[t] = 0
    /\ pc[t] = "lockOut" => call[t].op # "scan"
    /\ pc[t] = "lockIn" => call[t].op # "print"
    /\ pc[t] \in {"half", "unlock"} => call[t].op = "transmit"
    /\ Running(t) => Does(t)

\* Where no call runs, the history is what is there.
Settled ==
    /\ \A x \in Sinks :
        (\A t \in Thread : Running(t) => Sink(t) # x) => log[x] = log0[x]
    /\ \A s \in Stream :
        (\A t \in Thread : Takes(t) => call[t].in # s) => taken[s] = taken0[s]

Bounded(s) ==
    /\ taken0[s] <= taken[s] /\ taken[s] <= Length[s]
    /\ s \in Buffered => taken[s] + block[s] <= Length[s]

Bounds == \A s \in Stream : Bounded(s)

IInv ==
    /\ Typed
    /\ Owned
    /\ \A t \in Thread : Fine(t)
    /\ Settled
    /\ Bounds

\* What a step of t may change.
Touches(t) ==
    /\ \A x \in Sinks : (Running(t) => x # Sink(t)) =>
            log'[x] = log[x] /\ log0'[x] = log0[x]
    /\ \A s \in Stream : (Takes(t) => s # call[t].in) =>
            taken'[s] = taken[s] /\ taken0'[s] = taken0[s] /\ block'[s] = block[s]

LEMMA TouchesNothing ==
    ASSUME NEW t, UNCHANGED <<log, taken, block, log0, taken0>>
    PROVE  Touches(t)
BY DEF Touches

\* A step of t leaves what other calls rely on alone.
LEMMA OthersFine ==
    ASSUME IInv, NEW t \in Thread, NEW u \in Thread, u # t,
           pc'[u] = pc[u], call'[u] = call[u], done'[u] = done[u], Touches(t)
    PROVE  Fine(u)'
<1>1. Typed /\ Owned /\ Fine(u)
    BY DEF IInv
<1>2. /\ Running(u)' = Running(u) /\ Sink(u)' = Sink(u)
      /\ In(u)' = In(u) /\ Args(u)' = Args(u)
    BY DEF Running, Sink, In, Args
<1>3. CASE ~Running(u)
    BY <1>1, <1>2, <1>3 DEF Fine
<1>4. CASE Running(u)
  <2>1. Sink(u) \in Sinks /\ (Running(t) => Sink(u) # Sink(t))
    BY <1>1, <1>4, SinkFacts, Exclusive
  <2>2. log'[Sink(u)] = log[Sink(u)] /\ log0'[Sink(u)] = log0[Sink(u)]
    BY <2>1 DEF Touches
  <2>3. CASE call[u].op = "print"
    <3>1. Does(u) /\ pc[u] \notin {"lockOut", "lockIn", "half", "unlock"}
      BY <1>1, <1>4, <2>3 DEF Fine, Running
    <3>2. Does(u)'
      BY <1>2, <2>2, <2>3, <3>1 DEF Does
    <3> QED
      BY <3>1, <3>2 DEF Fine
  <2>4. CASE call[u].op # "print"
    <3>1. Takes(u) /\ In(u) \in Stream
      BY <1>1, <1>4, <2>4, SinkFacts, CallFacts DEF Takes, In
    <3>2. Takes(t) => In(u) # call[t].in
      BY <1>1, <1>4, <3>1, Exclusive DEF Takes, In
    <3>3. /\ taken'[In(u)] = taken[In(u)] /\ taken0'[In(u)] = taken0[In(u)]
          /\ block'[In(u)] = block[In(u)]
      BY <3>1, <3>2 DEF Touches
    <3>4. Since(u)' = Since(u) /\ Given(u)' = Given(u)
      BY <1>2, <3>3 DEF Since, Given
    <3>5. Does(u)
      BY <1>1, <1>4 DEF Fine
    <3>6. Does(u)'
      BY <1>2, <2>2, <2>4, <3>3, <3>4, <3>5 DEF Does
    <3> QED
      BY <1>1, <1>2, <3>6 DEF Fine
  <2> QED
    BY <2>3, <2>4
<1> QED
    BY <1>3, <1>4

LEMMA BeginOK ==
    ASSUME IInv, NEW t \in Thread, NEW c \in Calls, Begin(t, c)
    PROVE  IInv'
<1>1. /\ Typed /\ Owned /\ pc[t] = "idle" /\ UNCHANGED <<owner, content, history>>
      /\ call' = [call EXCEPT ![t] = c] /\ done' = [done EXCEPT ![t] = 0]
      /\ calls[t] < MaxCalls /\ calls' = [calls EXCEPT ![t] = @ + 1]
      /\ pc' = [pc EXCEPT ![t] = IF c.op = "scan" THEN "lockIn" ELSE "lockOut"]
    BY DEF IInv, Begin
<1>2. Typed'
  <2>1. calls[t] + 1 \in 0..MaxCalls
    BY <1>1, MaxCallsAssumption DEF Typed
  <2> QED
    BY <1>1, <2>1 DEF Typed, content, history
<1>3. pc'[t] = (IF c.op = "scan" THEN "lockIn" ELSE "lockOut") /\ call'[t] = c
      /\ done'[t] = 0
    BY <1>1 DEF Typed
<1>4. \A u \in Thread \ {t} :
        pc'[u] = pc[u] /\ call'[u] = call[u] /\ done'[u] = done[u]
    BY <1>1 DEF Typed
<1>5. Held(t) = {} /\ Held(t)' = {}
    BY <1>1, <1>3, CallFacts DEF Held
<1>6. Owned'
    BY <1>1, <1>4, <1>5, HeldSame, SameOwned
<1>7. \A u \in Thread : Running(u)' = Running(u) /\ Takes(u)' = Takes(u)
        /\ (Running(u) => Sink(u)' = Sink(u) /\ call'[u] = call[u])
    BY <1>1, <1>3, <1>4 DEF Running, Takes, Sink
<1>8. Settled' /\ Bounds'
    BY <1>1, <1>7 DEF IInv, Settled, Bounds, Bounded, content, history, Takes
<1>9. \A u \in Thread \ {t} : Fine(u)'
    BY <1>1, <1>4, OthersFine, TouchesNothing DEF content, history
<1>10. Fine(t)'
    BY <1>3 DEF Fine, Running
<1> QED
    BY <1>2, <1>6, <1>8, <1>9, <1>10 DEF IInv

\* What a call finds when it gets its last mutex.
LEMMA EnterFine ==
    ASSUME IInv, Typed', Owned', NEW t \in Thread, ~Running(t), pc'[t] = "run",
           done[t] = 0, call[t].op \in {"print", "scan", "transmit"},
           call[t].op = "transmit" => call[t].out # call[t].in,
           UNCHANGED <<call, done, content, history>>,
           \A u \in Thread \ {t} : pc'[u] = pc[u]
    PROVE  Fine(t)'
<1>0. \A v, u \in Thread : v # u /\ Running(v)' /\ Running(u)' =>
            /\ Sink(v)' # Sink(u)'
            /\ Takes(v)' /\ Takes(u)' => call'[v].in # call'[u].in
  <2>1. (Typed /\ Owned => Disjoint)'
    BY Exclusion, PTL
  <2> QED
    BY <2>1 DEF Disjoint
<1>1. Typed /\ call[t] \in Calls /\ Sink(t) \in Sinks /\ Sink(t)' = Sink(t)
      /\ Running(t)'
    BY SinkFacts DEF IInv, Sink, Running
<1>2. \A u \in Thread : Running(u) => Sink(u) # Sink(t)
  <2> SUFFICES ASSUME NEW u \in Thread, Running(u) PROVE Sink(u) # Sink(t)
      OBVIOUS
  <2>1. u # t /\ Running(u)' /\ Sink(u)' = Sink(u)
    BY DEF Running, Sink
  <2> QED
    BY <1>0, <1>1, <2>1
<1>3. \A u \in Thread : Takes(t)' /\ Takes(u) => call[u].in # call[t].in
  <2> SUFFICES ASSUME NEW u \in Thread, Takes(t)', Takes(u)
               PROVE  call[u].in # call[t].in
      OBVIOUS
  <2>1. u # t /\ Running(u)' /\ Takes(u)'
    BY DEF Running, Takes
  <2> QED
    BY <1>0, <1>1, <2>1
<1>4. log[Sink(t)] = log0[Sink(t)] /\ log0[Sink(t)] \in Seq(Entry)
    BY <1>1, <1>2 DEF IInv, Settled, Typed
<1>5. call[t].op # "print" =>
        /\ In(t) \in Stream
        /\ taken[In(t)] = taken0[In(t)]
        /\ taken[In(t)] \in Nat
  <2>1. call[t].op # "print" => Takes(t)'
    BY <1>1 DEF Takes
  <2> QED
    BY <1>1, <1>3, <2>1, CallFacts DEF IInv, Settled, Typed, In
<1>6. 0 <= Args(t)
    BY <1>1, CallFacts DEF Args
<1>7. /\ log0[Sink(t)] \o PieceSeq(t, 0) = log0[Sink(t)]
      /\ \A s, p : log0[Sink(t)] \o FieldSeq(s, p, 0) = log0[Sink(t)]
    BY <1>4, NothingYet
<1>8. call[t].op # "print" => Since(t) = 0
    BY <1>5 DEF Since
<1>9. UNCHANGED <<call, done, log, log0, taken, taken0, block>>
    BY DEF content, history
<1>10. /\ Sink(t)' = Sink(t) /\ In(t)' = In(t) /\ Args(t)' = Args(t)
       /\ Since(t)' = Since(t) /\ Given(t)' = Since(t)
    BY <1>1, <1>9 DEF In, Args, Since, Given
<1>11. Does(t)'
  <2>1. CASE call[t].op = "print"
    BY <1>4, <1>6, <1>7, <1>9, <1>10, <2>1 DEF Does
  <2>2. CASE call[t].op # "print"
    <3>1. Given(t)' = 0
      BY <1>8, <1>10, <2>2
    <3>2. log'[Sink(t)'] = log0'[Sink(t)'] \o FieldSeq(In(t)', taken0'[In(t)'], Given(t)')
      BY <1>4, <1>7, <1>9, <1>10, <3>1
    <3>3. /\ done'[t] <= Args(t)' /\ Given(t)' \in Nat
          /\ done'[t] = Since(t)' /\ done'[t] # 1
      BY <1>6, <1>8, <1>9, <1>10, <2>2, <3>1
    <3>4. call'[t].op = "transmit" => call'[t].out # In(t)'
      BY <1>9 DEF In
    <3>5. call'[t].op # "print"
      BY <1>9, <2>2
    <3> QED
      BY <3>2, <3>3, <3>4, <3>5, Zenon DEF Does
  <2> QED
    BY <2>1, <2>2
<1> QED
    BY <1>11 DEF Fine

-------------------------------------------------------------------------------
(* The actions *)

\* A mutex is taken, and the call waits for another or runs.
LEMMA AcquireOK ==
    ASSUME IInv, NEW t \in Thread, NEW s \in Stream, NEW next,
           Acquire(t, s, next), pc[t] \in {"lockOut", "lockIn"},
           next \in {"lockIn", "run"}, Held(t)' = Held(t) \cup {s},
           next = "lockIn" => call[t].op # "print",
           next = "run" /\ call[t].op = "transmit" => call[t].out # call[t].in
    PROVE  IInv'
<1>1. /\ Typed /\ Owned /\ done[t] = 0 /\ ~Running(t)
      /\ call[t].op \in {"print", "scan", "transmit"}
    BY SinkFacts, CallFacts DEF IInv, Fine, Running
<1>2. /\ owner[s] = None /\ owner' = [owner EXCEPT ![s] = t]
      /\ pc' = [pc EXCEPT ![t] = next]
      /\ UNCHANGED <<call, done, calls, content, history>>
    BY DEF Acquire
<1>3. Typed'
    BY <1>1, <1>2 DEF Typed, content, history
<1>4. pc'[t] = next /\ \A u \in Thread \ {t} : pc'[u] = pc[u]
    BY <1>1, <1>2 DEF Typed
<1>5. Owned'
    BY <1>1, <1>2, <1>4, HeldSame, AcquireOwned
<1>6. \A u \in Thread : (Running(u) => Running(u)') /\ Sink(u)' = Sink(u)
        /\ (Takes(u) => Takes(u)')
    BY <1>1, <1>2, <1>4 DEF Running, Takes, Sink
<1>7. Settled' /\ Bounds'
    BY <1>2, <1>6 DEF IInv, Settled, Bounds, Bounded, content, history
<1>8. \A u \in Thread \ {t} : Fine(u)'
    BY <1>2, <1>4, OthersFine, TouchesNothing DEF content, history
<1>9. Fine(t)'
  <2>1. CASE next = "run"
    BY <1>1, <1>2, <1>3, <1>4, <1>5, <2>1, EnterFine
  <2>2. CASE next = "lockIn"
    BY <1>1, <1>2, <1>4, <2>2 DEF Fine, Running
  <2> QED
    BY <2>1, <2>2
<1> QED
    BY <1>3, <1>5, <1>7, <1>8, <1>9 DEF IInv

LEMMA LockOutOK ==
    ASSUME IInv, NEW t \in Thread, LockOut(t)
    PROVE  IInv'
<1> DEFINE next == IF call[t].op = "print" THEN "run" ELSE "lockIn"
<1>1. /\ pc[t] = "lockOut" /\ Acquire(t, call[t].out, next)
      /\ call[t] \in Calls /\ Typed /\ call[t].op # "scan"
    BY SinkFacts DEF LockOut, IInv, Fine
<1>2. call[t].op \in {"print", "transmit"} /\ call[t].out \in Stream
    BY <1>1, CallFacts
<1>3. pc'[t] = next /\ call'[t] = call[t]
    BY <1>1 DEF Acquire, Typed
<1>4. Held(t) = {}
    BY <1>1 DEF Held
<1>5. Held(t)' = {call[t].out}
    BY <1>2, <1>3 DEF Held, Inner
<1> QED
    BY <1>1, <1>2, <1>4, <1>5, AcquireOK

LEMMA LockInOK ==
    ASSUME IInv, NEW t \in Thread, LockIn(t)
    PROVE  IInv'
<1>1. /\ pc[t] = "lockIn" /\ Acquire(t, call[t].in, "run")
      /\ call[t] \in Calls /\ Typed /\ Owned /\ call[t].op # "print"
    BY SinkFacts DEF LockIn, IInv, Fine
<1>2. call[t].op \in {"scan", "transmit"} /\ call[t].in \in Stream
    BY <1>1, CallFacts
<1>3. pc'[t] = "run" /\ call'[t] = call[t]
    BY <1>1 DEF Acquire, Typed
<1>4. Held(t) = IF call[t].op = "transmit" THEN {call[t].out} ELSE {}
    BY <1>1 DEF Held
<1>5. Held(t)' = Held(t) \cup {call[t].in}
  <2>1. CASE call[t].op = "scan"
    <3>1. Held(t)' = {call[t].in}
      BY <1>3, <2>1 DEF Held, Inner
    <3> QED
      BY <1>4, <2>1, <3>1
  <2>2. CASE call[t].op = "transmit"
    <3>1. Held(t)' = {call[t].out, call[t].in}
      BY <1>3, <2>2 DEF Held
    <3> QED
      BY <1>4, <2>2, <3>1
  <2> QED
    BY <1>2, <2>1, <2>2
\* A transmit from a stream to itself holds the mutex that it waits for.
<1>6. call[t].op = "transmit" => call[t].out # call[t].in
  <2>1. owner[call[t].in] = None /\ None # t
    BY <1>1, NamesAssumption DEF Acquire
  <2>2. call[t].in \notin Held(t)
    BY <1>1, <1>2, <2>1 DEF Owned
  <2> QED
    BY <1>4, <2>2
<1> QED
    BY <1>1, <1>2, <1>5, <1>6, AcquireOK

LEMMA UnlockOK ==
    ASSUME IInv, NEW t \in Thread, Unlock(t)
    PROVE  IInv'
<1>1. /\ Typed /\ Owned /\ pc[t] = "unlock" /\ call[t] \in Calls
      /\ call[t].op = "transmit" /\ call[t].out \in Stream
      /\ owner' = [owner EXCEPT ![call[t].out] = None]
      /\ pc' = [pc EXCEPT ![t] = "idle"]
      /\ UNCHANGED <<call, done, calls, content, history>>
    BY SinkFacts, CallFacts DEF IInv, Fine, Unlock
<1>2. Typed'
    BY <1>1 DEF Typed, content, history
<1>3. pc'[t] = "idle" /\ \A u \in Thread \ {t} : pc'[u] = pc[u]
    BY <1>1 DEF Typed
<1>4. Held(t) = {call[t].out} /\ Held(t)' = {}
    BY <1>1, <1>3 DEF Held
<1>5. Owned'
    BY <1>1, <1>3, <1>4, HeldSame, ReleaseOwned
<1>6. \A u \in Thread : Running(u)' = Running(u) /\ Takes(u)' = Takes(u)
        /\ Sink(u)' = Sink(u)
    BY <1>1, <1>3 DEF Running, Takes, Sink
<1>7. Settled' /\ Bounds'
    BY <1>1, <1>6 DEF IInv, Settled, Bounds, Bounded, content, history
<1>8. \A u \in Thread \ {t} : Fine(u)'
    BY <1>1, <1>3, OthersFine, TouchesNothing DEF content, history
<1>9. Fine(t)'
    BY <1>3 DEF Fine, Running
<1> QED
    BY <1>2, <1>5, <1>7, <1>8, <1>9 DEF IInv

\* What a call that reads finds in its locks.
LEMMA TakerFacts ==
    ASSUME IInv, NEW t \in Thread, Running(t), call[t].op # "print"
    PROVE  /\ Takes(t) /\ Does(t) /\ In(t) \in Stream /\ In(t) = call[t].in
           /\ Sink(t) \in Sinks /\ call[t] \in Calls
           /\ taken[In(t)] \in Nat /\ taken0[In(t)] \in Nat /\ Length[In(t)] \in Nat
           /\ block[In(t)] \in Nat /\ block[In(t)] <= Room /\ Room \in Nat
           /\ Given(t) \in Nat /\ Since(t) \in Nat
           /\ taken[In(t)] = taken0[In(t)] + Since(t)
           /\ Bounded(In(t))
<1>1. /\ Takes(t) /\ Does(t) /\ call[t] \in Calls /\ Typed /\ Bounds
      /\ Sink(t) \in Sinks
    BY SinkFacts DEF IInv, Takes, Fine
<1>2. In(t) \in Stream /\ In(t) = call[t].in
    BY <1>1, CallFacts DEF In
<1>3. /\ taken[In(t)] \in Nat /\ taken0[In(t)] \in Nat /\ Length[In(t)] \in Nat
      /\ block[In(t)] \in 0..Room /\ Room \in Nat
    BY <1>1, <1>2, LengthAssumption, RoomAssumption DEF Typed
<1>4. Bounded(In(t))
    BY <1>1, <1>2 DEF Bounds
<1>5. Since(t) \in Nat /\ taken[In(t)] = taken0[In(t)] + Since(t)
    BY <1>3, <1>4 DEF Since, Bounded
<1>6. Given(t) \in Nat
    BY <1>1 DEF Does
<1> QED
    BY <1>1, <1>2, <1>3, <1>4, <1>5, <1>6

\* The sink of t has m fields more than before the call.
Delivered(t, m) ==
    /\ log' \in [Sinks -> Seq(Entry)]
    /\ \A x \in Sinks : x # Sink(t) => log'[x] = log[x]
    /\ log'[Sink(t)] = log0[Sink(t)] \o FieldSeq(In(t), taken0[In(t)], m)

\* The input of t has n fields less than before the call, and a block of b.
Consumed(t, n, b) ==
    /\ b \in 0..Room
    /\ taken' = [taken EXCEPT ![In(t)] = taken0[In(t)] + n]
    /\ block' = [block EXCEPT ![In(t)] = b]
    /\ taken0[In(t)] + n <= Length[In(t)]
    /\ In(t) \in Buffered => taken0[In(t)] + n + b <= Length[In(t)]

\* k fields more are given to the sink.
LEMMA Gives ==
    ASSUME IInv, NEW t \in Thread, Running(t), call[t].op # "print",
           NEW k \in Nat, NEW p \in Nat, p = taken0[In(t)] + Given(t), Give(t, p, k)
    PROVE  Delivered(t, Given(t) + k)
<1> DEFINE x == Sink(t)
           i == In(t)
           m == Given(t)
           q == log0[x]
<1>1. /\ i \in Stream /\ x \in Sinks /\ taken0[i] \in Nat /\ m \in Nat /\ Typed
      /\ log[x] = q \o FieldSeq(i, taken0[i], m) /\ q \in Seq(Entry)
      /\ log[x] \in Seq(Entry)
    BY TakerFacts DEF IInv, Does, Typed
<1>2. log' = [log EXCEPT ![x] = @ \o FieldSeq(i, p, k)]
    BY DEF Give, FieldSeq, In
<1>3. FieldSeq(i, p, k) \in Seq(Entry)
    BY <1>1, FieldSeqType
<1>4. log[x] \o FieldSeq(i, p, k) \in Seq(Entry)
    BY <1>1, <1>3, ConcatProperties
<1>5. (q \o FieldSeq(i, taken0[i], m)) \o FieldSeq(i, p, k)
        = q \o FieldSeq(i, taken0[i], m + k)
  <2> DEFINE r == taken0[i]
  <2>1. p = r + m /\ r \in Nat
    BY <1>1
  <2>2. i \in Stream /\ m \in Nat /\ q \in Seq(Entry)
    BY <1>1
  <2> HIDE DEF x, i, m, q, r
  <2>3. Follows(q, FieldSeq(i, r, m), FieldSeq(i, p, k), FieldSeq(i, r, m + k))
    BY <2>1, <2>2, MoreFields
  <2> QED
    BY <2>3 DEF r, Follows
<1> HIDE DEF x, i, m, q
<1>6. log'[x] = q \o FieldSeq(i, taken0[i], m + k)
    BY <1>1, <1>2, <1>5 DEF Typed
<1>7. log' \in [Sinks -> Seq(Entry)] /\ \A y \in Sinks : y # x => log'[y] = log[y]
    BY <1>1, <1>2, <1>4 DEF Typed
<1> QED
    BY <1>6, <1>7 DEF x, i, m, q, Delivered

\* What stays as it is.
LEMMA Keeps ==
    ASSUME IInv, NEW t \in Thread, Running(t), call[t].op # "print"
    PROVE  /\ UNCHANGED log => Delivered(t, Given(t))
           /\ UNCHANGED <<taken, block>> => Consumed(t, Since(t), block[In(t)])
           /\ UNCHANGED pc => pc' = [pc EXCEPT ![t] = pc[t]]
           /\ UNCHANGED done => done' = [done EXCEPT ![t] = done[t]]
<1>1. Typed /\ Does(t)
    BY TakerFacts DEF IInv
<1>2. UNCHANGED log => Delivered(t, Given(t))
    BY <1>1 DEF Delivered, Does, Typed
<1>3. UNCHANGED <<taken, block>> => Consumed(t, Since(t), block[In(t)])
  <2>1. block[In(t)] \in 0..Room
    BY TakerFacts
  <2> QED
    BY <1>1, <2>1, TakerFacts DEF Consumed, Typed, Bounded
<1>4. /\ UNCHANGED pc => pc' = [pc EXCEPT ![t] = pc[t]]
      /\ UNCHANGED done => done' = [done EXCEPT ![t] = done[t]]
    BY <1>1 DEF Typed
<1> QED
    BY <1>2, <1>3, <1>4

\* k arguments more are printed.
LEMMA Prints ==
    ASSUME IInv, NEW t \in Thread, Running(t), call[t].op = "print",
           NEW k \in Nat, PrintMore(t, k)
    PROVE  /\ log' \in [Sinks -> Seq(Entry)]
           /\ \A x \in Sinks : x # Sink(t) => log'[x] = log[x]
           /\ log'[Sink(t)] = log0[Sink(t)] \o PieceSeq(t, done[t] + k)
<1> DEFINE x == Sink(t)
           m == done[t]
           q == log0[x]
           y == [j \in 1..k |-> [by |-> t, part |-> m + j]]
<1>1. /\ x \in Sinks /\ x = call[t].out /\ m \in Nat /\ Typed
      /\ log[x] = q \o PieceSeq(t, m) /\ q \in Seq(Entry) /\ log[x] \in Seq(Entry)
    BY SinkFacts DEF IInv, Fine, Does, Typed
<1>2. log' = [log EXCEPT ![x] = @ \o y]
    BY <1>1 DEF PrintMore
<1>3. y \in Seq(Entry)
  <2>1. \A j \in 1..k : [by |-> t, part |-> m + j] \in Entry
    BY <1>1 DEF Entry
  <2> QED
    BY <2>1
<1>4. log[x] \o y \in Seq(Entry)
    BY <1>1, <1>3, ConcatProperties
<1>5. (q \o PieceSeq(t, m)) \o y = q \o PieceSeq(t, m + k)
  <2> HIDE DEF x, m, q
  <2> QED
    BY <1>1, MorePieces
<1> HIDE DEF x, m, q, y
<1>6. log'[x] = q \o PieceSeq(t, m + k)
    BY <1>1, <1>2, <1>5 DEF Typed
<1>7. log' \in [Sinks -> Seq(Entry)] /\ \A z \in Sinks : z # x => log'[z] = log[z]
    BY <1>1, <1>2, <1>4 DEF Typed
<1> QED
    BY <1>6, <1>7 DEF x, m, q

\* A step in the locks changes what the call writes and what it reads.
Inside(t) ==
    /\ \A x \in Sinks : x # Sink(t) => log'[x] = log[x]
    /\ \A s \in Stream : (Takes(t) => s # call[t].in) =>
            taken'[s] = taken[s] /\ block'[s] = block[s]

\* The call goes on.
LEMMA InsideOK ==
    ASSUME IInv, Typed', NEW t \in Thread, Running(t), Running(t)', Inside(t),
           \A s \in Stream : Takes(t) /\ s = call[t].in => Bounded(s)',
           Does(t)', pc'[t] = "half" => call[t].op = "transmit",
           UNCHANGED <<owner, call, history>>,
           \A u \in Thread \ {t} : pc'[u] = pc[u] /\ done'[u] = done[u]
    PROVE  IInv'
<1>1. Typed /\ Owned /\ UNCHANGED <<log0, taken0>>
    BY DEF IInv, history
<1>2. \A u \in Thread : Running(u)' = Running(u) /\ Takes(u)' = Takes(u)
        /\ Sink(u)' = Sink(u)
    BY DEF Running, Takes, Sink
<1>3. Owned'
  <2>1. Held(t)' = Held(t)
    BY DEF Running, Held, Inner
  <2> QED
    BY <1>1, <2>1, HeldSame, SameOwned
<1>4. Settled'
  <2>1. ASSUME NEW y \in Sinks, \A u \in Thread : Running(u)' => Sink(u)' # y
        PROVE  log'[y] = log0'[y]
    <3>1. y # Sink(t)
      BY <1>2, <2>1
    <3> QED
      BY <1>1, <1>2, <2>1, <3>1 DEF IInv, Settled, Inside
  <2>2. ASSUME NEW s \in Stream,
               \A u \in Thread : Takes(u)' => call'[u].in # s
        PROVE  taken'[s] = taken0'[s]
    <3>1. Takes(t) => s # call[t].in
      BY <1>2, <2>2
    <3> QED
      BY <1>1, <1>2, <2>2, <3>1 DEF IInv, Settled, Inside
  <2> QED
    BY <2>1, <2>2 DEF Settled
<1>5. Bounds'
  <2>1. ASSUME NEW s \in Stream
        PROVE  Bounded(s)'
    BY <1>1 DEF IInv, Bounds, Bounded, Inside
  <2> QED
    BY <2>1 DEF Bounds
<1>6. Touches(t)
    BY <1>1 DEF Inside, Touches
<1>7. \A u \in Thread \ {t} : Fine(u)'
    BY <1>6, OthersFine
<1>8. Fine(t)'
  <2>1. pc'[t] \in {"run", "half"}
    BY DEF Running
  <2> QED
    BY <2>1 DEF Fine
<1> QED
    BY <1>3, <1>4, <1>5, <1>7, <1>8 DEF IInv

\* A call gives its inner mutex back: it has taken effect.
LEMMA ReleaseOK ==
    ASSUME IInv, NEW t \in Thread, NEW failed \in BOOLEAN, Running(t),
           Release(t, failed), Inside(t), log' \in [Sinks -> Seq(Entry)],
           taken' \in [Stream -> Nat], block' \in [Stream -> 0..Room],
           \A s \in Stream : Takes(t) /\ s = call[t].in =>
                /\ taken'[s] <= Length[s]
                /\ s \in Buffered => taken'[s] + block'[s] <= Length[s]
    PROVE  IInv'
<1> DEFINE x == Sink(t)
           i == call[t].in
           place == IF call[t].op = "transmit" THEN "unlock" ELSE "idle"
<1>1. /\ Typed /\ Owned /\ call[t] \in Calls /\ x \in Sinks
      /\ Inner(t) \in Stream /\ pc[t] \in {"run", "half"}
      /\ call[t].op \in {"print", "scan", "transmit"}
      /\ call[t].op # "print" => i \in Stream
      /\ call[t].op = "transmit" => call[t].out # i
      /\ call[t].op # "print" <=> Takes(t)
    BY SinkFacts, CallFacts DEF IInv, Running, Fine, Does, In, Takes
<1>2. /\ owner' = [owner EXCEPT ![Inner(t)] = None]
      /\ pc' = [pc EXCEPT ![t] = place]
      /\ threw' = [threw EXCEPT ![t] = failed]
      /\ log0' = [log0 EXCEPT ![x] = log'[x]]
      /\ call[t].op = "print" => taken0' = taken0
      /\ call[t].op # "print" => taken0' = [taken0 EXCEPT ![i] = taken'[i]]
      /\ UNCHANGED <<call, done, calls>>
    BY DEF Release
<1>3. /\ pc'[t] = place /\ log0'[x] = log'[x]
      /\ call[t].op # "print" => taken0'[i] = taken'[i]
      /\ \A u \in Thread \ {t} : pc'[u] = pc[u]
      /\ \A y \in Sinks : y # x => log0'[y] = log0[y]
      /\ \A s \in Stream : (Takes(t) => s # i) => taken0'[s] = taken0[s]
    BY <1>1, <1>2 DEF Typed
<1>4. Typed'
  <2>1. log0' \in [Sinks -> Seq(Entry)]
    BY <1>1, <1>2 DEF Typed
  <2>2. taken0' \in [Stream -> Nat]
    BY <1>1, <1>2 DEF Typed
  <2>3. pc' \in [Thread -> {"idle", "lockOut", "lockIn", "run", "half", "unlock"}]
    BY <1>1, <1>2 DEF Typed
  <2>4. /\ threw' \in [Thread -> BOOLEAN]
        /\ owner' \in [Stream -> Thread \cup {None}]
    BY <1>1, <1>2 DEF Typed
  <2>5. /\ call' \in [Thread -> Calls] /\ done' \in [Thread -> Nat]
        /\ calls' \in [Thread -> 0..MaxCalls]
    BY <1>1, <1>2 DEF Typed
  <2> QED
    BY <2>1, <2>2, <2>3, <2>4, <2>5 DEF Typed
<1>5. Held(t)' = Held(t) \ {Inner(t)} /\ Inner(t) \in Held(t)
  <2>1. CASE call[t].op = "transmit"
    <3>1. Held(t) = {call[t].out, i} /\ Inner(t) = i /\ place = "unlock"
      BY <1>1, <2>1 DEF Held, Inner
    <3>2. Held(t)' = {call[t].out}
      BY <1>2, <1>3, <3>1 DEF Held
    <3> QED
      BY <1>1, <2>1, <3>1, <3>2
  <2>2. CASE call[t].op # "transmit"
    <3>1. Held(t) = {Inner(t)} /\ place = "idle"
      BY <1>1, <2>2 DEF Held
    <3>2. Held(t)' = {}
      BY <1>3, <3>1 DEF Held
    <3> QED
      BY <3>1, <3>2
  <2> QED
    BY <2>1, <2>2
<1>6. Owned'
    BY <1>1, <1>2, <1>3, <1>5, HeldSame, ReleaseOwned
<1>7. ~Running(t)' /\ ~Takes(t)'
      /\ \A u \in Thread \ {t} :
            /\ Running(u)' = Running(u) /\ Takes(u)' = Takes(u)
            /\ Sink(u)' = Sink(u)
    BY <1>2, <1>3 DEF Running, Takes, Sink
<1>8. Settled'
  <2>1. ASSUME NEW y \in Sinks, \A u \in Thread : Running(u)' => Sink(u)' # y
        PROVE  log'[y] = log0'[y]
    <3>1. CASE y = x
      BY <1>3, <3>1
    <3>2. CASE y # x
      <4>1. \A u \in Thread : Running(u) => Sink(u) # y
        BY <1>7, <2>1, <3>2
      <4>2. log[y] = log0[y]
        BY <4>1 DEF IInv, Settled
      <4> QED
        BY <1>3, <3>2, <4>2 DEF Inside
    <3> QED
      BY <3>1, <3>2
  <2>2. ASSUME NEW s \in Stream,
               \A u \in Thread : Takes(u)' => call'[u].in # s
        PROVE  taken'[s] = taken0'[s]
    <3>1. CASE Takes(t) /\ s = i
      BY <1>1, <1>3, <3>1
    <3>2. CASE Takes(t) => s # i
      <4>1. \A u \in Thread : Takes(u) => call[u].in # s
        BY <1>2, <1>7, <2>2, <3>2
      <4>2. taken[s] = taken0[s]
        BY <4>1 DEF IInv, Settled
      <4> QED
        BY <1>3, <3>2, <4>2 DEF Inside
    <3> QED
      BY <3>1, <3>2
  <2> QED
    BY <2>1, <2>2 DEF Settled
<1>9. Bounds'
  <2> SUFFICES ASSUME NEW s \in Stream PROVE Bounded(s)'
      BY DEF Bounds
  <2>1. CASE Takes(t) /\ s = i
    <3>1. taken0'[s] = taken'[s] /\ taken'[s] \in Nat
      BY <1>1, <1>3, <2>1
    <3> QED
      BY <2>1, <3>1 DEF Bounded
  <2>2. CASE Takes(t) => s # i
    <3>1. /\ taken0'[s] = taken0[s] /\ taken'[s] = taken[s] /\ block'[s] = block[s]
          /\ Bounded(s)
      BY <1>3, <2>2 DEF Inside, IInv, Bounds
    <3> QED
      BY <3>1 DEF Bounded
  <2> QED
    BY <2>1, <2>2
<1>10. \A u \in Thread \ {t} : Fine(u)'
  <2>1. Touches(t)
    BY <1>3 DEF Inside, Touches
  <2> QED
    BY <1>2, <1>3, <2>1, OthersFine
<1>11. Fine(t)'
  <2>1. /\ ~Running(t)' /\ pc'[t] \in {"unlock", "idle"}
        /\ pc'[t] = "unlock" => call'[t].op = "transmit"
    BY <1>2, <1>3, <1>7
  <2> QED
    BY <2>1 DEF Fine
<1> QED
    BY <1>4, <1>6, <1>8, <1>9, <1>10, <1>11 DEF IInv

LEMMA PrintArgOK ==
    ASSUME IInv, NEW t \in Thread, PrintArg(t)
    PROVE  IInv'
<1>1. /\ Running(t) /\ call[t].op = "print" /\ done[t] < Args(t) /\ PrintMore(t, 1)
      /\ done' = [done EXCEPT ![t] = @ + 1] /\ pc[t] = "run"
      /\ UNCHANGED <<owner, pc, call, calls, taken, block, threw, history>>
      /\ Typed /\ done[t] \in Nat
    BY DEF PrintArg, Runs, Running, IInv, Typed
<1>2. /\ log' \in [Sinks -> Seq(Entry)]
      /\ \A x \in Sinks : x # Sink(t) => log'[x] = log[x]
      /\ log'[Sink(t)] = log0[Sink(t)] \o PieceSeq(t, done[t] + 1)
    BY <1>1, Prints
<1>3. /\ done'[t] = done[t] + 1 /\ done' \in [Thread -> Nat]
      /\ \A u \in Thread \ {t} : done'[u] = done[u]
    BY <1>1 DEF Typed
<1>4. Typed'
    BY <1>1, <1>2, <1>3 DEF Typed, history
<1>5. Inside(t) /\ ~Takes(t)
    BY <1>1, <1>2 DEF Inside, Takes
<1>6. /\ Running(t)' /\ Sink(t)' = Sink(t) /\ Args(t)' = Args(t) /\ log0' = log0
      /\ call' = call /\ pc'[t] = "run"
    BY <1>1 DEF Running, Sink, Args, history
<1>7. Args(t) \in Nat
    BY <1>1, SinkFacts, CallFacts DEF Args
<1>8. done'[t] <= Args(t)'
    BY <1>1, <1>3, <1>6, <1>7
<1>9. Does(t)'
  <2>1. log'[Sink(t)'] = log0'[Sink(t)'] \o PieceSeq(t, done'[t])
    BY <1>2, <1>3, <1>6
  <2>2. call'[t].op = "print" /\ "print" # "scan" /\ "print" # "transmit"
    BY <1>1, <1>6
  <2> QED
    BY <1>8, <2>1, <2>2, Zenon DEF Does
<1> QED
    BY <1>1, <1>3, <1>4, <1>5, <1>6, <1>9, InsideOK

\* A step of a call that reads: it has given m and taken n, and goes on.
LEMMA GoesOn ==
    ASSUME IInv, NEW t \in Thread, Running(t), call[t].op # "print",
           UNCHANGED <<owner, call, calls, threw, history>>,
           NEW place \in {"run", "half"}, pc' = [pc EXCEPT ![t] = place],
           NEW d \in Nat, done' = [done EXCEPT ![t] = d], d <= Args(t),
           NEW m \in Nat, Delivered(t, m),
           NEW n \in Nat, NEW b, Consumed(t, n, b),
           m = IF place # "half" THEN n ELSE IF In(t) \in Buffered THEN n + b ELSE n - b,
           call[t].op = "scan" => d = n /\ place = "run",
           call[t].op = "transmit" /\ d = 1 =>
                place = "run" /\ taken0[In(t)] + n = Length[In(t)]
    PROVE  IInv'
<1>1. /\ Typed /\ In(t) \in Stream /\ taken0[In(t)] \in Nat /\ Takes(t)
      /\ In(t) = call[t].in /\ call[t].op \in {"scan", "transmit"} /\ Does(t)
      /\ b \in 0..Room /\ Room \in Nat
    BY TakerFacts, CallFacts DEF IInv, Consumed
<1>2. /\ pc'[t] = place /\ done'[t] = d
      /\ taken'[In(t)] = taken0[In(t)] + n /\ block'[In(t)] = b
      /\ \A u \in Thread \ {t} : pc'[u] = pc[u] /\ done'[u] = done[u]
      /\ \A s \in Stream : s # In(t) => taken'[s] = taken[s] /\ block'[s] = block[s]
    BY <1>1 DEF Typed, Consumed
<1>3. Typed'
  <2>1. taken0[In(t)] + n \in Nat
    BY <1>1
  <2>2. taken' \in [Stream -> Nat] /\ block' \in [Stream -> 0..Room]
    BY <1>1, <2>1 DEF Typed, Consumed
  <2>3. /\ pc' \in [Thread -> {"idle", "lockOut", "lockIn", "run", "half", "unlock"}]
        /\ done' \in [Thread -> Nat] /\ log' \in [Sinks -> Seq(Entry)]
    BY <1>1 DEF Typed, Delivered
  <2> QED
    BY <1>1, <2>2, <2>3 DEF Typed, history
<1>4. Inside(t)
    BY <1>1, <1>2 DEF Inside, Delivered
<1>5. \A s \in Stream : Takes(t) /\ s = call[t].in => Bounded(s)'
    BY <1>1, <1>2 DEF Bounded, Consumed, history
<1>6. /\ Sink(t)' = Sink(t) /\ Args(t)' = Args(t) /\ In(t)' = In(t)
      /\ log0' = log0 /\ taken0' = taken0 /\ call' = call
    BY DEF Sink, Args, In, history
<1>7. Since(t)' = n
    BY <1>1, <1>2, <1>6 DEF Since
<1>8. Given(t)' = m
    BY <1>2, <1>6, <1>7 DEF Given
<1>9. Does(t)'
  <2>1. log'[Sink(t)'] = log0'[Sink(t)'] \o FieldSeq(In(t)', taken0'[In(t)'], Given(t)')
    BY <1>6, <1>8 DEF Delivered
  <2>2. done'[t] <= Args(t)' /\ Given(t)' \in Nat /\ call'[t].op # "print"
    BY <1>2, <1>6, <1>8
  <2>3. /\ call'[t].op = "scan" => done'[t] = Since(t)'
        /\ call'[t].op = "transmit" => call'[t].out # In(t)'
        /\ call'[t].op = "transmit" /\ done'[t] = 1 =>
            pc'[t] = "run" /\ taken'[In(t)'] = Length[In(t)']
    BY <1>1, <1>2, <1>6, <1>7 DEF Does
  <2> QED
    BY <2>1, <2>2, <2>3, Zenon DEF Does
<1>10. Running(t)' /\ (pc'[t] = "half" => call[t].op = "transmit")
    BY <1>1, <1>2 DEF Running
<1> QED
    BY <1>2, <1>3, <1>4, <1>5, <1>9, <1>10, InsideOK

\* How much a device has, and what a read may give.
LEMMA ReadFacts ==
    ASSUME IInv, NEW t \in Thread, Running(t), call[t].op # "print"
    PROVE  /\ Unread(In(t)) = Length[In(t)] - taken[In(t)]
                - (IF In(t) \in Buffered THEN block[In(t)] ELSE 0)
           /\ Unread(In(t)) \in Nat
           /\ \A k \in Reads(In(t)) : k \in 1..Room /\ k <= Unread(In(t))
<1>1. Unread(In(t)) = Length[In(t)] - taken[In(t)]
                        - (IF In(t) \in Buffered THEN block[In(t)] ELSE 0)
    BY DEF Unread
<1>2. Unread(In(t)) \in Nat
    BY <1>1, TakerFacts DEF Bounded
<1> QED
    BY <1>1, <1>2 DEF Reads

LEMMA ScanArgOK ==
    ASSUME IInv, NEW t \in Thread, ScanArg(t)
    PROVE  IInv'
<1> DEFINE n == Since(t) + 1
           b == block[In(t)] - 1
<1>1. /\ Running(t) /\ call[t].op = "scan" /\ pc[t] = "run" /\ done[t] < Args(t)
      /\ block[In(t)] > 0 /\ Give(t, taken[In(t)], 1)
      /\ taken' = [taken EXCEPT ![In(t)] = @ + 1]
      /\ block' = [block EXCEPT ![In(t)] = @ - 1]
      /\ done' = [done EXCEPT ![t] = @ + 1]
      /\ UNCHANGED <<owner, pc, call, calls, threw, history>>
    BY DEF ScanArg, Runs, Running, In
<1>2. /\ Typed /\ Given(t) = Since(t) /\ done[t] = Since(t) /\ Since(t) \in Nat
      /\ call[t] \in Calls
    BY <1>1, TakerFacts DEF IInv, Does, Given
<1>3. Args(t) \in Nat
    BY <1>1, <1>2, CallFacts DEF Args
<1>4. In(t) \in Buffered
    BY <1>1, <1>2, CallsAssumption DEF In
<1>5. Delivered(t, n)
    BY <1>1, <1>2, TakerFacts, Gives
<1>6. Consumed(t, n, b)
  <2>1. taken[In(t)] + 1 = taken0[In(t)] + n
    BY <1>1, <1>2, TakerFacts
  <2>2. b \in 0..Room /\ taken0[In(t)] + n <= Length[In(t)]
        /\ taken0[In(t)] + n + b <= Length[In(t)]
    BY <1>1, <1>2, <1>4, TakerFacts DEF Bounded
  <2>3. taken' = [taken EXCEPT ![In(t)] = taken0[In(t)] + n]
    BY <1>1, <1>2, <2>1 DEF Typed
  <2>4. block' = [block EXCEPT ![In(t)] = b]
    BY <1>1
  <2> QED
    BY <2>2, <2>3, <2>4 DEF Consumed
<1>7. /\ n \in Nat /\ done' = [done EXCEPT ![t] = n] /\ n <= Args(t)
      /\ pc' = [pc EXCEPT ![t] = "run"]
    BY <1>1, <1>2, <1>3 DEF Typed
<1> HIDE DEF n, b
<1> QED
    BY <1>1, <1>5, <1>6, <1>7, GoesOn

LEMMA ScanRefillOK ==
    ASSUME IInv, NEW t \in Thread, ScanRefill(t)
    PROVE  IInv'
<1>1. /\ Running(t) /\ call[t].op = "scan" /\ pc[t] = "run" /\ done[t] < Args(t)
      /\ block[In(t)] = 0
      /\ UNCHANGED <<owner, locals, log, taken, threw, history>>
    BY DEF ScanRefill, Runs, Running, In
<1>2. PICK k \in Reads(In(t)) : block' = [block EXCEPT ![In(t)] = k]
    BY DEF ScanRefill, In
<1>3. /\ Typed /\ Given(t) = Since(t) /\ done[t] = Since(t) /\ Since(t) \in Nat
      /\ done[t] <= Args(t)
    BY <1>1, TakerFacts DEF IInv, Does, Given
<1>4. Delivered(t, Since(t))
    BY <1>1, <1>3, Keeps
<1>5. Consumed(t, Since(t), k)
  <2>1. taken' = [taken EXCEPT ![In(t)] = taken0[In(t)] + Since(t)]
    BY <1>1, <1>3, TakerFacts DEF Typed
  <2>2. k \in 0..Room /\ taken0[In(t)] + Since(t) <= Length[In(t)]
        /\ (In(t) \in Buffered => taken0[In(t)] + Since(t) + k <= Length[In(t)])
    BY <1>1, ReadFacts, TakerFacts DEF Bounded
  <2> QED
    BY <1>2, <2>1, <2>2 DEF Consumed
<1>6. /\ done' = [done EXCEPT ![t] = done[t]] /\ pc' = [pc EXCEPT ![t] = "run"]
      /\ UNCHANGED <<call, calls>>
    BY <1>1, <1>3 DEF Typed, locals
<1> QED
    BY <1>1, <1>3, <1>4, <1>5, <1>6, GoesOn

LEMMA WriteBlockOK ==
    ASSUME IInv, NEW t \in Thread, WriteBlock(t)
    PROVE  IInv'
<1> DEFINE b == block[In(t)]
           m == Since(t) + b
<1>1. /\ Running(t) /\ call[t].op = "transmit" /\ pc[t] = "run" /\ done[t] < Args(t)
      /\ In(t) \in Buffered /\ Give(t, taken[In(t)], b)
      /\ pc' = [pc EXCEPT ![t] = "half"]
      /\ UNCHANGED <<owner, call, done, calls, taken, block, threw, history>>
    BY DEF WriteBlock, Runs, Running, In
<1>2. /\ Typed /\ Given(t) = Since(t) /\ Since(t) \in Nat /\ done[t] \in Nat
      /\ b \in Nat /\ taken[In(t)] = taken0[In(t)] + Since(t)
      /\ taken[In(t)] \in Nat
    BY <1>1, TakerFacts DEF IInv, Given, Typed
<1>3. Delivered(t, m) /\ m \in Nat
    BY <1>1, <1>2, Gives
<1>4. Consumed(t, Since(t), b)
    BY <1>1, Keeps
<1>5. done' = [done EXCEPT ![t] = done[t]] /\ done[t] <= Args(t) /\ done[t] # 1
  <2>1. done[t] < 1 /\ Args(t) = 1
    BY <1>1 DEF Args
  <2> QED
    BY <1>1, <1>2, <2>1 DEF Typed
<1>6. m = IF In(t) \in Buffered THEN Since(t) + b ELSE Since(t) - b
    BY <1>1
<1> HIDE DEF m, b
<1> QED
    BY <1>1, <1>2, <1>3, <1>4, <1>5, <1>6, GoesOn

LEMMA UnderflowOK ==
    ASSUME IInv, NEW t \in Thread, Underflow(t)
    PROVE  IInv'
<1> DEFINE n == Since(t) + block[In(t)]
           d == IF Unread(In(t)) = 0 THEN 1 ELSE 0
<1>1. /\ Running(t) /\ call[t].op = "transmit" /\ pc[t] = "half" /\ In(t) \in Buffered
      /\ taken' = [taken EXCEPT ![In(t)] = @ + block[In(t)]]
      /\ done' = [done EXCEPT ![t] = d] /\ pc' = [pc EXCEPT ![t] = "run"]
      /\ UNCHANGED <<owner, call, calls, log, threw, history>>
    BY DEF Underflow, Running, In, IInv, Fine
<1>2. PICK k \in IF Unread(In(t)) = 0 THEN {0} ELSE Reads(In(t)) :
        block' = [block EXCEPT ![In(t)] = k]
    BY DEF Underflow, In
<1>3. /\ Typed /\ Given(t) = n /\ n \in Nat
      /\ taken[In(t)] + block[In(t)] = taken0[In(t)] + n
    BY <1>1, TakerFacts DEF IInv, Given
<1>4. Delivered(t, n)
    BY <1>1, <1>3, Keeps
<1>5. Consumed(t, n, k)
  <2>1. taken' = [taken EXCEPT ![In(t)] = taken0[In(t)] + n]
    BY <1>1, <1>3 DEF Typed
  <2>2. k \in 0..Room /\ k <= Unread(In(t))
    BY <1>1, ReadFacts, RoomAssumption
  <2>3. /\ taken0[In(t)] + n <= Length[In(t)]
        /\ taken0[In(t)] + n + k <= Length[In(t)]
    BY <1>1, <1>3, <2>2, ReadFacts, TakerFacts DEF Bounded
  <2> QED
    BY <1>2, <2>1, <2>2, <2>3 DEF Consumed
<1>6. d = 1 => taken0[In(t)] + n = Length[In(t)]
    BY <1>1, <1>3, ReadFacts, TakerFacts
<1>7. d \in Nat /\ d <= Args(t)
    BY <1>1 DEF Args
<1> HIDE DEF n, d
<1> QED
    BY <1>1, <1>3, <1>4, <1>5, <1>6, <1>7, GoesOn

LEMMA ReadArrayOK ==
    ASSUME IInv, NEW t \in Thread, ReadArray(t)
    PROVE  IInv'
<1>1. /\ Running(t) /\ call[t].op = "transmit" /\ pc[t] = "run" /\ done[t] < Args(t)
      /\ In(t) \notin Buffered /\ pc' = [pc EXCEPT ![t] = "half"]
      /\ UNCHANGED <<owner, call, done, calls, log, threw, history>>
    BY DEF ReadArray, Runs, Running, In
<1>2. PICK k \in Reads(In(t)) :
        /\ taken' = [taken EXCEPT ![In(t)] = @ + k]
        /\ block' = [block EXCEPT ![In(t)] = k]
    BY DEF ReadArray, In
<1> DEFINE n == Since(t) + k
<1>3. k \in 1..Room /\ k <= Unread(In(t))
    BY <1>1, ReadFacts
<1>a. /\ Typed /\ Given(t) = Since(t) /\ Since(t) \in Nat
      /\ taken0[In(t)] \in Nat /\ taken[In(t)] = taken0[In(t)] + Since(t)
    BY <1>1, TakerFacts DEF IInv, Given
<1>b. k \in Nat
    BY <1>3, RoomAssumption
<1>4. /\ Typed /\ Given(t) = Since(t) /\ Since(t) \in Nat /\ n \in Nat
      /\ n - k = Since(t) /\ done[t] \in Nat
      /\ taken[In(t)] + k = taken0[In(t)] + n
  <2>1. n \in Nat /\ n - k = Since(t) /\ taken[In(t)] + k = taken0[In(t)] + n
    BY <1>a, <1>b
  <2>2. done[t] \in Nat
    BY <1>a DEF Typed
  <2> QED
    BY <1>a, <2>1, <2>2
<1>5. Delivered(t, Since(t))
    BY <1>1, <1>4, Keeps
<1>6. Consumed(t, n, k)
  <2>1. taken' = [taken EXCEPT ![In(t)] = taken0[In(t)] + n]
    BY <1>2, <1>4 DEF Typed
  <2>2. k \in 0..Room /\ taken0[In(t)] + n <= Length[In(t)]
    BY <1>1, <1>3, <1>4, ReadFacts, TakerFacts DEF Bounded
  <2> QED
    BY <1>1, <1>2, <2>1, <2>2 DEF Consumed
<1>7. done' = [done EXCEPT ![t] = done[t]] /\ done[t] <= Args(t) /\ done[t] # 1
  <2>1. done[t] < 1 /\ Args(t) = 1
    BY <1>1 DEF Args
  <2> QED
    BY <1>1, <1>4, <2>1 DEF Typed
<1> HIDE DEF n
<1> QED
    BY <1>1, <1>4, <1>5, <1>6, <1>7, GoesOn

LEMMA ReadNothingOK ==
    ASSUME IInv, NEW t \in Thread, ReadNothing(t)
    PROVE  IInv'
<1>1. /\ Running(t) /\ call[t].op = "transmit" /\ pc[t] = "run"
      /\ In(t) \notin Buffered /\ Unread(In(t)) = 0
      /\ done' = [done EXCEPT ![t] = 1]
      /\ UNCHANGED <<owner, pc, call, calls, content, history>>
    BY DEF ReadNothing, Runs, Running, In
<1>2. /\ Typed /\ Given(t) = Since(t) /\ Since(t) \in Nat
      /\ taken0[In(t)] + Since(t) = Length[In(t)]
    BY <1>1, ReadFacts, TakerFacts DEF IInv, Given
<1>3. Delivered(t, Since(t)) /\ Consumed(t, Since(t), block[In(t)])
    BY <1>1, <1>2, Keeps DEF content
<1>4. pc' = [pc EXCEPT ![t] = "run"] /\ 1 <= Args(t) /\ UNCHANGED threw
    BY <1>1, <1>2 DEF Args, Typed, content
<1> QED
    BY <1>1, <1>2, <1>3, <1>4, GoesOn

LEMMA WriteArrayOK ==
    ASSUME IInv, NEW t \in Thread, WriteArray(t)
    PROVE  IInv'
<1> DEFINE b == block[In(t)]
<1>1. /\ Running(t) /\ call[t].op = "transmit" /\ pc[t] = "half"
      /\ In(t) \notin Buffered /\ Give(t, taken[In(t)] - b, b)
      /\ pc' = [pc EXCEPT ![t] = "run"]
      /\ UNCHANGED <<owner, call, done, calls, taken, block, threw, history>>
    BY DEF WriteArray, Running, In, IInv, Fine
<1>2. /\ Typed /\ Given(t) = Since(t) - b /\ Given(t) \in Nat /\ Given(t) + b = Since(t)
      /\ b \in Nat /\ taken[In(t)] - b = taken0[In(t)] + Given(t)
      /\ taken[In(t)] - b \in Nat /\ Since(t) \in Nat
    BY <1>1, TakerFacts DEF IInv, Given
<1>3. Delivered(t, Since(t))
    BY <1>1, <1>2, Gives
<1>4. Consumed(t, Since(t), b)
    BY <1>1, Keeps
<1>5. /\ done' = [done EXCEPT ![t] = done[t]] /\ done[t] \in Nat
      /\ done[t] <= Args(t) /\ done[t] # 1
    BY <1>1, <1>2, TakerFacts DEF Typed, Does
<1> HIDE DEF b
<1> QED
    BY <1>1, <1>2, <1>3, <1>4, <1>5, GoesOn

-------------------------------------------------------------------------------
(* A call that returns or throws: the invariant is kept, and the abstract      *)
(* streams take one step.                                                      *)

LEMMA PrintEnds ==
    ASSUME IInv, NEW t \in Thread, NEW failed \in BOOLEAN, Running(t),
           call[t].op = "print", Release(t, failed), UNCHANGED <<taken, block>>,
           NEW k \in Nat, PrintMore(t, k), done[t] + k <= Args(t),
           failed \/ done[t] + k = Args(t)
    PROVE  IInv' /\ Atomic!AtomicNext
<1> DEFINE c == call[t]
           m == done[t] + k
<1>1. /\ c \in Calls /\ c.n \in Nat /\ Args(t) = c.n /\ Sink(t) = c.out /\ ~Takes(t)
      /\ Typed /\ m \in 0..c.n /\ c.op = "print"
  <2>1. Typed /\ c \in Calls /\ c.op = "print" /\ Sink(t) = c.out
    BY SinkFacts DEF IInv
  <2>2. c.n \in Nat /\ Args(t) = c.n /\ ~Takes(t)
    BY <2>1, CallFacts DEF Args, Takes
  <2>3. done[t] \in Nat
    BY <2>1 DEF Typed
  <2> HIDE DEF c
  <2>4. m \in 0..c.n
    BY <2>2, <2>3
  <2> QED
    BY <2>1, <2>2, <2>4
<1>2. /\ log' \in [Sinks -> Seq(Entry)]
      /\ \A x \in Sinks : x # Sink(t) => log'[x] = log[x]
      /\ log'[Sink(t)] = log0[Sink(t)] \o PieceSeq(t, m)
    BY Prints
<1>3. Inside(t)
    BY <1>1, <1>2 DEF Inside
<1>4. taken' \in [Stream -> Nat] /\ block' \in [Stream -> 0..Room]
    BY <1>1 DEF Typed
<1>5. IInv'
    BY <1>1, <1>2, <1>3, <1>4, ReleaseOK
<1>6. Atomic!PrintAll(t, c)
  <2>1. log0' = [log0 EXCEPT ![c.out] = @ \o Atomic!Pieces(t, m)]
    BY <1>1, <1>2 DEF Release, PieceSeq, Atomic!Pieces
  <2>2. threw'[t] = failed /\ UNCHANGED taken0
    BY <1>1 DEF Release, Typed
  <2>3. threw'[t] \/ m = c.n
    BY <1>1, <2>2
  <2> HIDE DEF m
  <2> QED
    BY <1>1, <2>1, <2>2, <2>3 DEF Atomic!PrintAll
<1>7. threw' \in {[threw EXCEPT ![t] = q] : q \in BOOLEAN}
    BY DEF Release
<1> QED
    BY <1>1, <1>5, <1>6, <1>7 DEF Atomic!AtomicNext

\* What the end of a call that reads comes to.
LEMMA TakerEnds ==
    ASSUME IInv, NEW t \in Thread, NEW failed \in BOOLEAN, Running(t),
           call[t].op # "print", Release(t, failed),
           NEW m \in Nat, Delivered(t, m), taken0[In(t)] + m <= Length[In(t)],
           NEW n \in Nat, NEW b, Consumed(t, n, b)
    PROVE  /\ IInv'
           /\ Atomic!Pass(In(t), Sink(t), m, n)
           /\ m \in 0..Atomic!Ahead(In(t)) /\ n \in 0..Atomic!Ahead(In(t))
           /\ threw'[t] = failed
           /\ threw' \in {[threw EXCEPT ![t] = q] : q \in BOOLEAN}
<1>1. /\ Typed /\ In(t) \in Stream /\ taken0[In(t)] \in Nat /\ Takes(t)
      /\ In(t) = call[t].in /\ Length[In(t)] \in Nat /\ Sink(t) \in Sinks
    BY TakerFacts DEF IInv
<1>2. /\ taken' \in [Stream -> Nat] /\ block' \in [Stream -> 0..Room]
      /\ taken'[In(t)] = taken0[In(t)] + n /\ block'[In(t)] = b
      /\ \A s \in Stream : s # In(t) => taken'[s] = taken[s] /\ block'[s] = block[s]
  <2>1. taken0[In(t)] + n \in Nat
    BY <1>1
  <2> QED
    BY <1>1, <2>1 DEF Typed, Consumed
<1>3. Inside(t) /\ log' \in [Sinks -> Seq(Entry)]
    BY <1>1, <1>2 DEF Inside, Delivered
<1>4. \A s \in Stream : Takes(t) /\ s = call[t].in =>
            /\ taken'[s] <= Length[s]
            /\ s \in Buffered => taken'[s] + block'[s] <= Length[s]
    BY <1>1, <1>2 DEF Consumed
<1>5. IInv'
    BY <1>2, <1>3, <1>4, ReleaseOK
<1>6. Atomic!Pass(In(t), Sink(t), m, n)
  <2>1. log0' = [log0 EXCEPT ![Sink(t)] = @ \o Atomic!Fields(In(t), taken0[In(t)], m)]
    BY <1>1 DEF Release, Delivered, FieldSeq, Atomic!Fields
  <2>2. taken0' = [taken0 EXCEPT ![In(t)] = @ + n]
    BY <1>1, <1>2 DEF Release
  <2> QED
    BY <2>1, <2>2 DEF Atomic!Pass
<1>7. m \in 0..Atomic!Ahead(In(t)) /\ n \in 0..Atomic!Ahead(In(t))
    BY <1>1 DEF Atomic!Ahead, Consumed
<1>8. threw'[t] = failed /\ threw' \in {[threw EXCEPT ![t] = q] : q \in BOOLEAN}
    BY <1>1 DEF Release, Typed
<1> QED
    BY <1>5, <1>6, <1>7, <1>8

LEMMA ScanEnds ==
    ASSUME IInv, NEW t \in Thread, NEW failed \in BOOLEAN, Running(t),
           call[t].op = "scan", Release(t, failed),
           NEW m \in Nat, Delivered(t, m), taken0[In(t)] + m <= Length[In(t)],
           NEW n \in Nat, NEW b, Consumed(t, n, b), m <= Args(t),
           (m = Args(t) /\ n = m) \/ (failed /\ n \in {m, m + 1})
    PROVE  IInv' /\ Atomic!AtomicNext
<1> DEFINE c == call[t]
<1>1. c \in Calls /\ Args(t) = c.n /\ Sink(t) = t /\ In(t) = c.in /\ c.op = "scan"
    BY SinkFacts DEF IInv, Args, In
<1>2. /\ IInv' /\ Atomic!Pass(c.in, t, m, n)
      /\ m \in 0..Atomic!Ahead(c.in) /\ n \in 0..Atomic!Ahead(c.in)
      /\ threw'[t] = failed
      /\ threw' \in {[threw EXCEPT ![t] = q] : q \in BOOLEAN}
    BY <1>1, TakerEnds
<1>3. Atomic!Scan(t, c)
    BY <1>1, <1>2 DEF Atomic!Scan
<1> QED
    BY <1>1, <1>2, <1>3 DEF Atomic!AtomicNext

LEMMA TransmitEnds ==
    ASSUME IInv, NEW t \in Thread, NEW failed \in BOOLEAN, Running(t),
           call[t].op = "transmit", Release(t, failed),
           NEW m \in Nat, Delivered(t, m), taken0[In(t)] + m <= Length[In(t)],
           NEW n \in Nat, NEW b, Consumed(t, n, b),
           \/ taken0[In(t)] + m = Length[In(t)] /\ n = m
           \/ failed /\ IF In(t) \in Buffered THEN n <= m /\ m <= n + Room
                        ELSE m <= n /\ n <= m + Room
    PROVE  IInv' /\ Atomic!AtomicNext
<1> DEFINE c == call[t]
<1>1. c \in Calls /\ Sink(t) = c.out /\ In(t) = c.in /\ c.op = "transmit"
    BY SinkFacts DEF IInv, In
<1>2. /\ IInv' /\ Atomic!Pass(c.in, c.out, m, n)
      /\ m \in 0..Atomic!Ahead(c.in) /\ n \in 0..Atomic!Ahead(c.in)
      /\ threw'[t] = failed
      /\ threw' \in {[threw EXCEPT ![t] = q] : q \in BOOLEAN}
    BY <1>1, TakerEnds
<1>3. taken0[In(t)] + m = Length[In(t)] => m = Atomic!Ahead(c.in)
    BY <1>1, TakerFacts DEF Atomic!Ahead
<1>4. Atomic!Transmit(t, c)
    BY <1>1, <1>2, <1>3 DEF Atomic!Transmit
<1> QED
    BY <1>1, <1>2, <1>4 DEF Atomic!AtomicNext

LEMMA ReturnOK ==
    ASSUME IInv, NEW t \in Thread, Return(t)
    PROVE  IInv' /\ Atomic!AtomicNext
<1>1. /\ Running(t) /\ pc[t] = "run" /\ done[t] = Args(t) /\ Release(t, FALSE)
      /\ UNCHANGED <<log, taken, block>> /\ Typed /\ Does(t) /\ call[t] \in Calls
      /\ call[t].op \in {"print", "scan", "transmit"}
    BY SinkFacts, CallFacts DEF Return, Running, IInv, Fine
<1>2. CASE call[t].op = "print"
  <2>1. PrintMore(t, 0)
    <3>1. call[t].out \in Stream /\ log[call[t].out] \in Seq(Entry)
      BY <1>1, <1>2, CallFacts DEF Typed, Sinks
    <3>2. [j \in 1..0 |-> [by |-> t, part |-> done[t] + j]] = <<>>
      OBVIOUS
    <3>3. log[call[t].out] \o <<>> = log[call[t].out]
      BY <3>1, ConcatEmptySeq
    <3> QED
      BY <1>1, <3>1, <3>2, <3>3 DEF PrintMore, Typed
  <2>2. done[t] + 0 = Args(t) /\ done[t] + 0 <= Args(t)
    BY <1>1 DEF Typed
  <2> QED
    BY <1>1, <1>2, <2>1, <2>2, PrintEnds
<1>3. CASE call[t].op # "print"
  <2>1. /\ Given(t) = Since(t) /\ Since(t) \in Nat
        /\ Delivered(t, Since(t)) /\ Consumed(t, Since(t), block[In(t)])
        /\ taken0[In(t)] + Since(t) <= Length[In(t)]
        /\ taken0[In(t)] + Since(t) = taken[In(t)]
    BY <1>1, <1>3, TakerFacts, Keeps DEF Given, Bounded
  <2>2. CASE call[t].op = "scan"
    <3>1. Since(t) = Args(t) /\ Since(t) <= Args(t)
      BY <1>1, <2>1, <2>2 DEF Does
    <3> QED
      BY <1>1, <2>1, <2>2, <3>1, ScanEnds
  <2>3. CASE call[t].op = "transmit"
    <3>1. taken0[In(t)] + Since(t) = Length[In(t)]
      BY <1>1, <2>1, <2>3 DEF Does, Args
    <3> QED
      BY <1>1, <2>1, <2>3, <3>1, TransmitEnds
  <2> QED
    BY <1>1, <1>3, <2>2, <2>3
<1> QED
    BY <1>2, <1>3

LEMMA PrintThrowsOK ==
    ASSUME IInv, NEW t \in Thread, PrintThrows(t)
    PROVE  IInv' /\ Atomic!AtomicNext
<1>1. /\ Running(t) /\ call[t].op = "print" /\ done[t] < Args(t)
      /\ Release(t, TRUE) /\ UNCHANGED <<taken, block>> /\ Typed /\ call[t] \in Calls
    BY SinkFacts DEF PrintThrows, Runs, Running, IInv
<1>2. PICK k \in 0..1 : PrintMore(t, k)
    BY DEF PrintThrows
<1>3. done[t] + k <= Args(t) /\ k \in Nat
  <2>1. Args(t) = call[t].n /\ call[t].n \in Nat
    BY <1>1, CallFacts DEF Args
  <2>2. done[t] \in Nat
    BY <1>1 DEF Typed
  <2> QED
    BY <1>1, <2>1, <2>2
<1> QED
    BY <1>1, <1>2, <1>3, PrintEnds

LEMMA ScanThrowsOK ==
    ASSUME IInv, NEW t \in Thread, ScanThrows(t)
    PROVE  IInv' /\ Atomic!AtomicNext
<1>1. /\ Running(t) /\ call[t].op = "scan" /\ pc[t] = "run" /\ done[t] < Args(t)
      /\ UNCHANGED log /\ Release(t, TRUE)
    BY DEF ScanThrows, Runs, Running
<1>2. /\ Typed /\ Given(t) = Since(t) /\ done[t] = Since(t) /\ Since(t) \in Nat
      /\ done[t] <= Args(t) /\ Delivered(t, Since(t)) /\ call[t] \in Calls
      /\ taken0[In(t)] + Since(t) <= Length[In(t)]
      /\ taken[In(t)] = taken0[In(t)] + Since(t)
    BY <1>1, TakerFacts, Keeps DEF IInv, Does, Given, Bounded
<1>3. CASE UNCHANGED <<taken, block>>
  <2>1. Consumed(t, Since(t), block[In(t)])
    BY <1>1, <1>3, Keeps
  <2> QED
    BY <1>1, <1>2, <2>1, ScanEnds
<1>4. CASE \E k \in 0..1 : /\ k <= block[In(t)]
                           /\ taken' = [taken EXCEPT ![In(t)] = @ + k]
                           /\ block' = [block EXCEPT ![In(t)] = @ - k]
  <2>1. PICK k \in 0..1 : /\ k <= block[In(t)]
                          /\ taken' = [taken EXCEPT ![In(t)] = @ + k]
                          /\ block' = [block EXCEPT ![In(t)] = @ - k]
    BY <1>4
  <2> DEFINE n == Since(t) + k
             b == block[In(t)] - k
  <2>2. In(t) \in Buffered
    BY <1>1, <1>2, CallsAssumption DEF In
  <2>3. Consumed(t, n, b)
    <3>1. taken[In(t)] + k = taken0[In(t)] + n
      BY <1>1, <1>2, TakerFacts
    <3>2. b \in 0..Room /\ taken0[In(t)] + n <= Length[In(t)]
          /\ taken0[In(t)] + n + b <= Length[In(t)]
      BY <1>1, <1>2, <2>1, <2>2, TakerFacts DEF Bounded
    <3>3. taken' = [taken EXCEPT ![In(t)] = taken0[In(t)] + n]
      BY <1>2, <2>1, <3>1 DEF Typed
    <3> QED
      BY <2>1, <3>2, <3>3 DEF Consumed
  <2>4. n \in Nat /\ n \in {Since(t), Since(t) + 1}
    BY <1>2
  <2> HIDE DEF n, b
  <2> QED
    BY <1>1, <1>2, <2>3, <2>4, ScanEnds
<1> QED
    BY <1>3, <1>4 DEF ScanThrows, In

LEMMA WriteThrowsOK ==
    ASSUME IInv, NEW t \in Thread, WriteThrows(t)
    PROVE  IInv' /\ Atomic!AtomicNext
<1>1. /\ Running(t) /\ call[t].op = "transmit" /\ Release(t, TRUE)
      /\ UNCHANGED <<taken, block>>
      /\ pc[t] = IF In(t) \in Buffered THEN "run" ELSE "half"
    BY DEF WriteThrows, Runs, Running, In
<1>2. PICK k \in 0..block[In(t)] :
        Give(t, IF In(t) \in Buffered THEN taken[In(t)] ELSE taken[In(t)] - block[In(t)], k)
    BY DEF WriteThrows, In
<1>3. /\ Typed /\ Since(t) \in Nat /\ Given(t) \in Nat /\ block[In(t)] \in Nat
      /\ block[In(t)] <= Room /\ Room \in Nat /\ Bounded(In(t))
      /\ taken[In(t)] \in Nat /\ taken0[In(t)] \in Nat /\ Length[In(t)] \in Nat
      /\ taken[In(t)] = taken0[In(t)] + Since(t)
      /\ Given(t) = IF In(t) \in Buffered THEN Since(t) ELSE Since(t) - block[In(t)]
      /\ Consumed(t, Since(t), block[In(t)])
    BY <1>1, TakerFacts, Keeps DEF IInv, Given
<1> DEFINE m == Given(t) + k
           p == IF In(t) \in Buffered THEN taken[In(t)] ELSE taken[In(t)] - block[In(t)]
<1>4. k \in Nat /\ m \in Nat /\ p \in Nat /\ p = taken0[In(t)] + Given(t)
    BY <1>3
<1>5. Delivered(t, m)
  <2> HIDE DEF p
  <2>1. Give(t, p, k)
    BY <1>2 DEF p
  <2> QED
    BY <1>1, <1>4, <2>1, Gives
<1>6. /\ taken0[In(t)] + m <= Length[In(t)]
      /\ IF In(t) \in Buffered THEN Since(t) <= m /\ m <= Since(t) + Room
         ELSE m <= Since(t) /\ Since(t) <= m + Room
    BY <1>3, <1>4 DEF Bounded
<1> HIDE DEF m, p
<1> QED
    BY <1>1, <1>3, <1>4, <1>5, <1>6, TransmitEnds

LEMMA ReadThrowsOK ==
    ASSUME IInv, NEW t \in Thread, ReadThrows(t)
    PROVE  IInv' /\ Atomic!AtomicNext
<1>1. /\ Running(t) /\ call[t].op = "transmit" /\ Release(t, TRUE)
      /\ UNCHANGED <<log, taken, block>>
      /\ pc[t] = IF In(t) \in Buffered THEN "half" ELSE "run"
    BY DEF ReadThrows, Runs, Running, In
<1>2. /\ Since(t) \in Nat /\ Given(t) \in Nat /\ block[In(t)] \in Nat
      /\ block[In(t)] <= Room /\ Room \in Nat /\ Bounded(In(t))
      /\ taken0[In(t)] \in Nat /\ Length[In(t)] \in Nat
      /\ taken[In(t)] = taken0[In(t)] + Since(t)
      /\ Given(t) = IF In(t) \in Buffered THEN Since(t) + block[In(t)] ELSE Since(t)
      /\ Delivered(t, Given(t)) /\ Consumed(t, Since(t), block[In(t)])
    BY <1>1, TakerFacts, Keeps DEF Given
<1>3. /\ taken0[In(t)] + Given(t) <= Length[In(t)]
      /\ IF In(t) \in Buffered THEN Since(t) <= Given(t) /\ Given(t) <= Since(t) + Room
         ELSE Given(t) <= Since(t) /\ Since(t) <= Given(t) + Room
    BY <1>2 DEF Bounded
<1> QED
    BY <1>1, <1>2, <1>3, TransmitEnds

\* A call ends.
Ends(t) == Return(t) \/ Throw(t)

LEMMA EndsOK ==
    ASSUME IInv, NEW t \in Thread, Ends(t)
    PROVE  IInv' /\ Atomic!AtomicNext
BY ReturnOK, PrintThrowsOK, ScanThrowsOK, WriteThrowsOK, ReadThrowsOK DEF Ends, Throw

-------------------------------------------------------------------------------
(* All steps *)

LEMMA StepOK ==
    ASSUME IInv, NEW t \in Thread, Step(t) \/ \E c \in Calls : Begin(t, c)
    PROVE  IInv'
<1>1. CASE LockOut(t)
    BY <1>1, LockOutOK
<1>2. CASE LockIn(t)
    BY <1>2, LockInOK
<1>3. CASE PrintArg(t)
    BY <1>3, PrintArgOK
<1>4. CASE ScanArg(t) \/ ScanRefill(t)
    BY <1>4, ScanArgOK, ScanRefillOK
<1>5. CASE WriteBlock(t) \/ Underflow(t)
    BY <1>5, WriteBlockOK, UnderflowOK
<1>6. CASE ReadArray(t) \/ ReadNothing(t) \/ WriteArray(t)
    BY <1>6, ReadArrayOK, ReadNothingOK, WriteArrayOK
<1>7. CASE Ends(t)
    BY <1>7, EndsOK
<1>8. CASE Unlock(t)
    BY <1>8, UnlockOK
<1>9. CASE \E c \in Calls : Begin(t, c)
    BY <1>9, BeginOK
<1> QED
    BY <1>1, <1>2, <1>3, <1>4, <1>5, <1>6, <1>7, <1>8, <1>9 DEF Step, Ends

LEMMA StutterOK ==
    ASSUME IInv, UNCHANGED vars
    PROVE  IInv'
<1>1. UNCHANGED <<owner, pc, call, done, calls, log, taken, block, threw, log0, taken0>>
    BY DEF vars, locals, content, history
<1>2. Typed' /\ Bounds'
    BY <1>1 DEF IInv, Typed, Bounds, Bounded
<1>3. \A u \in Thread : /\ Held(u)' = Held(u) /\ Running(u)' = Running(u)
                        /\ Takes(u)' = Takes(u) /\ Sink(u)' = Sink(u)
                        /\ Does(u)' = Does(u)
    BY <1>1 DEF Held, Inner, Running, Takes, Sink, Does, Given, Since, In, Args
<1>4. Owned' /\ Settled'
    BY <1>1, <1>3 DEF IInv, Owned, Settled
<1>5. \A u \in Thread : Fine(u)'
    BY <1>1, <1>3 DEF IInv, Fine
<1> QED
    BY <1>2, <1>4, <1>5 DEF IInv

LEMMA InitOK == Init => IInv
<1> SUFFICES ASSUME Init PROVE IInv
    OBVIOUS
<1>1. /\ pc = [t \in Thread |-> "idle"] /\ done = [t \in Thread |-> 0]
      /\ call \in [Thread -> Calls] /\ calls = [t \in Thread |-> 0]
      /\ log = [x \in Sinks |-> <<>>] /\ taken = [s \in Stream |-> 0]
      /\ block = [s \in Stream |-> 0]
      /\ threw = [t \in Thread |-> FALSE] /\ log0 = log /\ taken0 = taken
      /\ owner = [s \in Stream |-> None]
    BY DEF Init
<1>2. Typed
  <2>1. 0 \in 0..MaxCalls /\ 0 \in 0..Room
    BY MaxCallsAssumption, RoomAssumption
  <2> QED
    BY <1>1, <2>1 DEF Typed
<1>3. Owned
    BY <1>1, NamesAssumption DEF Owned, Held
<1>4. \A t \in Thread : Fine(t)
    BY <1>1 DEF Fine, Running
<1>5. Settled
    BY <1>1 DEF Settled
<1>6. Bounds
    BY <1>1, LengthAssumption DEF Bounds, Bounded
<1> QED
    BY <1>2, <1>3, <1>4, <1>5, <1>6 DEF IInv

-------------------------------------------------------------------------------
(* The theorems *)

\* The invariant that the others rest on.
THEOREM Invariance == Spec => []IInv
<1>1. IInv /\ [Next]_vars => IInv'
    BY StepOK, StutterOK DEF Next
<1> QED
    BY <1>1, InitOK, PTL DEF Spec

\* Whatever the number of threads and streams, a mutex has at most one owner,
\* and a thread holds those of the streams that its call uses, until the call
\* returns or throws (print_scan.h 258-270, 287-307, transmit.h 124-129).
THEOREM TypeCorrect == Spec => []TypeOK
<1>1. IInv => TypeOK
    BY DEF IInv, Typed, Owned, TypeOK
<1> QED
    BY <1>1, Invariance, PTL

LEMMA AbstractSame ==
    ASSUME UNCHANGED <<history, threw>>
    PROVE  UNCHANGED Atomic!aVars
BY DEF Atomic!aVars, history

\* Every print, scan and transmit of a basic_iomutex takes effect in one step,
\* however the steps of the threads interleave and whichever half of a transmit
\* throws: only then something is repeated or lost, and at most what one read of
\* the device gave (print_scan.h 291 and 305, transmit.h 14-41, iomutex.h 35-80).
THEOREM Refinement == Spec => ImplementsAtomicStreams
<1>1. Init => Atomic!AtomicInit
    BY DEF Init, Atomic!AtomicInit, Sinks
<1>2. IInv /\ [Next]_vars => [Atomic!AtomicNext]_(Atomic!aVars)
  <2> SUFFICES ASSUME IInv, [Next]_vars
               PROVE  [Atomic!AtomicNext]_(Atomic!aVars)
      OBVIOUS
  <2>1. CASE UNCHANGED vars
    BY <2>1, AbstractSame DEF vars, content
  <2>2. ASSUME NEW t \in Thread, Step(t) \/ \E c \in Calls : Begin(t, c)
        PROVE  [Atomic!AtomicNext]_(Atomic!aVars)
    <3>1. CASE Ends(t)
      BY <3>1, EndsOK
    <3>2. CASE LockOut(t) \/ LockIn(t)
      BY <3>2, AbstractSame DEF LockOut, LockIn, Acquire, content
    <3>3. CASE PrintArg(t) \/ ScanArg(t) \/ ScanRefill(t)
      BY <3>3, AbstractSame DEF PrintArg, ScanArg, ScanRefill
    <3>4. CASE WriteBlock(t) \/ Underflow(t)
      BY <3>4, AbstractSame DEF WriteBlock, Underflow
    <3>5. CASE ReadArray(t) \/ ReadNothing(t) \/ WriteArray(t)
      BY <3>5, AbstractSame DEF ReadArray, ReadNothing, WriteArray, content
    <3>6. CASE Unlock(t)
      BY <3>6, AbstractSame DEF Unlock, content
    <3>7. CASE \E c \in Calls : Begin(t, c)
      BY <3>7, AbstractSame DEF Begin, content
    <3> QED
      BY <2>2, <3>1, <3>2, <3>3, <3>4, <3>5, <3>6, <3>7 DEF Step, Ends
  <2> QED
    BY <2>1, <2>2 DEF Next
<1> QED
    BY <1>1, <1>2, Invariance, PTL
       DEF Spec, ImplementsAtomicStreams, Atomic!AtomicSpec
===============================================================================
