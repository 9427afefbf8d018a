----------------------------- MODULE ProcessProofs -----------------------------
(***************************************************************************)
(* Process: for any pipes, objects, children, descriptors and process_io,  *)
(* every child has one object that waits for it (WaitersKept), and every   *)
(* process has the descriptors that redirection promises (DescriptorsKept).*)
(*                                                                         *)
(* The first part is about numbers of children: WaitInv.  The second is    *)
(* about descriptor tables: what a redirection does to one table, then     *)
(* TabInv, which says it of all processes in all states.                   *)
(***************************************************************************)
EXTENDS Process, TLAPS

-------------------------------------------------------------------------------
(* The scope *)

Has(s, x) == \E i \in DOMAIN s : s[i] = x

LEMMA BuiltIsThere == \A x : Built(x) <=> Has(scope, x)
BY DEF Built, Has

LEMMA BuiltMore ==
    ASSUME scope \in Seq(Pipe \cup Obj), IsInjective(scope),
           NEW x \in Pipe \cup Obj, ~Has(scope, x), scope' = Append(scope, x)
    PROVE  /\ scope' \in Seq(Pipe \cup Obj) /\ IsInjective(scope')
           /\ \A y : Has(scope', y) <=> Has(scope, y) \/ y = x
<1>1. /\ scope' \in Seq(Pipe \cup Obj) /\ Len(scope) \in Nat
      /\ DOMAIN scope = 1 .. Len(scope) /\ DOMAIN scope' = 1 .. Len(scope) + 1
      /\ \A i \in 1 .. Len(scope) : scope'[i] = scope[i]
      /\ scope'[Len(scope) + 1] = x
    OBVIOUS
<1>2. \A i \in 1 .. Len(scope) : scope[i] # x
    BY <1>1 DEF Has
<1>3. IsInjective(scope')
  <2> SUFFICES ASSUME NEW i \in 1 .. Len(scope) + 1, NEW j \in 1 .. Len(scope) + 1,
                      scope'[i] = scope'[j]
               PROVE  i = j
    BY <1>1 DEF IsInjective
  <2>1. CASE i <= Len(scope) /\ j <= Len(scope)
    BY <1>1, <2>1 DEF IsInjective
  <2>2. CASE ~(i <= Len(scope) /\ j <= Len(scope))
    BY <1>1, <1>2, <2>2
  <2> QED
    BY <2>1, <2>2
<1>4. ASSUME NEW y PROVE Has(scope', y) <=> Has(scope, y) \/ y = x
  <2>1. Has(scope', y) => Has(scope, y) \/ y = x
    BY <1>1 DEF Has
  <2>2. Has(scope, y) => Has(scope', y)
    BY <1>1 DEF Has
  <2>3. Has(scope', x)
    BY <1>1 DEF Has
  <2> QED
    BY <2>1, <2>2, <2>3
<1> QED
    BY <1>1, <1>3, <1>4

LEMMA BuiltLess ==
    ASSUME scope \in Seq(Pipe \cup Obj), IsInjective(scope), NEW x,
           Unwinds(x), scope' = Front(scope)
    PROVE  /\ scope' \in Seq(Pipe \cup Obj) /\ IsInjective(scope') /\ Has(scope, x)
           /\ \A y : Has(scope', y) <=> Has(scope, y) /\ y # x
<1>1. /\ Len(scope) \in Nat /\ Len(scope) > 0 /\ scope[Len(scope)] = x
      /\ DOMAIN scope = 1 .. Len(scope)
    BY DEF Unwinds, Last
<1>2. /\ scope' \in Seq(Pipe \cup Obj)
      /\ DOMAIN scope' = 1 .. Len(scope) - 1
      /\ \A i \in 1 .. Len(scope) - 1 : scope'[i] = scope[i]
    BY <1>1 DEF Front
<1>3. IsInjective(scope')
    BY <1>1, <1>2 DEF IsInjective
<1>4. ASSUME NEW y PROVE Has(scope', y) <=> Has(scope, y) /\ y # x
  <2>1. ASSUME Has(scope', y) PROVE Has(scope, y) /\ y # x
    <3>1. PICK i \in 1 .. Len(scope) - 1 : scope[i] = y
      BY <1>2, <2>1 DEF Has
    <3>2. i \in 1 .. Len(scope) /\ Len(scope) \in 1 .. Len(scope) /\ i # Len(scope)
      <4>1. \A n \in Nat \ {0} : \A j \in 1 .. n - 1 : j \in 1 .. n /\ n \in 1 .. n /\ j # n
        OBVIOUS
      <4>2. Len(scope) \in Nat \ {0}
        BY <1>1
      <4> QED
        BY <4>1, <4>2
    <3> QED
      BY <1>1, <3>1, <3>2 DEF Has, IsInjective
  <2>2. ASSUME Has(scope, y), y # x PROVE Has(scope', y)
    <3>1. PICK i \in 1 .. Len(scope) : scope[i] = y
      BY <1>1, <2>2 DEF Has
    <3>2. i \in 1 .. Len(scope) - 1
      BY <1>1, <2>2, <3>1
    <3> QED
      BY <1>2, <3>1, <3>2 DEF Has
  <2> QED
    BY <2>1, <2>2
<1>5. Has(scope, x)
    BY <1>1 DEF Has
<1> QED
    BY <1>2, <1>3, <1>4, <1>5

-------------------------------------------------------------------------------
(* Who waits for whom *)

States == {"unborn", "child", "runs", "holds", "zombie", "reaped"}

WaitTypes ==
    /\ pid \in [Obj -> Kid \cup {-1}]
    /\ at \in [Kid -> States]
    /\ number \in [Kid -> Kid \cup {0}]
    /\ owner \in [Kid -> Obj \cup {None}]
    /\ scope \in Seq(Pipe \cup Obj) /\ IsInjective(scope)

\* No two children that can be waited for have the same number.
NumbersDiffer ==
    \A c \in Alive : /\ number[c] \in Kid
                     /\ \A b \in Alive : number[b] = number[c] => b = c

OwnersWait ==
    \A c \in Alive : owner[c] # None => Has(scope, owner[c]) /\ pid[owner[c]] = number[c]

\* An object that is not spent has a child: its number is nobody else's.
UnspentHaveChildren ==
    \A o \in Obj : Has(scope, o) /\ o \notin spent => \E c \in Alive : owner[c] = o

\* operator= waits only when the numbers differ, and they still do after it.
Assigning ==
    \A o, r \in Obj : pc = <<"assigns", o, r>> =>
        Has(scope, o) /\ Has(scope, r) /\ pid[o] # pid[r]

WaitInv == WaitTypes /\ NumbersDiffer /\ OwnersWait /\ UnspentHaveChildren /\ Assigning

LEMMA WaitersAreOne ==
    ASSUME WaitInv PROVE OneWaiter
<1> SUFFICES ASSUME NEW c \in Alive, NEW o \in Obj, Has(scope, o), pid[o] = number[c],
                    o \notin spent
             PROVE  o = owner[c]
    BY BuiltIsThere DEF WaitInv, OwnersWait, OneWaiter
<1>1. PICK b \in Alive : owner[b] = o
    BY DEF WaitInv, UnspentHaveChildren
<1>2. pid[o] = number[b]
    BY <1>1, NamesAssumption DEF WaitInv, OwnersWait
<1> QED
    BY <1>1, <1>2 DEF WaitInv, NumbersDiffer

LEMMA Calls ==
    ASSUME NEW o, NEW r
    PROVE  /\ <<"runs">> # <<"assigns", o, r>> /\ <<"unwinds">> # <<"assigns", o, r>>
           /\ \A p : <<"reads", p>> # <<"assigns", o, r>>
           /\ \A p, q : <<"joins", p, q>> # <<"assigns", o, r>>
           /\ <<"unwinds">> # <<"runs">>
           /\ \A p, q : <<"assigns", p, q>> = <<"assigns", o, r>> => p = o /\ q = r
    OBVIOUS

LEMMA WaitsInit == Init => WaitInv
<1> SUFFICES ASSUME Init PROVE WaitInv
    OBVIOUS
<1>1. Alive = {} /\ \A x : ~Has(scope, x)
    BY DEF Init, Alive, Has
<1>2. WaitTypes
    BY DEF Init, WaitTypes, States, IsInjective
<1>3. Assigning
    BY Calls DEF Init, Assigning
<1> QED
    BY <1>1, <1>2, <1>3 DEF WaitInv, NumbersDiffer, OwnersWait, UnspentHaveChildren

\* A step that leaves everyone alive who was, and the objects alone.
LEMMA AliveStays ==
    ASSUME WaitInv, at' \in [Kid -> States], Alive' = Alive,
           UNCHANGED <<pid, number, owner, spent, scope>>, Assigning'
    PROVE  WaitInv'
<1>1. \A x : Has(scope', x) <=> Has(scope, x)
    BY DEF Has
<1>2. WaitTypes'
    BY DEF WaitInv, WaitTypes
<1>3. NumbersDiffer'
    BY DEF WaitInv, NumbersDiffer
<1>4. OwnersWait'
    BY <1>1 DEF WaitInv, OwnersWait
<1>5. UnspentHaveChildren'
    BY <1>1 DEF WaitInv, UnspentHaveChildren
<1> QED
    BY <1>2, <1>3, <1>4, <1>5 DEF WaitInv

\* The scope grows or shrinks by a pipe.
LEMMA PipesBesides ==
    ASSUME WaitInv, UNCHANGED <<pid, at, number, owner, spent>>,
           scope' \in Seq(Pipe \cup Obj), IsInjective(scope'),
           \A o \in Obj : Has(scope', o) <=> Has(scope, o), Assigning'
    PROVE  WaitInv'
<1>1. Alive' = Alive
    BY DEF Alive
<1>2. WaitTypes'
    BY DEF WaitInv, WaitTypes
<1>3. NumbersDiffer'
    BY <1>1 DEF WaitInv, NumbersDiffer
<1>4. OwnersWait'
    BY <1>1 DEF WaitInv, OwnersWait, WaitTypes, Alive
<1>5. UnspentHaveChildren'
    BY <1>1 DEF WaitInv, UnspentHaveChildren
<1> QED
    BY <1>2, <1>3, <1>4, <1>5 DEF WaitInv

\* waitpid(n) reaps one of those it may wait for, or none.
LEMMA Waited ==
    ASSUME WaitInv, NEW n, Waits(n) \/ UNCHANGED at
    PROVE  /\ at' \in [Kid -> States] /\ Alive' \subseteq Alive
           /\ \A c \in Alive : c \notin Alive' => at'[c] = "reaped" /\ n \in {-1, number[c]}
           /\ \A o \in Obj \ Bereft : \A c \in Alive : owner[c] = o => c \in Alive'
<1>1. CASE UNCHANGED at
    BY <1>1 DEF WaitInv, WaitTypes, Alive
<1>2. CASE \E c \in Awaited(n) : at' = [at EXCEPT ![c] = "reaped"]
  <2>1. PICK c \in Awaited(n) : at' = [at EXCEPT ![c] = "reaped"]
    BY <1>2
  <2>2. c \in Alive /\ c \in Kid /\ n \in {-1, number[c]}
    BY DEF Awaited, Alive
  <2>3. at' \in [Kid -> States] /\ Alive' = Alive \ {c} /\ at'[c] = "reaped"
    BY <2>1, <2>2 DEF WaitInv, WaitTypes, Alive, States
  <2>4. \A o \in Obj \ Bereft : owner[c] # o
    BY <2>2, <2>3 DEF Bereft
  <2> QED
    BY <2>2, <2>3, <2>4
<1> QED
    BY <1>1, <1>2 DEF Waits

-------------------------------------------------------------------------------
LEMMA SpawnWaits ==
    ASSUME WaitInv, NEW o \in Obj, NEW i \in Ios, Spawn(o, i)
    PROVE  WaitInv'
<1>1. PICK c \in Kid, n \in Kid :
        /\ at[c] = "unborn"
        /\ \A b \in Alive : number[b] # n
        /\ at' = [at EXCEPT ![c] = "child"]
        /\ number' = [number EXCEPT ![c] = n]
        /\ pid' = [pid EXCEPT ![o] = n]
        /\ owner' = [owner EXCEPT ![c] = o]
    BY DEF Spawn
<1>2. /\ ~Has(scope, o) /\ Runs /\ scope' = Append(scope, o) /\ UNCHANGED pc
      /\ spent' = spent \ {o}
    BY BuiltIsThere DEF Spawn, IsNext
<1>3. /\ scope' \in Seq(Pipe \cup Obj) /\ IsInjective(scope')
      /\ \A y : Has(scope', y) <=> Has(scope, y) \/ y = o
    BY <1>2, BuiltMore DEF WaitInv, WaitTypes
<1>4. Alive' = Alive \cup {c} /\ c \notin Alive
    BY <1>1 DEF WaitInv, WaitTypes, Alive
<1>5. WaitTypes'
    BY <1>1, <1>3 DEF WaitInv, WaitTypes, States
<1>6. /\ \A b \in Alive : number'[b] = number[b] /\ owner'[b] = owner[b]
      /\ number'[c] = n /\ owner'[c] = o /\ pid'[o] = n
      /\ \A r \in Obj \ {o} : pid'[r] = pid[r]
    BY <1>1, <1>4 DEF WaitInv, WaitTypes
<1>7. NumbersDiffer'
    BY <1>1, <1>4, <1>6 DEF WaitInv, NumbersDiffer
<1>8. OwnersWait'
  <2> SUFFICES ASSUME NEW b \in Alive', owner'[b] # None
               PROVE  Has(scope', owner'[b]) /\ pid'[owner'[b]] = number'[b]
    BY DEF OwnersWait
  <2>1. CASE b = c
    BY <1>3, <1>6, <2>1
  <2>2. CASE b \in Alive
    <3>1. owner[b] \in Obj /\ Has(scope, owner[b]) /\ pid[owner[b]] = number[b]
      BY <1>6, <2>2 DEF WaitInv, WaitTypes, OwnersWait, Alive
    <3> QED
      BY <1>2, <1>3, <1>6, <2>2, <3>1
  <2> QED
    BY <1>4, <2>1, <2>2
<1>9. UnspentHaveChildren'
  <2> SUFFICES ASSUME NEW r \in Obj, Has(scope', r), r \notin spent'
               PROVE  \E b \in Alive' : owner'[b] = r
    BY DEF UnspentHaveChildren
  <2>1. CASE r = o
    BY <1>4, <1>6, <2>1
  <2>2. CASE r # o
    BY <1>2, <1>3, <1>4, <1>6, <2>2 DEF WaitInv, UnspentHaveChildren
  <2> QED
    BY <2>1, <2>2
<1>10. Assigning'
    BY <1>2, Calls DEF Runs, Assigning
<1> QED
    BY <1>5, <1>7, <1>8, <1>9, <1>10 DEF WaitInv

\* Everything that join, detach, moves and destructors do to the objects: o
\* gets the child of r, when there is an r, and loses its own; the wait that
\* came first may have reaped one.
LEMMA JoinWaits ==
    ASSUME WaitInv, NEW o \in Obj, JoinReturns(o)
    PROVE  WaitInv'
<1>1. /\ Waits(pid[o]) /\ pc' = <<"runs">> /\ spent' = spent \cup {o} \cup Bereft
      /\ UNCHANGED <<pid, scope, number, owner>>
    BY DEF JoinReturns
<1>2. /\ at' \in [Kid -> States] /\ Alive' \subseteq Alive
      /\ \A r \in Obj \ Bereft : \A c \in Alive : owner[c] = r => c \in Alive'
    BY <1>1, Waited
<1>3. \A x : Has(scope', x) <=> Has(scope, x)
    BY <1>1 DEF Has
<1>4. WaitTypes'
    BY <1>1, <1>2 DEF WaitInv, WaitTypes
<1>5. NumbersDiffer'
    BY <1>1, <1>2 DEF WaitInv, NumbersDiffer
<1>6. OwnersWait'
    BY <1>1, <1>2, <1>3 DEF WaitInv, OwnersWait
<1>7. UnspentHaveChildren'
    BY <1>1, <1>2, <1>3 DEF WaitInv, UnspentHaveChildren
<1>8. Assigning'
    BY <1>1, Calls DEF Assigning
<1> QED
    BY <1>4, <1>5, <1>6, <1>7, <1>8 DEF WaitInv

\* o has no child any more: its destructor, or detach.
LEMMA GivesUp ==
    ASSUME WaitInv, NEW o \in Obj, Waits(pid[o]) \/ UNCHANGED at,
           pid' = [pid EXCEPT ![o] = -1],
           owner' = [c \in Kid |-> IF owner[c] = o THEN None ELSE owner[c]],
           UNCHANGED <<number, pc>>, pc = <<"runs">> \/ pc = <<"unwinds">>,
           scope' \in Seq(Pipe \cup Obj), IsInjective(scope'),
           \A r \in Obj \ {o} : Has(scope', r) <=> Has(scope, r),
           spent \cup Bereft \subseteq spent', Has(scope', o) => o \in spent'
    PROVE  WaitInv'
<1>1. /\ at' \in [Kid -> States] /\ Alive' \subseteq Alive
      /\ \A r \in Obj \ Bereft : \A c \in Alive : owner[c] = r => c \in Alive'
    BY Waited
<1>2. \A c \in Alive : /\ c \in Kid
                       /\ owner[c] = o => owner'[c] = None
                       /\ owner[c] # o => owner'[c] = owner[c]
    BY DEF Alive
<1>3. \A r \in Obj \ {o} : pid'[r] = pid[r]
    BY DEF WaitInv, WaitTypes
<1>4. WaitTypes'
  <2>1. pid' \in [Obj -> Kid \cup {-1}]
    BY DEF WaitInv, WaitTypes
  <2>2. owner' \in [Kid -> Obj \cup {None}]
    BY DEF WaitInv, WaitTypes
  <2> QED
    BY <1>1, <2>1, <2>2 DEF WaitInv, WaitTypes
<1>5. NumbersDiffer'
    BY <1>1 DEF WaitInv, NumbersDiffer
<1>6. OwnersWait'
  <2> SUFFICES ASSUME NEW c \in Alive', owner'[c] # None
               PROVE  Has(scope', owner'[c]) /\ pid'[owner'[c]] = number'[c]
    BY DEF OwnersWait
  <2>1. c \in Alive /\ owner'[c] = owner[c] /\ owner[c] # o /\ owner[c] \in Obj
    BY <1>1, <1>2 DEF WaitInv, WaitTypes
  <2>2. Has(scope, owner[c]) /\ pid[owner[c]] = number[c]
    BY <2>1 DEF WaitInv, OwnersWait
  <2> QED
    BY <1>3, <2>1, <2>2
<1>7. UnspentHaveChildren'
  <2> SUFFICES ASSUME NEW r \in Obj, Has(scope', r), r \notin spent'
               PROVE  \E c \in Alive' : owner'[c] = r
    BY DEF UnspentHaveChildren
  <2>1. r # o /\ Has(scope, r) /\ r \notin spent /\ r \notin Bereft
    OBVIOUS
  <2>2. PICK c \in Alive : owner[c] = r
    BY <2>1 DEF WaitInv, UnspentHaveChildren
  <2> QED
    BY <1>1, <1>2, <2>1, <2>2
<1>8. Assigning'
    BY Calls DEF Assigning
<1> QED
    BY <1>4, <1>5, <1>6, <1>7, <1>8 DEF WaitInv

\* o takes the child of r, and a wait for its own may have come first.
LEMMA TakesOver ==
    ASSUME WaitInv, NEW o \in Obj, NEW r \in Obj, NEW bereft, o # r,
           \/ UNCHANGED at
           \/ Waits(pid[o]) /\ bereft = Bereft /\ pid[o] > 0 /\ pid[o] # pid[r],
           Take(o, r, bereft), UNCHANGED number, pc' = <<"runs">>,
           Has(scope, r), scope' \in Seq(Pipe \cup Obj), IsInjective(scope'),
           \A x \in Obj : Has(scope', x) <=> Has(scope, x) \/ x = o
    PROVE  WaitInv'
<1>1. /\ at' \in [Kid -> States] /\ Alive' \subseteq Alive
      /\ \A c \in Alive : c \notin Alive' => pid[o] \in {-1, number[c]} /\ pid[o] > 0
                                             /\ pid[o] # pid[r]
      /\ \A x \in Obj \ bereft : \A c \in Alive : owner[c] = x => c \in Alive'
  <2>1. CASE UNCHANGED at
    BY <2>1 DEF WaitInv, WaitTypes, Alive
  <2>2. CASE Waits(pid[o]) /\ bereft = Bereft /\ pid[o] > 0 /\ pid[o] # pid[r]
    BY <2>2, Waited
  <2> QED
    BY <2>1, <2>2
<1>2. /\ pid' = [pid EXCEPT ![o] = pid[r], ![r] = -1]
      /\ owner' = [c \in Kid |-> IF owner[c] = r THEN o
                                 ELSE IF owner[c] = o THEN None ELSE owner[c]]
      /\ spent' = (IF r \in spent THEN spent \cup {o} ELSE spent \ {o})
                     \cup {r} \cup (bereft \ {o})
    BY DEF Take
<1>3. \A c \in Alive : /\ c \in Kid /\ owner[c] \in Obj \cup {None}
                       /\ owner[c] = r => owner'[c] = o
                       /\ owner[c] = o => owner'[c] = None
                       /\ owner[c] \notin {o, r} => owner'[c] = owner[c]
    BY <1>2 DEF Alive, WaitInv, WaitTypes
<1>4. pid'[o] = pid[r] /\ \A x \in Obj \ {o, r} : pid'[x] = pid[x]
    BY <1>2 DEF WaitInv, WaitTypes
<1>5. WaitTypes'
  <2>1. pid' \in [Obj -> Kid \cup {-1}]
    BY <1>2 DEF WaitInv, WaitTypes
  <2>2. owner' \in [Kid -> Obj \cup {None}]
    BY <1>2 DEF WaitInv, WaitTypes
  <2> QED
    BY <1>1, <2>1, <2>2 DEF WaitInv, WaitTypes
<1>6. NumbersDiffer'
    BY <1>1 DEF WaitInv, NumbersDiffer
<1>7. OwnersWait'
  <2> SUFFICES ASSUME NEW c \in Alive', owner'[c] # None
               PROVE  Has(scope', owner'[c]) /\ pid'[owner'[c]] = number'[c]
    BY DEF OwnersWait
  <2>1. c \in Alive /\ owner[c] # None => Has(scope, owner[c]) /\ pid[owner[c]] = number[c]
    BY <1>1 DEF WaitInv, OwnersWait
  <2>2. CASE owner[c] = r
    BY <1>1, <1>3, <1>4, <2>1, <2>2, NamesAssumption
  <2>3. CASE owner[c] # r
    <3>1. c \in Alive /\ owner[c] \notin {o, r} /\ owner'[c] = owner[c] /\ owner[c] \in Obj
      BY <1>1, <1>3, <2>3
    <3> QED
      BY <1>4, <2>1, <3>1
  <2> QED
    BY <2>2, <2>3
<1>8. UnspentHaveChildren'
  <2> SUFFICES ASSUME NEW x \in Obj, Has(scope', x), x \notin spent'
               PROVE  \E c \in Alive' : owner'[c] = x
    BY DEF UnspentHaveChildren
  <2>1. CASE x = o
    <3>1. r \notin spent
      BY <1>2, <2>1
    <3>2. PICK c \in Alive : owner[c] = r
      BY <3>1 DEF WaitInv, UnspentHaveChildren
    <3>3. pid[r] = number[c] /\ number[c] \in Kid
      BY <3>2, NamesAssumption DEF WaitInv, OwnersWait, NumbersDiffer
    <3>4. c \in Alive'
      BY <1>1, <3>2, <3>3
    <3> QED
      BY <1>3, <2>1, <3>2, <3>4
  <2>2. CASE x # o
    <3>1. x # r /\ x \notin spent /\ x \notin bereft /\ Has(scope, x)
      BY <1>2, <2>2
    <3>2. PICK c \in Alive : owner[c] = x
      BY <3>1 DEF WaitInv, UnspentHaveChildren
    <3> QED
      BY <1>1, <1>3, <2>2, <3>1, <3>2
  <2> QED
    BY <2>1, <2>2
<1>9. Assigning'
    BY Calls DEF Assigning
<1> QED
    BY <1>5, <1>6, <1>7, <1>8, <1>9 DEF WaitInv

LEMMA AssignWaits ==
    ASSUME WaitInv, NEW o \in Obj, NEW r \in Obj, AssignReturns(o, r),
           Has(scope, o), Has(scope, r), pid[o] # pid[r]
    PROVE  WaitInv'
<1>1. /\ Take(o, r, Bereft) /\ UNCHANGED <<number, scope>> /\ pc' = <<"runs">>
      /\ \/ UNCHANGED at
         \/ Waits(pid[o]) /\ pid[o] > 0
    BY DEF AssignReturns, CloseImpl
<1>2. /\ o # r /\ scope' \in Seq(Pipe \cup Obj) /\ IsInjective(scope')
      /\ \A x \in Obj : Has(scope', x) <=> Has(scope, x) \/ x = o
    BY <1>1 DEF WaitInv, WaitTypes
<1> QED
    BY <1>1, <1>2, TakesOver

LEMMA DestroyWaits ==
    ASSUME WaitInv, NEW o \in Obj, Destroy(o)
    PROVE  WaitInv'
<1>1. /\ Unwinds(o) /\ scope' = Front(scope) /\ UNCHANGED <<number, pc>>
      /\ pc = <<"unwinds">> /\ (Waits(pid[o]) \/ UNCHANGED at)
      /\ pid' = [pid EXCEPT ![o] = -1] /\ spent' = spent \cup Bereft
      /\ owner' = [c \in Kid |-> IF owner[c] = o THEN None ELSE owner[c]]
    BY DEF Destroy, CloseImpl, Unwinds
<1>2. /\ scope' \in Seq(Pipe \cup Obj) /\ IsInjective(scope')
      /\ \A y : Has(scope', y) <=> Has(scope, y) /\ y # o
    BY <1>1, BuiltLess DEF WaitInv, WaitTypes
<1>3. /\ \A r \in Obj \ {o} : Has(scope', r) <=> Has(scope, r)
      /\ spent \cup Bereft \subseteq spent' /\ ~Has(scope', o)
    BY <1>1, <1>2
<1> QED
    BY <1>1, <1>2, <1>3, GivesUp

LEMMA PipeWaits ==
    ASSUME WaitInv, NEW p \in Pipe, MakePipe(p) \/ DestroyPipe(p)
    PROVE  WaitInv'
<1>1. UNCHANGED <<pid, at, number, owner, spent, pc>> /\ pc \in {<<"runs">>, <<"unwinds">>}
    BY DEF MakePipe, DestroyPipe, Runs, Unwinds, childVars, history
<1>2. Assigning'
    BY <1>1, Calls DEF Assigning
<1>3. p \notin Obj /\ scope \in Seq(Pipe \cup Obj) /\ IsInjective(scope)
    BY NamesAssumption DEF WaitInv, WaitTypes
<1>4. CASE MakePipe(p)
  <2>1. ~Has(scope, p) /\ scope' = Append(scope, p)
    BY <1>4, BuiltIsThere DEF MakePipe, IsNext
  <2> QED
    BY <1>1, <1>2, <1>3, <2>1, BuiltMore, PipesBesides
<1>5. CASE DestroyPipe(p)
  <2>1. Unwinds(p) /\ scope' = Front(scope)
    BY <1>5 DEF DestroyPipe
  <2> QED
    BY <1>1, <1>2, <1>3, <2>1, BuiltLess, PipesBesides
<1> QED
    BY <1>4, <1>5

\* The steps of a child between its fork and its end.
LEMMA KidWaits ==
    ASSUME WaitInv, NEW c \in Kid, KidStep(c)
    PROVE  WaitInv'
<1>1. UNCHANGED <<pid, number, owner, spent, scope, pc>>
    BY DEF KidStep, Exec, KidReads, KidWrites, parentVars
<1>2. c \in Alive
    BY DEF KidStep, Exec, KidReads, KidWrites, Alive
<1>3. \/ at' = [at EXCEPT ![c] = "runs"] \/ at' = [at EXCEPT ![c] = "holds"]
      \/ at' = [at EXCEPT ![c] = "zombie"]
    BY DEF KidStep, Exec, KidReads, KidWrites, Ends
<1>4. at' \in [Kid -> States] /\ Alive' = Alive
    BY <1>2, <1>3 DEF WaitInv, WaitTypes, States, Alive
<1>5. Assigning'
    BY <1>1 DEF WaitInv, Assigning
<1> QED
    BY <1>1, <1>4, <1>5, AliveStays

\* The parent's other calls, which change no child and no object.
LEMMA CallWaits ==
    ASSUME WaitInv, UNCHANGED <<pid, at, number, owner, spent, scope>>,
           UNCHANGED pc \/ pc' = <<"runs">> \/ pc' = <<"unwinds">>
             \/ (\E p : pc' = <<"reads", p>>) \/ (\E p, q : pc' = <<"joins", p, q>>)
             \/ \E o, r \in Obj : pc' = <<"assigns", o, r>> /\ Has(scope, o)
                                    /\ Has(scope, r) /\ pid[o] # pid[r]
    PROVE  WaitInv'
<1>1. at' \in [Kid -> States] /\ Alive' = Alive
    BY DEF WaitInv, WaitTypes, Alive
<1>2. Assigning'
  <2> SUFFICES ASSUME NEW o \in Obj, NEW r \in Obj, pc' = <<"assigns", o, r>>
               PROVE  Has(scope, o) /\ Has(scope, r) /\ pid[o] # pid[r]
    BY DEF Assigning
  <2>1. pc' # <<"runs">> /\ pc' # <<"unwinds">> /\ (\A p : pc' # <<"reads", p>>)
        /\ \A p, q : pc' # <<"joins", p, q>>
    BY Calls
  <2>2. CASE UNCHANGED pc
    BY <2>2 DEF WaitInv, Assigning
  <2>3. CASE \E x, y \in Obj : pc' = <<"assigns", x, y>> /\ Has(scope, x)
                                 /\ Has(scope, y) /\ pid[x] # pid[y]
    BY <2>3, Calls
  <2> QED
    BY <2>1, <2>2, <2>3
<1> QED
    BY <1>1, <1>2, AliveStays

LEMMA WaitsNext ==
    ASSUME WaitInv, [Next]_vars
    PROVE  WaitInv'
<1>1. ASSUME NEW p \in Pipe, MakePipe(p) \/ DestroyPipe(p) PROVE WaitInv'
    BY <1>1, PipeWaits
<1>2. ASSUME NEW p \in Pipe,
             PutChar(p) \/ BeginRead(p) \/ ReadOn(p) \/ \E side \in {"r", "w"} : CloseEnd(p, side)
      PROVE  WaitInv'
  <2>1. UNCHANGED <<pid, at, number, owner, spent, scope>>
    BY <1>2 DEF PutChar, BeginRead, ReadOn, CloseEnd, parentVars, childVars, history
  <2>2. UNCHANGED pc \/ pc' = <<"runs">> \/ \E q : pc' = <<"reads", q>>
    BY <1>2 DEF PutChar, BeginRead, ReadOn, CloseEnd, parentVars
  <2> QED
    BY <2>1, <2>2, CallWaits
<1>3. ASSUME NEW o \in Obj, NEW i \in Ios, Spawn(o, i) PROVE WaitInv'
    BY <1>3, SpawnWaits
<1>4. ASSUME NEW o \in Obj, JoinReturns(o) PROVE WaitInv'
    BY <1>4, JoinWaits
<1>5. ASSUME NEW call, NEW n, Blocks(call, n),
             \/ \E p, q : call = <<"joins", p, q>>
             \/ \E o, r \in Obj : call = <<"assigns", o, r>> /\ Has(scope, o)
                                    /\ Has(scope, r) /\ pid[o] # pid[r]
      PROVE  WaitInv'
  <2>1. UNCHANGED <<pid, at, number, owner, spent, scope>> /\ pc' = call
    BY <1>5 DEF Blocks, childVars, history
  <2> QED
    BY <1>5, <2>1, CallWaits
<1>6. ASSUME NEW o \in Obj, Detach(o) PROVE WaitInv'
  <2>1. /\ Runs /\ UNCHANGED <<at, scope, pc, number>> /\ spent' = spent \cup {o}
        /\ pid' = [pid EXCEPT ![o] = -1]
        /\ owner' = [c \in Kid |-> IF owner[c] = o THEN None ELSE owner[c]]
    BY <1>6 DEF Detach, childVars
  <2>2. Bereft = {}
    BY <2>1 DEF Bereft, Alive
  <2>3. /\ scope' \in Seq(Pipe \cup Obj) /\ IsInjective(scope')
        /\ spent \cup Bereft \subseteq spent' /\ o \in spent'
        /\ \A r \in Obj \ {o} : Has(scope', r) <=> Has(scope, r)
    BY <2>1, <2>2 DEF WaitInv, WaitTypes
  <2> QED
    BY <2>1, <2>3, GivesUp DEF Runs
<1>7. ASSUME NEW o \in Obj, NEW r \in Obj \ {o}, MoveConstruct(o, r) PROVE WaitInv'
  <2>1. /\ UNCHANGED <<at, number, pc>> /\ pc = <<"runs">> /\ Take(o, r, {})
        /\ ~Has(scope, o) /\ Has(scope, r) /\ scope' = Append(scope, o)
    BY <1>7, BuiltIsThere DEF MoveConstruct, IsNext, Runs, childVars
  <2>2. /\ scope' \in Seq(Pipe \cup Obj) /\ IsInjective(scope')
        /\ \A y : Has(scope', y) <=> Has(scope, y) \/ y = o
    BY <2>1, BuiltMore DEF WaitInv, WaitTypes
  <2> QED
    BY <2>1, <2>2, TakesOver
<1>8. ASSUME NEW o \in Obj, NEW r \in Obj \ {o}, MoveAssign(o, r) PROVE WaitInv'
  <2>1. Has(scope, o) /\ Has(scope, r) /\ pid[o] # pid[r]
    BY <1>8, BuiltIsThere DEF MoveAssign
  <2>2. CASE AssignReturns(o, r)
    BY <2>1, <2>2, AssignWaits
  <2>3. CASE Blocks(<<"assigns", o, r>>, pid[o])
    BY <1>5, <2>1, <2>3
  <2> QED
    BY <1>8, <2>2, <2>3 DEF MoveAssign
<1>9. ASSUME NEW o \in Obj, Join(o) PROVE WaitInv'
    BY <1>4, <1>5, <1>9 DEF Join
<1>10. ASSUME EndScope PROVE WaitInv'
  <2>1. UNCHANGED <<pid, at, number, owner, spent, scope>> /\ pc' = <<"unwinds">>
    BY <1>10 DEF EndScope, childVars, history
  <2> QED
    BY <2>1, CallWaits
<1>11. ASSUME ParentGoesOn PROVE WaitInv'
  <2>1. ASSUME NEW o \in Obj, NEW r \in Obj, pc = <<"assigns", o, r>>, AssignReturns(o, r)
        PROVE  WaitInv'
    <3>1. Has(scope, o) /\ Has(scope, r) /\ pid[o] # pid[r]
      BY <2>1 DEF WaitInv, Assigning
    <3> QED
      BY <2>1, <3>1, AssignWaits
  <2>2. ASSUME NEW o \in Obj, Destroy(o) PROVE WaitInv'
    BY <2>2, DestroyWaits
  <2> QED
    BY <1>1, <1>2, <1>4, <1>11, <2>1, <2>2 DEF ParentGoesOn
<1>12. ASSUME NEW c \in Kid, KidStep(c) PROVE WaitInv'
    BY <1>12, KidWaits
<1>13. CASE UNCHANGED vars
  <2>1. UNCHANGED <<pid, at, number, owner, spent, scope, pc>>
    BY <1>13 DEF vars, parentVars, childVars, history
  <2> QED
    BY <2>1, CallWaits
<1> QED
    BY <1>1, <1>2, <1>3, <1>6, <1>7, <1>8, <1>9, <1>10, <1>11, <1>12, <1>13 DEF Next

\* No process is waited for by two objects that have it from a constructor or a
\* move: a number stands for one child, and only an object whose child is gone
\* may hold the number of another's.
THEOREM WaitersKept == Spec => []OneWaiter
<1>1. Init => WaitInv
    BY WaitsInit
<1>2. WaitInv /\ [Next]_vars => WaitInv'
    BY WaitsNext
<1>3. WaitInv => OneWaiter
    BY WaitersAreOne
<1> QED
    BY <1>1, <1>2, <1>3, PTL DEF Spec

-------------------------------------------------------------------------------
(* Redirections.  t0 is the table that a child was forked with, m the numbers *)
(* of its pipes, and t the table after some of them.                          *)

Std == {0, 1, 2}
Tables == [Fds -> End \cup {Tty, Free}]
Numbers == [Pipe -> [{"r", "w"} -> Fds \cup {-1}]]
IoArgs == [Slot -> {None} \cup Pipe \cup Std]

\* The ends in t are where m has their numbers.
Current(t, m) == \A e \in End, f \in Fds : t[f] = e <=> m[e.pipe][e.side] = f

StdTty(t) == \A f \in Std : t[f] = Tty
Above(t, t0) == \A f \in Fds \ Std : t[f] \in {t0[f], Free}

EndOf(p, s) == [pipe |-> p, side |-> s]
Absent(t, p, s) == \A f \in Fds : t[f] # EndOf(p, s)

SideOf(n) == IF n = 0 THEN "r" ELSE "w"
OtherSide(n) == IF n = 0 THEN "w" ELSE "r"

\* A child that has a reading end for a stream has no writing end of that pipe.
ReadersOnly(t) ==
    \A p \in Pipe : (\E f \in Std : t[f] = EndOf(p, "r")) => Absent(t, p, "w")

\* RedirectionHolds, of one child.
Given(t, i) ==
    LET At(n, s, side) ==
            i[s] \in Pipe =>
               /\ t[n] = [pipe |-> i[s], side |-> side]
               /\ \A f \in Fds : t[f] \in End =>
                     t[f].pipe # i[s] \/ t[f].side = side
    IN  /\ At(0, "in", "r") /\ At(1, "out", "w") /\ At(2, "err", "w")
        /\ i.err = 1 => t[2] = t[1]

LEMMA Ends2 ==
    /\ \A p \in Pipe, s \in {"r", "w"} : /\ EndOf(p, s) \in End /\ EndOf(p, s) # Tty
                                         /\ EndOf(p, s) # Free
                                         /\ EndOf(p, s).pipe = p /\ EndOf(p, s).side = s
    /\ \A p, q, s, u : EndOf(p, s) = EndOf(q, u) => p = q /\ s = u
    /\ \A e \in End : e.pipe \in Pipe /\ e.side \in {"r", "w"} /\ e = EndOf(e.pipe, e.side)
    /\ Tty # Free /\ Free \notin End /\ Tty \notin End
<1>1. \A p \in Pipe, s \in {"r", "w"} : EndOf(p, s) \in End
    BY DEF EndOf, End
<1>2. \A p, q, s, u : EndOf(p, s) = EndOf(q, u) => p = q /\ s = u
  <2> SUFFICES ASSUME NEW p, NEW q, NEW s, NEW u, EndOf(p, s) = EndOf(q, u)
               PROVE  p = q /\ s = u
    OBVIOUS
  <2>1. EndOf(p, s).pipe = p /\ EndOf(q, u).pipe = q /\ EndOf(p, s).side = s
        /\ EndOf(q, u).side = u
    BY DEF EndOf
  <2> QED
    BY <2>1
<1>3. \A e \in End : e.pipe \in Pipe /\ e.side \in {"r", "w"} /\ e = EndOf(e.pipe, e.side)
    BY DEF EndOf, End
<1>4. \A p, s : EndOf(p, s).pipe = p /\ EndOf(p, s).side = s
    BY DEF EndOf
<1>5. Tty # Free /\ Free \notin End /\ Tty \notin End
    BY NamesAssumption
<1> QED
    BY <1>1, <1>2, <1>3, <1>4, <1>5

LEMMA CurrentAt ==
    ASSUME NEW t, NEW m, Current(t, m), NEW p \in Pipe, NEW s \in {"r", "w"}, NEW f \in Fds
    PROVE  t[f] = EndOf(p, s) <=> m[p][s] = f
<1>1. EndOf(p, s) \in End /\ EndOf(p, s).pipe = p /\ EndOf(p, s).side = s
    BY Ends2
<1>2. t[f] = EndOf(p, s) <=> m[EndOf(p, s).pipe][EndOf(p, s).side] = f
    BY <1>1 DEF Current
<1> QED
    BY <1>1, <1>2

LEMMA RedirectStep ==
    ASSUME NEW t \in Tables, NEW from, NEW to \in Fds, NEW shut \in Fds \cup {-1},
           Redirect(t, from, to, shut) # Empty
    PROVE  /\ t # Empty /\ from \in Fds /\ t[from] # Free
           /\ Redirect(t, from, to, shut) \in Tables
           /\ \A f \in Fds : Redirect(t, from, to, shut)[f] =
                 IF f = shut THEN Free ELSE IF f = to THEN t[from] ELSE t[f]
<1>1. t # Empty /\ from \in Fds /\ t[from] # Free
    BY DEF Redirect
<1> DEFINE u == [t EXCEPT ![to] = t[from]]
<1>3. /\ u \in Tables
      /\ \A f \in Fds : u[f] = IF f = to THEN t[from] ELSE t[f]
    BY <1>1 DEF Tables
<1>4. Redirect(t, from, to, shut) = IF shut = -1 THEN u ELSE [u EXCEPT ![shut] = Free]
    BY <1>1 DEF Redirect, MyClose, Table!Dup2, Table!CloseFd
<1> HIDE DEF u
<1>5. CASE shut = -1
  <2>1. \A f \in Fds : f # shut
    BY <1>5, FdsAssumption
  <2> QED
    BY <1>1, <1>3, <1>4, <1>5, <2>1
<1>6. CASE shut # -1
  <2>1. shut \in Fds
    BY <1>6
  <2> DEFINE v == [u EXCEPT ![shut] = Free]
  <2>2. v \in Tables /\ \A f \in Fds : v[f] = IF f = shut THEN Free ELSE u[f]
    BY <1>3, <2>1 DEF Tables
  <2> QED
    BY <1>1, <1>3, <1>4, <1>6, <2>2
<1> QED
    BY <1>5, <1>6

LEMMA RedirectOnly ==
    ASSUME NEW t \in Tables, NEW from, NEW to \in Fds, Redirect(t, from, to, -1) # Empty
    PROVE  /\ t # Empty /\ from \in Fds /\ t[from] # Free
           /\ Redirect(t, from, to, -1) \in Tables
           /\ \A f \in Fds : Redirect(t, from, to, -1)[f] = IF f = to THEN t[from] ELSE t[f]
<1>1. t # Empty /\ from \in Fds /\ t[from] # Free
    BY DEF Redirect
<1>2. Redirect(t, from, to, -1) = [t EXCEPT ![to] = t[from]]
    BY <1>1 DEF Redirect, MyClose, Table!Dup2
<1> QED
    BY <1>1, <1>2 DEF Tables

LEMMA RedirectionType ==
    ASSUME NEW t \in Tables, NEW m \in Numbers, NEW n \in Std, NEW x
    PROVE  Redirection(t, m, n, x) \in Tables
<1>1. Empty \in Tables /\ n \in Fds
    BY FdsAssumption DEF Empty, Tables, Std
<1>2. \A from : \A shut \in Fds \cup {-1} : Redirect(t, from, n, shut) \in Tables
    BY <1>1, RedirectStep
<1>3. x \in Pipe => m[x].r \in Fds \cup {-1} /\ m[x].w \in Fds \cup {-1}
    BY DEF Numbers
<1> QED
    BY <1>2, <1>3 DEF Redirection

\* One redirection that does not fail.
LEMMA RedirectionStep ==
    ASSUME NEW t0 \in Tables, NEW m \in Numbers, Current(t0, m), StdTty(t0),
           NEW t \in Tables, Above(t, t0), NEW n \in Std,
           NEW x \in {None} \cup Pipe \cup Std, NEW u,
           u = Redirection(t, m, n, x), u # Empty
    PROVE  /\ t # Empty /\ u \in Tables /\ Above(u, t0)
           /\ \A f \in Std \ {n} : u[f] = t[f]
           /\ \A f \in Fds : u[f] = Free \/ \E g \in Fds : u[f] = t[g]
           /\ x = None => u = t
           /\ x \in Std => u[n] = t[x]
           /\ x \in Pipe =>
                /\ u[n] = EndOf(x, SideOf(n))
                /\ \A f \in Fds \ Std : u[f] # EndOf(x, OtherSide(n))
                /\ \E g \in Fds : t[g] = EndOf(x, SideOf(n))
<1>1. Std \subseteq Fds /\ None \notin Pipe /\ None \notin Std /\ Pipe \cap Std = {}
    BY FdsAssumption, NamesAssumption DEF Std
<1>2. \A p \in Pipe, s \in {"r", "w"} : m[p][s] \in Fds \cup {-1} /\ m[p][s] \notin Std
  <2> SUFFICES ASSUME NEW p \in Pipe, NEW s \in {"r", "w"}, m[p][s] \in Std PROVE FALSE
    BY DEF Numbers
  <2>1. t0[m[p][s]] = EndOf(p, s)
    BY <1>1, CurrentAt
  <2> QED
    BY <2>1, Ends2 DEF StdTty
<1>3. CASE x = None
    BY <1>1, <1>3 DEF Redirection
<1>4. CASE x \in Std
  <2>1. u = Redirect(t, x, n, -1)
    BY <1>1, <1>4 DEF Redirection
  <2>2. n \in Fds /\ Redirect(t, x, n, -1) # Empty
    BY <1>1, <2>1
  <2>3. /\ t # Empty /\ u \in Tables
        /\ \A f \in Fds : u[f] = IF f = n THEN t[x] ELSE t[f]
    BY <2>1, <2>2, RedirectOnly
  <2> QED
    BY <1>1, <1>4, <2>3 DEF Above
<1>5. CASE x \in Pipe
  <2> DEFINE from == m[x][SideOf(n)]
             shut == m[x][OtherSide(n)]
  <2>1. u = Redirect(t, from, n, shut)
    BY <1>1, <1>5 DEF Redirection, SideOf, OtherSide
  <2>2. SideOf(n) \in {"r", "w"} /\ OtherSide(n) \in {"r", "w"} /\ SideOf(n) # OtherSide(n)
    BY DEF SideOf, OtherSide
  <2>3. shut \in Fds \cup {-1} /\ shut \notin Std /\ from \notin Std
    BY <1>2, <1>5, <2>2
  <2> HIDE DEF from, shut
  <2>4. /\ t # Empty /\ u \in Tables /\ from \in Fds /\ t[from] # Free
        /\ \A f \in Fds : u[f] = IF f = shut THEN Free ELSE IF f = n THEN t[from] ELSE t[f]
    <3>1. n \in Fds /\ Redirect(t, from, n, shut) # Empty
      BY <1>1, <2>1
    <3> QED
      BY <2>1, <2>3, <3>1, RedirectStep
  <2>5. t0[from] = EndOf(x, SideOf(n))
    BY <1>5, <2>2, <2>4, CurrentAt DEF from
  <2>6. t[from] = EndOf(x, SideOf(n))
    BY <2>3, <2>4, <2>5 DEF Above
  <2>7. u[n] = EndOf(x, SideOf(n))
    BY <1>1, <2>3, <2>4, <2>6
  <2>8. \A f \in Fds \ Std : u[f] \in {t[f], Free} /\ f # n
    BY <2>4
  <2>9. Above(u, t0)
    BY <2>8 DEF Above
  <2>10. ASSUME NEW f \in Fds \ Std PROVE u[f] # EndOf(x, OtherSide(n))
    <3> SUFFICES ASSUME u[f] = EndOf(x, OtherSide(n)) PROVE FALSE
      OBVIOUS
    <3>1. u[f] # Free
      BY <1>5, <2>2, Ends2
    <3>2. t0[f] = EndOf(x, OtherSide(n)) /\ f # shut
      BY <2>4, <2>9, <3>1, Ends2 DEF Above
    <3>3. m[x][OtherSide(n)] = f
      BY <1>5, <2>2, <3>2, CurrentAt
    <3> QED
      BY <3>2, <3>3 DEF shut
  <2>11. \A f \in Std \ {n} : u[f] = t[f]
    BY <1>1, <2>3, <2>4
  <2>12. \A f \in Fds : u[f] = Free \/ \E g \in Fds : u[f] = t[g]
    BY <2>4
  <2> QED
    BY <1>1, <1>5, <2>4, <2>6, <2>7, <2>9, <2>10, <2>11, <2>12
<1> QED
    BY <1>3, <1>4, <1>5

\* What is nowhere in the table stays out of it, and what is there before a
\* redirection and has no reader for a stream stays so.
LEMMA StaysAbsent ==
    ASSUME NEW t, NEW u, \A f \in Fds : u[f] = Free \/ \E g \in Fds : u[f] = t[g],
           NEW p \in Pipe, NEW s \in {"r", "w"}, Absent(t, p, s)
    PROVE  Absent(u, p, s)
BY Ends2 DEF Absent

LEMMA FirstRedirection ==
    ASSUME NEW t0 \in Tables, NEW m \in Numbers, Current(t0, m), StdTty(t0),
           NEW x \in {None} \cup Pipe \cup Std, NEW u,
           u = Redirection(t0, m, 0, x), u # Empty
    PROVE  /\ ReadersOnly(u)
           /\ x \in Pipe => u[0] = EndOf(x, "r") /\ Absent(u, x, "w")
<1>1. Above(t0, t0) /\ 0 \in Std
    BY DEF Above, Std
<1>2. /\ \A f \in Std \ {0} : u[f] = t0[f]
      /\ x = None => u = t0
      /\ x \in Std => u[0] = t0[x]
      /\ x \in Pipe =>
           /\ u[0] = EndOf(x, SideOf(0))
           /\ \A f \in Fds \ Std : u[f] # EndOf(x, OtherSide(0))
    BY <1>1, RedirectionStep
<1>3. SideOf(0) = "r" /\ OtherSide(0) = "w"
    BY DEF SideOf, OtherSide
<1>4. \A f \in Std \ {0} : u[f] = Tty
    BY <1>2 DEF StdTty
<1>5. CASE x \in Pipe
  <2>1. u[0] = EndOf(x, "r") /\ Absent(u, x, "w")
    <3>1. \A f \in Std : u[f] # EndOf(x, "w")
      BY <1>2, <1>3, <1>4, <1>5, Ends2
    <3> QED
      BY <1>2, <1>3, <1>5, <3>1 DEF Absent
  <2>2. ASSUME NEW p \in Pipe, NEW f \in Std, u[f] = EndOf(p, "r") PROVE p = x
    BY <1>4, <2>1, <2>2, Ends2
  <2> QED
    BY <2>1, <2>2 DEF ReadersOnly
<1>6. CASE x \notin Pipe
  <2>1. \A f \in Std : u[f] = Tty
    BY <1>1, <1>2, <1>4, <1>6 DEF StdTty
  <2> QED
    BY <1>6, <2>1, Ends2 DEF ReadersOnly
<1> QED
    BY <1>5, <1>6

LEMMA LaterRedirection ==
    ASSUME NEW t0 \in Tables, NEW m \in Numbers, Current(t0, m), StdTty(t0),
           NEW t \in Tables, Above(t, t0), ReadersOnly(t), NEW n \in {1, 2},
           NEW x \in {None} \cup Pipe \cup Std, NEW u,
           u = Redirection(t, m, n, x), u # Empty
    PROVE  /\ ReadersOnly(u)
           /\ x \in Pipe => u[n] = EndOf(x, "w") /\ Absent(u, x, "r")
<1>1. n \in Std /\ SideOf(n) = "w" /\ OtherSide(n) = "r"
    BY DEF Std, SideOf, OtherSide
<1>2. /\ \A f \in Std \ {n} : u[f] = t[f]
      /\ \A f \in Fds : u[f] = Free \/ \E g \in Fds : u[f] = t[g]
      /\ x = None => u = t
      /\ x \in Std => u[n] = t[x]
      /\ x \in Pipe =>
           /\ u[n] = EndOf(x, SideOf(n))
           /\ \A f \in Fds \ Std : u[f] # EndOf(x, OtherSide(n))
           /\ \E g \in Fds : t[g] = EndOf(x, SideOf(n))
    BY <1>1, RedirectionStep
<1>3. ASSUME NEW p \in Pipe, NEW f \in Std, u[f] = EndOf(p, "r")
      PROVE  \E g \in Std : t[g] = EndOf(p, "r")
  <2>1. CASE f # n
    BY <1>2, <1>3, <2>1
  <2>2. CASE f = n /\ x \in Pipe
    BY <1>1, <1>2, <1>3, <2>2, Ends2
  <2>3. CASE f = n /\ x \notin Pipe
    BY <1>1, <1>2, <1>3, <2>3
  <2> QED
    BY <2>1, <2>2, <2>3
<1>4. ReadersOnly(u)
  <2> SUFFICES ASSUME NEW p \in Pipe, NEW f \in Std, u[f] = EndOf(p, "r")
               PROVE  Absent(u, p, "w")
    BY DEF ReadersOnly
  <2>1. Absent(t, p, "w")
    BY <1>3 DEF ReadersOnly
  <2> QED
    BY <1>2, <2>1, StaysAbsent
<1>5. ASSUME x \in Pipe PROVE u[n] = EndOf(x, "w") /\ Absent(u, x, "r")
  <2>1. \A f \in Fds \ Std : u[f] # EndOf(x, "r")
    BY <1>1, <1>2, <1>5
  <2>2. ASSUME NEW f \in Std, u[f] = EndOf(x, "r") PROVE FALSE
    <3>1. Absent(t, x, "w")
      BY <1>3, <1>5, <2>2 DEF ReadersOnly
    <3>2. \E g \in Fds : t[g] = EndOf(x, "w")
      BY <1>1, <1>2, <1>5
    <3> QED
      BY <3>1, <3>2 DEF Absent
  <2> QED
    BY <1>1, <1>2, <1>5, <2>1, <2>2 DEF Absent
<1> QED
    BY <1>4, <1>5

LEMMA RedirectedType ==
    ASSUME NEW t \in Tables, NEW m \in Numbers, NEW i
    PROVE  Redirected(t, m, i) \in Tables
<1>1. 0 \in Std /\ 1 \in Std /\ 2 \in Std
    BY DEF Std
<1> QED
    BY <1>1, RedirectionType DEF Redirected

\* A child whose redirections succeed has the streams it was given.
LEMMA RedirectedGives ==
    ASSUME NEW t0 \in Tables, NEW m \in Numbers, Current(t0, m), StdTty(t0),
           NEW i \in IoArgs, NEW u, u = Redirected(t0, m, i), u # Empty
    PROVE  Given(u, i)
<1> DEFINE t1 == Redirection(t0, m, 0, i.in)
           t2 == Redirection(t1, m, 1, i.out)
<1>1. u = Redirection(t2, m, 2, i.err)
    BY DEF Redirected
<1>2. /\ i.in \in {None} \cup Pipe \cup Std /\ i.out \in {None} \cup Pipe \cup Std
      /\ i.err \in {None} \cup Pipe \cup Std
      /\ 0 \in Std /\ 1 \in Std /\ 2 \in Std /\ Above(t0, t0) /\ 1 \in {1, 2} /\ 2 \in {1, 2}
    BY DEF IoArgs, Slot, Std, Above
<1>3. t1 \in Tables /\ t2 \in Tables
    BY <1>2, RedirectionType
<1> HIDE DEF t2
<1>4. t2 # Empty
  <2>1. t2 # Empty \/ \A n, x : Redirection(t2, m, n, x) \in {t2, Empty}
    BY DEF Redirection, Redirect
  <2> QED
    BY <1>1, <2>1
<1>5. t1 # Empty
  <2>1. t1 # Empty \/ \A n, x : Redirection(t1, m, n, x) \in {t1, Empty}
    BY DEF Redirection, Redirect
  <2> QED
    BY <1>4, <2>1 DEF t2
<1> HIDE DEF t1
<1>6. t1 = Redirection(t0, m, 0, i.in) /\ t2 = Redirection(t1, m, 1, i.out)
    BY DEF t1, t2
<1>7. /\ ReadersOnly(t1)
      /\ i.in \in Pipe => t1[0] = EndOf(i.in, "r") /\ Absent(t1, i.in, "w")
    BY <1>2, <1>5, <1>6, FirstRedirection
<1>8. Above(t1, t0)
    BY <1>2, <1>5, <1>6, RedirectionStep
<1>9. /\ ReadersOnly(t2)
      /\ i.out \in Pipe => t2[1] = EndOf(i.out, "w") /\ Absent(t2, i.out, "r")
    BY <1>2, <1>3, <1>4, <1>6, <1>7, <1>8, LaterRedirection
<1>10. /\ Above(t2, t0)
       /\ \A f \in Std \ {1} : t2[f] = t1[f]
       /\ \A f \in Fds : t2[f] = Free \/ \E g \in Fds : t2[f] = t1[g]
    BY <1>2, <1>3, <1>4, <1>6, <1>8, RedirectionStep
<1>11. i.err \in Pipe => u[2] = EndOf(i.err, "w") /\ Absent(u, i.err, "r")
    BY <1>1, <1>2, <1>3, <1>9, <1>10, LaterRedirection
<1>12. /\ \A f \in Std \ {2} : u[f] = t2[f]
       /\ \A f \in Fds : u[f] = Free \/ \E g \in Fds : u[f] = t2[g]
       /\ i.err \in Std => u[2] = t2[i.err]
    BY <1>1, <1>2, <1>3, <1>10, RedirectionStep
<1>13. u[0] = t1[0] /\ u[1] = t2[1]
    BY <1>10, <1>12 DEF Std
<1>14. i.in \in Pipe => u[0] = EndOf(i.in, "r") /\ Absent(u, i.in, "w")
  <2> SUFFICES ASSUME i.in \in Pipe PROVE Absent(u, i.in, "w")
    BY <1>7, <1>13
  <2>1. Absent(t2, i.in, "w")
    BY <1>7, <1>10, StaysAbsent
  <2> QED
    BY <1>12, <2>1, StaysAbsent
<1>15. i.out \in Pipe => u[1] = EndOf(i.out, "w") /\ Absent(u, i.out, "r")
  <2> SUFFICES ASSUME i.out \in Pipe PROVE Absent(u, i.out, "r")
    BY <1>9, <1>13
  <2> QED
    BY <1>9, <1>12, StaysAbsent
<1>16. \A p \in Pipe : \A f \in Fds :
          u[f] \in End /\ u[f].pipe = p =>
             /\ Absent(u, p, "w") => u[f].side = "r"
             /\ Absent(u, p, "r") => u[f].side = "w"
    BY Ends2 DEF Absent
<1>17. i.err = 1 => u[2] = u[1]
    BY <1>12, <1>13 DEF Std
<1> QED
    BY <1>11, <1>14, <1>15, <1>16, <1>17 DEF Given, EndOf

-------------------------------------------------------------------------------
(* The tables of all processes *)

TabTypes ==
    /\ tab \in [Proc -> Tables] /\ num \in Numbers
    /\ at \in [Kid -> States]
    /\ copy \in [Kid -> Numbers] /\ io \in [Kid -> IoArgs]

Counts == content \in [Pipe -> 0 .. Room] /\ chars \in 0 .. MaxChars

Unbuilt == \A p \in Pipe : ~Has(scope, p) => \A s \in {"r", "w"} : num[p][s] = -1

\* A child that has not called exec has the parent's streams, and its copies of
\* the numbers are right in its own table.
Forked(c) ==
    at[c] = "child" =>
        Current(tab[c], copy[c]) /\ (StdTty(tab[Parent]) => StdTty(tab[c]))

Streams(c) ==
    at[c] \in {"runs", "holds"} /\ StdTty(tab[Parent]) => Given(tab[c], io[c])

Ended(c) == at[c] \notin {"child", "runs", "holds"} => tab[c] = Empty

TabInv ==
    /\ TabTypes /\ Current(tab[Parent], num) /\ Unbuilt
    /\ \A c \in Kid : Forked(c) /\ Streams(c) /\ Ended(c)

LEMMA EmptyTable == Empty \in Tables
BY DEF Empty, Tables

LEMMA NoNumbersType == NoNumbers \in Numbers
BY DEF NoNumbers, Numbers

LEMMA IoTypes == NoIo \in IoArgs /\ Ios \subseteq IoArgs
BY IosAssumption DEF NoIo, IoArgs, Slot, Std

LEMMA Processes ==
    /\ Parent \in Proc /\ Parent \notin Kid /\ Kid \subseteq Proc
    /\ \A q \in Proc : q = Parent \/ q \in Kid
BY KidAssumption DEF Proc

LEMMA TabInit == Init => TabInv
<1> SUFFICES ASSUME Init PROVE TabInv
    OBVIOUS
<1>1. PICK open \in Stdio :
        tab = [q \in Proc |-> [f \in Fds |->
                  IF q = Parent /\ f \in open THEN Tty ELSE Free]]
    BY DEF Init
<1>2. tab \in [Proc -> Tables]
    BY <1>1 DEF Tables
<1>3. TabTypes
  <2>1. num \in Numbers /\ copy \in [Kid -> Numbers]
    BY NoNumbersType DEF Init
  <2>2. io \in [Kid -> IoArgs] /\ at \in [Kid -> States]
    BY IoTypes DEF Init, States
  <2> QED
    BY <1>2, <2>1, <2>2 DEF TabTypes
<1>4. \A p \in Pipe, s \in {"r", "w"} : num[p][s] = -1
    BY DEF Init, NoNumbers
<1>5. Current(tab[Parent], num)
  <2>1. \A f \in Fds : tab[Parent][f] \in {Tty, Free} /\ f # -1
    BY <1>1, Processes, FdsAssumption
  <2> QED
    BY <1>4, <2>1, Ends2 DEF Current
<1>6. Unbuilt
    BY <1>4 DEF Unbuilt
<1>7. ASSUME NEW c \in Kid PROVE Forked(c) /\ Streams(c) /\ Ended(c)
  <2>1. at[c] = "unborn"
    BY DEF Init
  <2>2. tab[c] = Empty
    BY <1>1, Processes DEF Empty
  <2> QED
    BY <2>1, <2>2 DEF Forked, Streams, Ended
<1> QED
    BY <1>3, <1>5, <1>6, <1>7 DEF TabInv

\* The ends G whose numbers are in m are closed in t, and the numbers forgotten.
Forgotten(t, m, G, u, k) ==
    /\ G \subseteq End
    /\ \A f \in Fds : u[f] = IF \E e \in G : m[e.pipe][e.side] = f THEN Free ELSE t[f]
    /\ \A p \in Pipe, s \in {"r", "w"} :
           k[p][s] = IF EndOf(p, s) \in G THEN -1 ELSE m[p][s]

LEMMA Forgets ==
    ASSUME NEW t, NEW m, NEW G, NEW u, NEW k, Current(t, m), Forgotten(t, m, G, u, k)
    PROVE  Current(u, k) /\ (StdTty(u) => StdTty(t))
<1> G \subseteq End
    BY DEF Forgotten
<1>1. ASSUME NEW e \in End, NEW f \in Fds PROVE u[f] = e <=> k[e.pipe][e.side] = f
  <2>1. /\ e.pipe \in Pipe /\ e.side \in {"r", "w"} /\ e = EndOf(e.pipe, e.side)
        /\ e # Free /\ f # -1
    BY Ends2, FdsAssumption
  <2>2. k[e.pipe][e.side] = IF e \in G THEN -1 ELSE m[e.pipe][e.side]
    BY <2>1 DEF Forgotten
  <2>3. \A d \in End : t[f] = d <=> m[d.pipe][d.side] = f
    BY DEF Current
  <2>4. CASE \E d \in G : m[d.pipe][d.side] = f
    <3>1. PICK d \in G : m[d.pipe][d.side] = f
      BY <2>4
    <3>2. t[f] = d /\ u[f] = Free
      BY <2>3, <2>4, <3>1 DEF Forgotten
    <3> QED
      BY <2>1, <2>2, <2>3, <3>1, <3>2
  <2>5. CASE ~\E d \in G : m[d.pipe][d.side] = f
    <3>1. u[f] = t[f]
      BY <2>5 DEF Forgotten
    <3> QED
      BY <2>1, <2>2, <2>3, <2>5, <3>1
  <2> QED
    BY <2>4, <2>5
<1>2. ASSUME StdTty(u) PROVE StdTty(t)
  <2>1. Std \subseteq Fds /\ Tty # Free
    BY FdsAssumption, Ends2 DEF Std
  <2> QED
    BY <1>2, <2>1 DEF StdTty, Forgotten
<1> QED
    BY <1>1, <1>2 DEF Current

\* What a step of the parent on its own table has to leave true.
LEMMA ParentTable ==
    ASSUME TabInv, tab' \in [Proc -> Tables], num' \in Numbers,
           \A c \in Kid : tab'[c] = tab[c],
           Current(tab'[Parent], num'), StdTty(tab'[Parent]) => StdTty(tab[Parent]),
           Unbuilt', UNCHANGED <<at, copy, io>>
    PROVE  TabInv'
<1>1. TabTypes'
    BY DEF TabInv, TabTypes
<1>2. ASSUME NEW c \in Kid PROVE Forked(c)' /\ Streams(c)' /\ Ended(c)'
  <2>1. Forked(c) /\ Streams(c) /\ Ended(c) /\ tab'[c] = tab[c]
    BY DEF TabInv
  <2>2. Forked(c)'
    BY <2>1 DEF Forked
  <2>3. Streams(c)'
    BY <2>1 DEF Streams
  <2>4. Ended(c)'
    BY <2>1 DEF Ended, Empty
  <2> QED
    BY <2>2, <2>3, <2>4
<1> QED
    BY <1>1, <1>2 DEF TabInv

\* A step of the child c.
LEMMA ChildTable ==
    ASSUME TabInv, NEW c \in Kid, UNCHANGED <<num, scope>>, TabTypes',
           \A q \in Proc \ {c} : tab'[q] = tab[q],
           \A b \in Kid \ {c} : at'[b] = at[b] /\ copy'[b] = copy[b] /\ io'[b] = io[b],
           at'[c] # "child",
           at'[c] \in {"runs", "holds"} /\ StdTty(tab[Parent]) => Given(tab'[c], io'[c]),
           at'[c] \notin {"runs", "holds"} => tab'[c] = Empty
    PROVE  TabInv'
<1>1. tab'[Parent] = tab[Parent]
    BY Processes
<1>2. Current(tab'[Parent], num')
    BY <1>1 DEF TabInv
<1>3. Unbuilt'
    BY DEF TabInv, Unbuilt, Has
<1>4. ASSUME NEW b \in Kid PROVE Forked(b)' /\ Streams(b)' /\ Ended(b)'
  <2>1. CASE b = c
    BY <1>1, <2>1 DEF Forked, Streams, Ended, Empty
  <2>2. CASE b # c
    <3>1. Forked(b) /\ Streams(b) /\ Ended(b) /\ tab'[b] = tab[b]
      BY <2>2, Processes DEF TabInv
    <3>2. Forked(b)'
      BY <1>1, <2>2, <3>1 DEF Forked
    <3>3. Streams(b)'
      BY <1>1, <2>2, <3>1 DEF Streams
    <3>4. Ended(b)'
      BY <2>2, <3>1 DEF Ended, Empty
    <3> QED
      BY <3>2, <3>3, <3>4
  <2> QED
    BY <2>1, <2>2
<1> QED
    BY <1>2, <1>3, <1>4 DEF TabInv

\* Nothing happens to a table: a wait may reap a child that has ended, and objects
\* come and go.
LEMMA TablesStay ==
    ASSUME TabInv, UNCHANGED <<tab, num, copy, io>>, at' \in [Kid -> States],
           \A c \in Kid : at'[c] = at[c] \/ (at[c] = "zombie" /\ at'[c] = "reaped"),
           \A p \in Pipe : Has(scope', p) <=> Has(scope, p)
    PROVE  TabInv'
<1>1. TabTypes'
    BY DEF TabInv, TabTypes
<1>2. Unbuilt'
    BY DEF TabInv, Unbuilt
<1>3. ASSUME NEW c \in Kid PROVE Forked(c)' /\ Streams(c)' /\ Ended(c)'
  <2>1. Forked(c) /\ Streams(c) /\ Ended(c)
    BY DEF TabInv
  <2>2. Forked(c)'
    BY <2>1 DEF Forked
  <2>3. Streams(c)'
    BY <2>1 DEF Streams
  <2>4. Ended(c)'
    BY <2>1 DEF Ended, Empty
  <2> QED
    BY <2>2, <2>3, <2>4
<1> QED
    BY <1>1, <1>2, <1>3 DEF TabInv

LEMMA MakeTables ==
    ASSUME WaitInv, TabInv, NEW p \in Pipe, MakePipe(p)
    PROVE  TabInv'
<1> DEFINE t == tab[Parent]
           R == EndOf(p, "r")
           W == EndOf(p, "w")
<1>1. PICK a \in Fds, b \in Fds :
        LET v == Table!Install(tab[Parent], a, [pipe |-> p, side |-> "r"])
        IN  /\ Table!IsLowestFree(tab[Parent], a) /\ Table!IsLowestFree(v, b)
            /\ tab' = [tab EXCEPT ![Parent] =
                         Table!Install(v, b, [pipe |-> p, side |-> "w"])]
            /\ num' = [num EXCEPT ![p] = [r |-> a, w |-> b]]
    BY DEF MakePipe
<1> DEFINE v == [t EXCEPT ![a] = R]
           u == [v EXCEPT ![b] = W]
<1>2. t[a] = Free /\ v[b] = Free /\ tab' = [tab EXCEPT ![Parent] = u]
    BY <1>1 DEF Table!IsLowestFree, Table!Install, EndOf
<1>3. t \in Tables /\ num \in Numbers /\ tab \in [Proc -> Tables]
    BY Processes DEF TabInv, TabTypes
<1>4. R \in End /\ W \in End /\ R # Free /\ R # Tty /\ W # Tty /\ R # W
    BY Ends2
<1>5. a # b
    BY <1>2, <1>3, <1>4 DEF Tables
<1>6. /\ u \in Tables
      /\ \A f \in Fds : u[f] = IF f = a THEN R ELSE IF f = b THEN W ELSE t[f]
    BY <1>3, <1>4, <1>5 DEF Tables
<1> HIDE DEF u, v
<1>7. tab' \in [Proc -> Tables] /\ tab'[Parent] = u /\ \A c \in Kid : tab'[c] = tab[c]
    BY <1>2, <1>3, <1>6, Processes
<1>8. /\ \A s \in {"r", "w"} : num[p][s] = -1
      /\ Runs /\ scope' = Append(scope, p) /\ ~Has(scope, p)
      /\ UNCHANGED <<at, copy, io>>
    BY BuiltIsThere DEF MakePipe, IsNext, TabInv, Unbuilt, childVars
<1>9. /\ num' \in Numbers /\ num'[p].r = a /\ num'[p].w = b
      /\ \A q \in Pipe \ {p} : num'[q] = num[q]
  <2>1. [r |-> a, w |-> b] \in [{"r", "w"} -> Fds \cup {-1}]
    OBVIOUS
  <2> QED
    BY <1>1, <1>3, <2>1 DEF Numbers
<1>10. ASSUME NEW e \in End, NEW f \in Fds PROVE u[f] = e <=> num'[e.pipe][e.side] = f
  <2>1. /\ e.pipe \in Pipe /\ e.side \in {"r", "w"} /\ e = EndOf(e.pipe, e.side)
        /\ e # Free /\ f # -1
    BY Ends2, FdsAssumption
  <2>2. t[f] = e <=> num[e.pipe][e.side] = f
    BY DEF TabInv, Current
  <2>3. CASE e.pipe # p
    <3>1. e # R /\ e # W /\ num'[e.pipe] = num[e.pipe]
      BY <1>9, <2>1, <2>3, Ends2
    <3>2. u[f] = e <=> t[f] = e
      BY <1>2, <1>6, <2>1, <3>1 DEF v
    <3> QED
      BY <2>2, <3>1, <3>2
  <2>4. CASE e.pipe = p
    <3>1. t[f] # e
      BY <1>8, <2>1, <2>2, <2>4
    <3>2. CASE e.side = "r"
      BY <1>4, <1>6, <1>9, <2>1, <2>4, <3>1, <3>2
    <3>3. CASE e.side = "w"
      BY <1>4, <1>5, <1>6, <1>9, <2>1, <2>4, <3>1, <3>3
    <3> QED
      BY <2>1, <3>2, <3>3
  <2> QED
    BY <2>3, <2>4
<1>11. StdTty(u) => StdTty(t)
  <2>1. Std \subseteq Fds
    BY FdsAssumption DEF Std
  <2> QED
    BY <1>4, <1>6, <2>1 DEF StdTty
<1>12. Unbuilt'
  <2> SUFFICES ASSUME NEW q \in Pipe, ~Has(scope', q), NEW s \in {"r", "w"}
               PROVE  num'[q][s] = -1
    BY DEF Unbuilt
  <2>1. \A y : Has(scope', y) <=> Has(scope, y) \/ y = p
    BY <1>8, BuiltMore DEF WaitInv, WaitTypes
  <2> QED
    BY <1>9, <2>1 DEF TabInv, Unbuilt
<1>13. Current(tab'[Parent], num')
    BY <1>7, <1>10 DEF Current
<1> QED
    BY <1>7, <1>8, <1>9, <1>11, <1>12, <1>13, ParentTable

\* close of the ends of G, whose numbers become -1.
LEMMA ClosedTables ==
    ASSUME TabInv, NEW G, Forgotten(tab[Parent], num, G, tab'[Parent], num'),
           tab' \in [Proc -> Tables], num' \in Numbers,
           \A c \in Kid : tab'[c] = tab[c],
           \A q \in Pipe : Has(scope, q) => Has(scope', q) \/ \A s \in {"r", "w"} : EndOf(q, s) \in G,
           UNCHANGED <<at, copy, io>>
    PROVE  TabInv'
<1>1. Current(tab'[Parent], num') /\ (StdTty(tab'[Parent]) => StdTty(tab[Parent]))
    BY Forgets DEF TabInv
<1>2. Unbuilt'
    BY DEF TabInv, Unbuilt, Forgotten
<1> QED
    BY <1>1, <1>2, ParentTable

LEMMA MyCloseEntry ==
    ASSUME NEW t \in Tables, NEW fd \in Fds \cup {-1}
    PROVE  /\ MyClose(t, fd) \in Tables
           /\ \A f \in Fds : MyClose(t, fd)[f] = IF f = fd THEN Free ELSE t[f]
<1>1. CASE fd = -1
  <2>1. \A f \in Fds : f # fd
    BY <1>1, FdsAssumption
  <2> QED
    BY <1>1, <2>1 DEF MyClose
<1>2. CASE fd # -1
    BY <1>2 DEF MyClose, Table!CloseFd, Tables
<1> QED
    BY <1>1, <1>2

LEMMA CloseEndTables ==
    ASSUME TabInv, NEW p \in Pipe, NEW side \in {"r", "w"}, CloseEnd(p, side)
    PROVE  TabInv'
<1>1. /\ tab' = [tab EXCEPT ![Parent] = MyClose(tab[Parent], num[p][side])]
      /\ num' = [num EXCEPT ![p][side] = -1] /\ UNCHANGED <<at, copy, io, scope>>
    BY DEF CloseEnd, childVars
<1>2. tab \in [Proc -> Tables] /\ num \in Numbers /\ num[p][side] \in Fds \cup {-1}
    BY DEF TabInv, TabTypes, Numbers
<1>3. /\ MyClose(tab[Parent], num[p][side]) \in Tables
      /\ \A f \in Fds : MyClose(tab[Parent], num[p][side])[f] =
            IF f = num[p][side] THEN Free ELSE tab[Parent][f]
    BY <1>2, MyCloseEntry, Processes
<1>4. tab' \in [Proc -> Tables] /\ \A c \in Kid : tab'[c] = tab[c]
    BY <1>1, <1>2, <1>3, Processes
<1>5. num' \in Numbers
    BY <1>1, <1>2 DEF Numbers
<1> DEFINE G == {EndOf(p, side)}
<1>6. G \subseteq End /\ \A e \in G : e.pipe = p /\ e.side = side
    BY Ends2
<1>7. \A f \in Fds : tab'[Parent][f] =
         IF \E e \in G : num[e.pipe][e.side] = f THEN Free ELSE tab[Parent][f]
  <2>1. tab'[Parent] = MyClose(tab[Parent], num[p][side])
    BY <1>1, <1>2, Processes
  <2>2. \A f : (\E e \in G : num[e.pipe][e.side] = f) <=> num[p][side] = f
    BY <1>6
  <2> QED
    BY <1>3, <2>1, <2>2
<1>8. \A q \in Pipe, s \in {"r", "w"} :
         num'[q][s] = IF EndOf(q, s) \in G THEN -1 ELSE num[q][s]
  <2>1. \A q \in Pipe, s \in {"r", "w"} : EndOf(q, s) \in G <=> q = p /\ s = side
    BY Ends2
  <2>2. \A q \in Pipe, s \in {"r", "w"} :
           num'[q][s] = IF q = p /\ s = side THEN -1 ELSE num[q][s]
    BY <1>1, <1>2 DEF Numbers
  <2> QED
    BY <2>1, <2>2
<1>9. \A q \in Pipe : Has(scope, q) => Has(scope', q)
    BY <1>1
<1>10. Forgotten(tab[Parent], num, G, tab'[Parent], num')
    BY <1>6, <1>7, <1>8 DEF Forgotten
<1> HIDE DEF G
<1> QED
    BY <1>1, <1>4, <1>5, <1>9, <1>10, ClosedTables

LEMMA DestroyTables ==
    ASSUME WaitInv, TabInv, NEW p \in Pipe, DestroyPipe(p)
    PROVE  TabInv'
<1> DEFINE t == tab[Parent]
           u == MyClose(t, num[p].w)
           v == MyClose(u, num[p].r)
<1>1. /\ tab' = [tab EXCEPT ![Parent] = v] /\ Unwinds(p) /\ scope' = Front(scope)
      /\ num' = [num EXCEPT ![p] = [r |-> -1, w |-> -1]] /\ UNCHANGED <<at, copy, io>>
    BY DEF DestroyPipe, childVars
<1>2. /\ tab \in [Proc -> Tables] /\ num \in Numbers /\ t \in Tables
      /\ num[p].r \in Fds \cup {-1} /\ num[p].w \in Fds \cup {-1}
    BY Processes DEF TabInv, TabTypes, Numbers
<1>3. u \in Tables /\ \A f \in Fds : u[f] = IF f = num[p].w THEN Free ELSE t[f]
    BY <1>2, MyCloseEntry
<1>4. v \in Tables /\ \A f \in Fds : v[f] = IF f = num[p].r THEN Free ELSE u[f]
    BY <1>2, <1>3, MyCloseEntry
<1> HIDE DEF u, v
<1>5. tab' \in [Proc -> Tables] /\ tab'[Parent] = v /\ \A c \in Kid : tab'[c] = tab[c]
    BY <1>1, <1>2, <1>4, Processes
<1>6. /\ num' \in Numbers /\ num'[p].r = -1 /\ num'[p].w = -1
      /\ \A q \in Pipe \ {p} : num'[q] = num[q]
  <2>1. [r |-> -1, w |-> -1] \in [{"r", "w"} -> Fds \cup {-1}]
    OBVIOUS
  <2> QED
    BY <1>1, <1>2, <2>1 DEF Numbers
<1> DEFINE G == {EndOf(p, "r"), EndOf(p, "w")}
<1>7. /\ G \subseteq End /\ \A e \in G : e.pipe = p
      /\ EndOf(p, "r").side = "r" /\ EndOf(p, "w").side = "w"
    BY Ends2
<1>8. \A f \in Fds : tab'[Parent][f] =
         IF \E e \in G : num[e.pipe][e.side] = f THEN Free ELSE tab[Parent][f]
  <2>1. \A f : (\E e \in G : num[e.pipe][e.side] = f) <=> num[p].r = f \/ num[p].w = f
    BY <1>7
  <2> QED
    BY <1>3, <1>4, <1>5, <2>1
<1>9. \A q \in Pipe, s \in {"r", "w"} :
         /\ EndOf(q, s) \in G <=> q = p
         /\ num'[q][s] = IF EndOf(q, s) \in G THEN -1 ELSE num[q][s]
  <2>1. \A q \in Pipe, s \in {"r", "w"} : EndOf(q, s) \in G <=> q = p
    BY Ends2
  <2> QED
    BY <1>6, <2>1
<1>10. \A y : Has(scope', y) <=> Has(scope, y) /\ y # p
    BY <1>1, BuiltLess DEF WaitInv, WaitTypes
<1>11. \A q \in Pipe : Has(scope, q) => Has(scope', q) \/ \A s \in {"r", "w"} : EndOf(q, s) \in G
    BY <1>9, <1>10
<1>12. Forgotten(tab[Parent], num, G, tab'[Parent], num')
    BY <1>7, <1>8, <1>9 DEF Forgotten
<1> HIDE DEF G
<1> QED
    BY <1>1, <1>5, <1>6, <1>11, <1>12, ClosedTables

LEMMA SpawnTables ==
    ASSUME WaitInv, TabInv, NEW o \in Obj, NEW i \in Ios, Spawn(o, i)
    PROVE  TabInv'
<1> DEFINE G == GivenAway(i)
           t == tab[Parent]
<1>1. PICK c \in Kid :
        /\ at[c] = "unborn" /\ at' = [at EXCEPT ![c] = "child"]
        /\ copy' = [copy EXCEPT ![c] = num] /\ io' = [io EXCEPT ![c] = i]
        /\ tab' = [tab EXCEPT ![c] = t, ![Parent] = TabAfterGiving(i)]
    BY DEF Spawn
<1>2. num' = AfterGiving(i) /\ scope' = Append(scope, o) /\ ~Has(scope, o)
    BY BuiltIsThere DEF Spawn, IsNext
<1>3. TabTypes /\ t \in Tables /\ num \in Numbers /\ Current(t, num)
    BY Processes DEF TabInv, TabTypes
<1>4. G \in SUBSET End
    BY DEF GivenAway, End
<1>5. /\ TabAfterGiving(i) \in Tables
      /\ \A f \in Fds : TabAfterGiving(i)[f] =
            IF \E e \in G : num[e.pipe][e.side] = f THEN Free ELSE t[f]
    BY <1>3 DEF TabAfterGiving, Tables
<1>6. /\ num' \in Numbers
      /\ \A p \in Pipe, s \in {"r", "w"} :
            num'[p][s] = IF EndOf(p, s) \in G THEN -1 ELSE num[p][s]
    BY <1>2, <1>3 DEF AfterGiving, Numbers, EndOf
<1>7. /\ tab'[Parent] = TabAfterGiving(i) /\ tab'[c] = t
      /\ \A b \in Kid \ {c} : tab'[b] = tab[b]
      /\ tab' \in [Proc -> Tables]
    BY <1>1, <1>3, <1>5, Processes DEF TabTypes
<1> HIDE DEF G
<1>8. Current(tab'[Parent], num') /\ (StdTty(tab'[Parent]) => StdTty(t))
  <2>1. Forgotten(t, num, G, tab'[Parent], num')
    BY <1>4, <1>5, <1>6, <1>7 DEF Forgotten
  <2> QED
    BY <1>3, <2>1, Forgets
<1>9. /\ at'[c] = "child" /\ copy'[c] = num
      /\ \A b \in Kid \ {c} : at'[b] = at[b] /\ copy'[b] = copy[b] /\ io'[b] = io[b]
    BY <1>1, <1>3 DEF TabTypes
<1>10. TabTypes'
    BY <1>1, <1>3, <1>6, <1>7, IoTypes DEF TabTypes, States
<1>11. Unbuilt'
  <2>1. \A p \in Pipe : Has(scope, p) => Has(scope', p)
    BY <1>2, BuiltMore DEF WaitInv, WaitTypes
  <2> QED
    BY <1>6, <2>1 DEF TabInv, Unbuilt
<1>12. ASSUME NEW b \in Kid PROVE Forked(b)' /\ Streams(b)' /\ Ended(b)'
  <2>1. CASE b = c
    BY <1>3, <1>7, <1>8, <1>9, <2>1 DEF Forked, Streams, Ended
  <2>2. CASE b # c
    <3>1. Forked(b) /\ Streams(b) /\ Ended(b)
      BY DEF TabInv
    <3>2. Forked(b)'
      BY <1>7, <1>8, <1>9, <2>2, <3>1 DEF Forked
    <3>3. Streams(b)'
      BY <1>7, <1>8, <1>9, <2>2, <3>1 DEF Streams
    <3>4. Ended(b)'
      BY <1>7, <1>9, <2>2, <3>1 DEF Ended, Empty
    <3> QED
      BY <3>2, <3>3, <3>4
  <2> QED
    BY <2>1, <2>2
<1> QED
    BY <1>8, <1>10, <1>11, <1>12 DEF TabInv

\* The process of the child c ends.
LEMMA EndsTables ==
    ASSUME TabInv, NEW c \in Kid, Ends(c), UNCHANGED <<num, scope>>
    PROVE  TabInv'
<1>1. /\ at' = [at EXCEPT ![c] = "zombie"] /\ tab' = [tab EXCEPT ![c] = Empty]
      /\ copy' = [copy EXCEPT ![c] = NoNumbers] /\ io' = [io EXCEPT ![c] = NoIo]
    BY DEF Ends
<1>2. TabTypes
    BY DEF TabInv
<1>3. TabTypes'
    BY <1>1, <1>2, EmptyTable, NoNumbersType, IoTypes DEF TabTypes, States
<1>4. /\ at'[c] = "zombie" /\ tab'[c] = Empty
      /\ \A q \in Proc \ {c} : tab'[q] = tab[q]
      /\ \A b \in Kid \ {c} : at'[b] = at[b] /\ copy'[b] = copy[b] /\ io'[b] = io[b]
    BY <1>1, <1>2, Processes DEF TabTypes
<1> QED
    BY <1>3, <1>4, ChildTable

LEMMA ExecTables ==
    ASSUME TabInv, NEW c \in Kid, Exec(c)
    PROVE  TabInv'
<1>1. UNCHANGED <<num, scope>> /\ at[c] = "child"
    BY DEF Exec, parentVars
<1> DEFINE u == Redirected(tab[c], copy[c], io[c])
<1>2. CASE /\ u # Empty /\ tab' = [tab EXCEPT ![c] = u] /\ at' = [at EXCEPT ![c] = "runs"]
           /\ copy' = [copy EXCEPT ![c] = NoNumbers] /\ UNCHANGED io
  <2>1. /\ TabTypes /\ tab[c] \in Tables /\ copy[c] \in Numbers /\ io[c] \in IoArgs
        /\ Current(tab[c], copy[c]) /\ (StdTty(tab[Parent]) => StdTty(tab[c]))
    BY <1>1, Processes DEF TabInv, TabTypes, Forked
  <2>2. u \in Tables
    BY <2>1, RedirectedType
  <2>3. StdTty(tab[Parent]) => Given(u, io[c])
    BY <1>2, <2>1, RedirectedGives
  <2> HIDE DEF u
  <2>4. TabTypes'
    BY <1>1, <1>2, <2>1, <2>2, NoNumbersType DEF TabTypes, States
  <2>5. /\ at'[c] = "runs" /\ tab'[c] = u /\ io'[c] = io[c]
        /\ \A q \in Proc \ {c} : tab'[q] = tab[q]
        /\ \A b \in Kid \ {c} : at'[b] = at[b] /\ copy'[b] = copy[b] /\ io'[b] = io[b]
    BY <1>2, <2>1, Processes DEF TabTypes
  <2> QED
    BY <1>1, <2>3, <2>4, <2>5, ChildTable
<1>3. CASE Ends(c)
    BY <1>1, <1>3, EndsTables
<1> QED
    BY <1>2, <1>3 DEF Exec

\* The program of the child c reads or writes a character.
LEMMA GoesOnTables ==
    ASSUME TabInv, NEW c \in Kid, NEW a \in {"runs", "holds"}, at[c] \in {"runs", "holds"},
           at' = [at EXCEPT ![c] = a], UNCHANGED <<tab, copy, io, num, scope>>
    PROVE  TabInv'
<1>1. TabTypes /\ Streams(c)
    BY DEF TabInv
<1>2. TabTypes'
    BY <1>1 DEF TabTypes, States
<1>3. at'[c] = a /\ \A b \in Kid \ {c} : at'[b] = at[b]
    BY <1>1 DEF TabTypes
<1>4. StdTty(tab[Parent]) => Given(tab'[c], io'[c])
    BY <1>1 DEF Streams
<1> QED
    BY <1>2, <1>3, <1>4, ChildTable

LEMMA KidTables ==
    ASSUME TabInv, NEW c \in Kid, KidStep(c)
    PROVE  TabInv'
<1>1. CASE Exec(c)
    BY <1>1, ExecTables
<1>2. CASE KidReads(c)
  <2>1. UNCHANGED <<num, scope>> /\ at[c] = "runs"
    BY <1>2 DEF KidReads, parentVars
  <2>2. Ends(c) \/ (at' = [at EXCEPT ![c] = "holds"] /\ UNCHANGED <<tab, copy, io>>)
    BY <1>2 DEF KidReads
  <2> QED
    BY <2>1, <2>2, EndsTables, GoesOnTables
<1>3. CASE KidWrites(c)
  <2>1. UNCHANGED <<num, scope>> /\ at[c] = "holds"
    BY <1>3 DEF KidWrites, parentVars
  <2>2. Ends(c) \/ (at' = [at EXCEPT ![c] = "runs"] /\ UNCHANGED <<tab, copy, io>>)
    BY <1>3 DEF KidWrites
  <2> QED
    BY <2>1, <2>2, EndsTables, GoesOnTables
<1> QED
    BY <1>1, <1>2, <1>3 DEF KidStep

\* A wait reaps a child that has ended, and objects come and go.
LEMMA WaitsTables ==
    ASSUME TabInv, NEW n, Waits(n) \/ UNCHANGED at, UNCHANGED <<tab, num, copy, io>>,
           \A p \in Pipe : Has(scope', p) <=> Has(scope, p)
    PROVE  TabInv'
<1>1. /\ at' \in [Kid -> States]
      /\ \A c \in Kid : at'[c] = at[c] \/ (at[c] = "zombie" /\ at'[c] = "reaped")
  <2>1. at \in [Kid -> States]
    BY DEF TabInv, TabTypes
  <2>2. CASE UNCHANGED at
    BY <2>1, <2>2
  <2>3. CASE \E c \in Awaited(n) : at[c] = "zombie" /\ at' = [at EXCEPT ![c] = "reaped"]
    BY <2>1, <2>3 DEF Awaited, Alive, States
  <2> QED
    BY <2>2, <2>3 DEF Waits
<1> QED
    BY <1>1, TablesStay

LEMMA TabNext ==
    ASSUME WaitInv, TabInv, [Next]_vars
    PROVE  TabInv'
<1>0. scope \in Seq(Pipe \cup Obj) /\ IsInjective(scope) /\ \A o \in Obj : o \notin Pipe
    BY NamesAssumption DEF WaitInv, WaitTypes
<1>1. ASSUME NEW p \in Pipe, MakePipe(p) \/ DestroyPipe(p) PROVE TabInv'
    BY <1>1, MakeTables, DestroyTables
<1>2. ASSUME NEW p \in Pipe, NEW side \in {"r", "w"}, CloseEnd(p, side) PROVE TabInv'
    BY <1>2, CloseEndTables
<1>3. ASSUME UNCHANGED <<tab, num, at, copy, io, scope>> PROVE TabInv'
    BY <1>3, WaitsTables
<1>4. ASSUME NEW p \in Pipe, PutChar(p) \/ BeginRead(p) \/ ReadOn(p) PROVE TabInv'
  <2>1. UNCHANGED <<tab, num, at, copy, io, scope>>
    BY <1>4 DEF PutChar, BeginRead, ReadOn, parentVars, childVars
  <2> QED
    BY <1>3, <2>1
<1>5. ASSUME NEW o \in Obj, NEW i \in Ios, Spawn(o, i) PROVE TabInv'
    BY <1>5, SpawnTables
<1>6. ASSUME NEW call, NEW n, Blocks(call, n) PROVE TabInv'
  <2>1. UNCHANGED <<tab, num, at, copy, io, scope>>
    BY <1>6 DEF Blocks, childVars
  <2> QED
    BY <1>3, <2>1
<1>7. ASSUME NEW o \in Obj, JoinReturns(o) PROVE TabInv'
  <2>1. Waits(pid[o]) /\ UNCHANGED <<tab, num, copy, io, scope>>
    BY <1>7 DEF JoinReturns
  <2> QED
    BY <2>1, WaitsTables
<1>8. ASSUME NEW o \in Obj, Detach(o) PROVE TabInv'
  <2>1. UNCHANGED <<tab, num, at, copy, io, scope>>
    BY <1>8 DEF Detach, childVars
  <2> QED
    BY <1>3, <2>1
<1>9. ASSUME NEW o \in Obj, NEW r \in Obj, MoveConstruct(o, r) PROVE TabInv'
  <2>1. /\ UNCHANGED <<tab, num, at, copy, io>> /\ scope' = Append(scope, o)
        /\ ~Has(scope, o)
    BY <1>9, BuiltIsThere DEF MoveConstruct, IsNext, childVars
  <2>2. \A p \in Pipe : Has(scope', p) <=> Has(scope, p)
    BY <1>0, <2>1, BuiltMore
  <2> QED
    BY <2>1, <2>2, WaitsTables
<1>10. ASSUME NEW o \in Obj, NEW r \in Obj, AssignReturns(o, r) PROVE TabInv'
  <2>1. (Waits(pid[o]) \/ UNCHANGED at) /\ UNCHANGED <<tab, num, copy, io, scope>>
    BY <1>10 DEF AssignReturns, CloseImpl
  <2> QED
    BY <2>1, WaitsTables
<1>11. ASSUME NEW o \in Obj, Destroy(o) PROVE TabInv'
  <2>1. /\ Unwinds(o) /\ scope' = Front(scope) /\ UNCHANGED <<tab, num, copy, io>>
        /\ Waits(pid[o]) \/ UNCHANGED at
    BY <1>11 DEF Destroy, CloseImpl
  <2>2. \A p \in Pipe : Has(scope', p) <=> Has(scope, p)
    BY <1>0, <2>1, BuiltLess
  <2> QED
    BY <2>1, <2>2, WaitsTables
<1>12. ASSUME EndScope PROVE TabInv'
  <2>1. UNCHANGED <<tab, num, at, copy, io, scope>>
    BY <1>12 DEF EndScope, childVars
  <2> QED
    BY <1>3, <2>1
<1>13. ASSUME NEW c \in Kid, KidStep(c) PROVE TabInv'
    BY <1>13, KidTables
<1>14. CASE UNCHANGED vars
  <2>1. UNCHANGED <<tab, num, at, copy, io, scope>>
    BY <1>14 DEF vars, parentVars, childVars
  <2> QED
    BY <1>3, <2>1
<1>15. ASSUME ParentGoesOn PROVE TabInv'
    BY <1>1, <1>4, <1>7, <1>10, <1>11, <1>15 DEF ParentGoesOn
<1>16. ASSUME NEW o \in Obj, Join(o) \/ \E r \in Obj : MoveAssign(o, r) PROVE TabInv'
    BY <1>6, <1>7, <1>10, <1>16 DEF Join, MoveAssign
<1> QED
    BY <1>1, <1>2, <1>4, <1>5, <1>8, <1>9, <1>12, <1>13, <1>14, <1>15, <1>16 DEF Next

-------------------------------------------------------------------------------
(* The characters *)

LEMMA CountsInit == Init => Counts
BY BoundsAssumption DEF Init, Counts

\* One character more or less, where there is room or there is one.
LEMMA Counted ==
    ASSUME Counts, NEW p \in Pipe,
           \/ content[p] < Room /\ content' = [content EXCEPT ![p] = content[p] + 1]
           \/ content[p] > 0 /\ content' = [content EXCEPT ![p] = content[p] - 1]
    PROVE  content' \in [Pipe -> 0 .. Room]
<1>1. Room \in Nat /\ content \in [Pipe -> 0 .. Room] /\ content[p] \in 0 .. Room
    BY BoundsAssumption DEF Counts
<1>2. /\ content[p] < Room => content[p] + 1 \in 0 .. Room
      /\ content[p] > 0 => content[p] - 1 \in 0 .. Room
    BY <1>1
<1> QED
    BY <1>1, <1>2

LEMMA CountedOut ==
    ASSUME Counts, chars < MaxChars, chars' = chars + 1 PROVE chars' \in 0 .. MaxChars
BY BoundsAssumption DEF Counts

LEMMA KidCounts ==
    ASSUME Counts, NEW c \in Kid, KidStep(c)
    PROVE  Counts'
<1>1. CASE Exec(c)
    BY <1>1 DEF Exec, pipeVars, Counts
<1>2. CASE KidReads(c)
  <2>1. \/ UNCHANGED pipeVars
        \/ chars < MaxChars /\ chars' = chars + 1 /\ UNCHANGED content
        \/ \E p \in Pipe : content[p] > 0 /\ content' = [content EXCEPT ![p] = content[p] - 1]
                              /\ UNCHANGED chars
    BY <1>2, Ends2 DEF KidReads
  <2> QED
    BY <2>1, Counted, CountedOut DEF Counts, pipeVars
<1>3. CASE KidWrites(c)
  <2>1. \/ UNCHANGED pipeVars
        \/ \E p \in Pipe : content[p] < Room /\ content' = [content EXCEPT ![p] = content[p] + 1]
                              /\ UNCHANGED chars
    BY <1>3, Ends2 DEF KidWrites, pipeVars
  <2> QED
    BY <2>1, Counted DEF Counts, pipeVars
<1> QED
    BY <1>1, <1>2, <1>3 DEF KidStep

LEMMA CountsNext ==
    ASSUME Counts, [Next]_vars
    PROVE  Counts'
<1>1. CASE UNCHANGED pipeVars
    BY <1>1 DEF pipeVars, Counts
<1>2. ASSUME NEW p \in Pipe, PutChar(p) PROVE Counts'
    BY <1>2, Counted, CountedOut DEF PutChar, Counts
<1>3. ASSUME NEW p \in Pipe, ReadOn(p) PROVE Counts'
    BY <1>3, Counted DEF ReadOn, Counts
<1>4. ASSUME NEW c \in Kid, KidStep(c) PROVE Counts'
    BY <1>4, KidCounts
<1>5. ASSUME NEW p \in Pipe,
             \/ MakePipe(p) \/ BeginRead(p) \/ DestroyPipe(p)
             \/ \E side \in {"r", "w"} : CloseEnd(p, side)
      PROVE  Counts'
    BY <1>1, <1>5 DEF MakePipe, BeginRead, DestroyPipe, CloseEnd
<1>6. ASSUME NEW o \in Obj,
             \/ \E i \in Ios : Spawn(o, i)
             \/ Join(o) \/ JoinReturns(o) \/ Detach(o) \/ Destroy(o)
             \/ \E r \in Obj : MoveConstruct(o, r) \/ MoveAssign(o, r) \/ AssignReturns(o, r)
      PROVE  Counts'
    BY <1>1, <1>6 DEF Spawn, Join, JoinReturns, Detach, Destroy, MoveConstruct, MoveAssign,
                      AssignReturns, Blocks
<1>7. CASE EndScope
    BY <1>1, <1>7 DEF EndScope
<1>8. CASE ParentGoesOn
    BY <1>3, <1>5, <1>6, <1>8 DEF ParentGoesOn
<1>9. CASE UNCHANGED vars
    BY <1>1, <1>9 DEF vars
<1> QED
    BY <1>2, <1>4, <1>5, <1>6, <1>7, <1>8, <1>9 DEF Next

-------------------------------------------------------------------------------

LEMMA TypesCorrect ==
    ASSUME WaitInv, TabInv, Counts PROVE TypeOK
<1>1. tab \in [Proc -> [Fds -> End \cup {Tty, Free}]]
    BY DEF TabInv, TabTypes, Tables
<1>2. num \in [Pipe -> [{"r", "w"} -> Fds \cup {-1}]]
    BY DEF TabInv, TabTypes, Numbers
<1>3. \A c \in Kid : at[c] \notin {"child", "runs", "holds"} => tab[c] = Empty
    BY DEF TabInv, Ended
<1> QED
    BY <1>1, <1>2, <1>3 DEF TypeOK, Counts, WaitInv, WaitTypes, States

LEMMA StreamsAreRight ==
    ASSUME TabInv PROVE NumbersAreCurrent /\ RedirectionHolds
<1>1. NumbersAreCurrent
    BY DEF TabInv, Current, NumbersAreCurrent
<1>2. RedirectionHolds
  <2>1. \A c \in Kid : at[c] \in {"runs", "holds"} /\ (\A f \in {0, 1, 2} : tab[Parent][f] = Tty)
                         => Given(tab[c], io[c])
    BY DEF TabInv, Streams, StdTty, Std
  <2> QED
    BY <2>1 DEF RedirectionHolds, Given
<1> QED
    BY <1>1, <1>2

\* In every program with pipes and processes the numbers in the parent are those
\* of the ends it holds, through redirections, closes and destructors, and each
\* child runs with the streams it was given, and never with both ends of one pipe.
THEOREM DescriptorsKept == Spec => []DescriptorsAreCurrent
<1> DEFINE IInv == WaitInv /\ TabInv /\ Counts
<1>1. Init => IInv
    BY WaitsInit, TabInit, CountsInit
<1>2. IInv /\ [Next]_vars => IInv'
    BY WaitsNext, TabNext, CountsNext
<1>3. IInv => DescriptorsAreCurrent
    BY TypesCorrect, StreamsAreRight DEF DescriptorsAreCurrent
<1> HIDE DEF IInv
<1> QED
    BY <1>1, <1>2, <1>3, PTL DEF Spec
===============================================================================
