--------------------------- MODULE PosixFileProofs ----------------------------
(***************************************************************************)
(* Proofs about PosixFile: open descriptors and their owners match one to  *)
(* one, and the objects behave as references to files.                     *)
(***************************************************************************)
EXTENDS PosixFile, TLAPS

Inv == TypeOK /\ DescriptorsAreOwned

\* The parts of the state that ownership speaks of.
USE FdsAssumption, FreeAssumption, PlacesAssumption, MarksAssumption

-------------------------------------------------------------------------------

LEMMA InitInv == Init => Inv
BY DEF Init, Inv, TypeOK, DescriptorsAreOwned, OneOwner, OwnedIsOpen,
       OpenIsOwned, Owns, Obj

LEMMA TypeStep == TypeOK /\ [Next]_vars => TypeOK'
<1> SUFFICES ASSUME TypeOK, [Next]_vars PROVE TypeOK'
    OBVIOUS
<1> USE DEF TypeOK, Obj, Holds, Live
<1>1. ASSUME NEW o \in Obj, Default(o) PROVE TypeOK'
    BY <1>1 DEF Default
<1>2. ASSUME NEW o \in Obj, Open(o) PROVE TypeOK'
    BY <1>2 DEF Open, Openat, Install
<1>3. ASSUME NEW o \in Obj, OpenAte(o) PROVE TypeOK'
    BY <1>3 DEF OpenAte, Openat, Install
<1>4. ASSUME NEW o \in Obj, SeekEndLocal(o) PROVE TypeOK'
    BY <1>4 DEF SeekEndLocal, CloseFd
<1>5. ASSUME NEW o \in Obj, Unwind(o) PROVE TypeOK'
    BY <1>5 DEF Unwind, CloseFd
<1>6. ASSUME NEW o \in Obj, Detach(o) PROVE TypeOK'
    BY <1>6 DEF Detach
<1>7. ASSUME NEW o \in Obj, Destroy(o) PROVE TypeOK'
    BY <1>7 DEF Destroy, CloseFd
<1>8. ASSUME NEW o \in Obj, NEW p \in Obj, Pipe(o, p) PROVE TypeOK'
    BY <1>8 DEF Pipe, Install
<1>9. ASSUME NEW o \in Obj, NEW p \in Obj, CopyConstruct(o, p) PROVE TypeOK'
    BY <1>9 DEF CopyConstruct, Install
<1>10. ASSUME NEW o \in Obj, NEW p \in Obj, MoveConstruct(o, p) PROVE TypeOK'
    BY <1>10 DEF MoveConstruct
<1>11. ASSUME NEW o \in Obj, NEW p \in Obj, CopyAssign(o, p) PROVE TypeOK'
    BY <1>11 DEF CopyAssign, Dup2
<1>12. ASSUME NEW o \in Obj, NEW p \in Obj, MoveAssign(o, p) PROVE TypeOK'
    BY <1>12 DEF MoveAssign, CloseFd
<1>13. ASSUME NEW o \in Obj, NEW fd \in Fds, Adopt(o, fd) PROVE TypeOK'
    BY <1>13 DEF Adopt
<1>14. CASE UNCHANGED vars
    BY <1>14 DEF vars
<1> QED
    BY <1>1, <1>2, <1>3, <1>4, <1>5, <1>6, <1>7, <1>8, <1>9, <1>10, <1>11,
       <1>12, <1>13, <1>14 DEF Next

\* What a step may do to harmed.
LEMMA HarmStays == TypeOK /\ [Next]_vars /\ ~harmed' => ~harmed
BY DEF TypeOK, Next, vars, Default, Open, OpenAte, Openat, SeekEndLocal, Unwind,
       Detach, Destroy, Pipe, CopyConstruct, MoveConstruct, CopyAssign,
       MoveAssign, Adopt

Owned == OneOwner /\ OwnedIsOpen /\ OpenIsOwned

\* The two descriptors a pipe gets.
LEMMA PipeEnds ==
    ASSUME NEW o, NEW p, Pipe(o, p)
    PROVE  \E fd \in Fds, g \in Fds, d \in Desc, e \in Desc :
            /\ table[fd] = Free
            /\ Install(table, fd, d)[g] = Free
            /\ table' = Install(Install(table, fd, d), g, e)
            /\ ref' = [ref EXCEPT ![o] = fd, ![p] = g]
BY DEF Pipe, IsLowestFree

LEMMA OwnedStep ==
    TypeOK /\ Owned /\ [Next]_vars /\ ~harmed' => Owned'
<1> SUFFICES ASSUME TypeOK, Owned, [Next]_vars, ~harmed' PROVE Owned'
    OBVIOUS
<1> USE DEF TypeOK, Owned, OneOwner, OwnedIsOpen, OpenIsOwned, Owns, Obj,
            Holds, Live
<1>1. ASSUME NEW o \in Obj, Default(o) PROVE Owned'
    BY <1>1 DEF Default
<1>2. ASSUME NEW o \in Obj, Open(o) PROVE Owned'
    BY <1>2 DEF Open, Openat, Install, IsLowestFree
<1>3. ASSUME NEW o \in Obj, OpenAte(o) PROVE Owned'
    BY <1>3 DEF OpenAte, Openat, Install, IsLowestFree
<1>4. ASSUME NEW o \in Obj, SeekEndLocal(o) PROVE Owned'
  <2>1. CASE building' = [building EXCEPT ![o] = "no"] /\ UNCHANGED table
    BY <1>4, <2>1 DEF SeekEndLocal
  <2>2. CASE /\ building' = [building EXCEPT ![o] = "unwind"]
             /\ table' = CloseFd(table, ref[o])
    <3>1. /\ building[o] = "seek"
          /\ Owns(o)
          /\ UNCHANGED <<ref, loose>>
        BY <1>4 DEF SeekEndLocal
    <3>2. ~Owns(o)'
        BY <2>2
    <3>3. \A p \in Obj : p # o => (Owns(p)' <=> Owns(p))
        BY <2>2, <3>1
    <3>4. \A fd \in Fds : table'[fd] = IF fd = ref[o] THEN Free ELSE table[fd]
        BY <2>2, <3>1 DEF CloseFd
    <3>5. OneOwner'
        BY <3>1, <3>2, <3>3
    <3>6. OwnedIsOpen'
      <4>1. \A p \in Obj : Owns(p)' => ref[p] # ref[o] /\ table[ref[p]] # Free
        BY <3>1, <3>2, <3>3
      <4>2. \A fd \in loose : fd # ref[o] /\ table[fd] # Free
        BY <3>1
      <4> QED
        BY <3>1, <3>4, <4>1, <4>2
    <3>7. OpenIsOwned'
        BY <3>1, <3>2, <3>3, <3>4
    <3> QED
        BY <3>5, <3>6, <3>7
  <2> QED
    BY <1>4, <2>1, <2>2 DEF SeekEndLocal
<1>5. ASSUME NEW o \in Obj, Unwind(o) PROVE Owned'
  <2>1. /\ building[o] = "unwind"
        /\ ref' = [ref EXCEPT ![o] = Dead]
        /\ building' = [building EXCEPT ![o] = "no"]
        /\ UNCHANGED loose
        /\ table' = CloseFd(table, ref[o])
    BY <1>5 DEF Unwind
  <2>2. table[ref[o]] = Free
    BY <1>5, Zenon DEF Unwind
  <2>3. table' = table
    BY <2>1, <2>2 DEF CloseFd
  <2> QED
    BY <2>1, <2>3
<1>6. ASSUME NEW o \in Obj, Detach(o) PROVE Owned'
    BY <1>6 DEF Detach
<1>7. ASSUME NEW o \in Obj, Destroy(o) PROVE Owned'
    BY <1>7 DEF Destroy, CloseFd
<1>8. ASSUME NEW o \in Obj, NEW p \in Obj, Pipe(o, p) PROVE Owned'
  <2>1. PICK fd \in Fds, g \in Fds, d \in Desc, e \in Desc :
            /\ table[fd] = Free
            /\ Install(table, fd, d)[g] = Free
            /\ table' = Install(Install(table, fd, d), g, e)
            /\ ref' = [ref EXCEPT ![o] = fd, ![p] = g]
    BY ONLY <1>8, PipeEnds
  <2>2. /\ o # p
        /\ ref[o] = Dead /\ ref[p] = Dead
        /\ UNCHANGED <<building, loose>>
    BY <1>8 DEF Pipe
  <2>3. fd # g /\ table[g] = Free
    BY <2>1 DEF Install
  <2>4. \A h \in Fds : table'[h] = IF h = g THEN e ELSE IF h = fd THEN d
                                    ELSE table[h]
    BY <2>1 DEF Install
  <2>5. /\ ref'[o] = fd /\ ref'[p] = g
        /\ \A q \in Obj : q \notin {o, p} => ref'[q] = ref[q]
    BY <2>1, <2>2
  <2>6. building[o] = "no" /\ building[p] = "no"
    BY <2>2
  <2>7. OneOwner'
    BY <2>1, <2>2, <2>3, <2>5, <2>6
  <2>8. OwnedIsOpen'
    <3>1. \A h \in Fds : table[h] # Free => table'[h] # Free
      BY <2>4
    <3>2. table'[fd] # Free /\ table'[g] # Free
      BY <2>4
    <3>3. \A h \in loose : table'[h] # Free
      BY <3>1
    <3>4. ASSUME NEW q \in Obj, Owns(q)' PROVE table'[ref'[q]] # Free
      <4>1. CASE q \in {o, p}
        BY <4>1, <2>5, <3>2
      <4>2. CASE q \notin {o, p}
        <5>1. Owns(q) /\ ref'[q] = ref[q]
          BY <4>2, <3>4, <2>2, <2>5
        <5> QED
          BY <5>1, <3>1
      <4> QED
        BY <4>1, <4>2
    <3> QED
      BY <2>2, <3>3, <3>4
  <2>9. OpenIsOwned'
    BY <2>1, <2>2, <2>3, <2>4, <2>5, <2>6
  <2> QED
    BY <2>7, <2>8, <2>9
<1>9. ASSUME NEW o \in Obj, NEW p \in Obj, CopyConstruct(o, p) PROVE Owned'
    BY <1>9 DEF CopyConstruct, Install, IsLowestFree
<1>10. ASSUME NEW o \in Obj, NEW p \in Obj, MoveConstruct(o, p) PROVE Owned'
    BY <1>10 DEF MoveConstruct
<1>11. ASSUME NEW o \in Obj, NEW p \in Obj, CopyAssign(o, p) PROVE Owned'
    BY <1>11 DEF CopyAssign, Dup2
<1>12. ASSUME NEW o \in Obj, NEW p \in Obj, MoveAssign(o, p) PROVE Owned'
    BY <1>12 DEF MoveAssign, CloseFd
<1>13. ASSUME NEW o \in Obj, NEW fd \in Fds, Adopt(o, fd) PROVE Owned'
    BY <1>13 DEF Adopt
<1>14. CASE UNCHANGED vars
    BY <1>14 DEF vars
<1> QED
    BY <1>1, <1>2, <1>3, <1>4, <1>5, <1>6, <1>7, <1>8, <1>9, <1>10, <1>11,
       <1>12, <1>13, <1>14 DEF Next

LEMMA InvStep == Inv /\ [Next]_vars => Inv'
<1> SUFFICES ASSUME Inv, [Next]_vars PROVE Inv'
    OBVIOUS
<1>1. TypeOK'
    BY TypeStep DEF Inv
<1>2. ~harmed' => ~harmed
    BY HarmStays DEF Inv
<1>3. ~harmed => Owned
    BY DEF Inv, DescriptorsAreOwned, Owned
<1>4. ~harmed' => Owned'
    BY <1>2, <1>3, OwnedStep DEF Inv
<1> QED
    BY <1>1, <1>4 DEF Inv, DescriptorsAreOwned, Owned

\* The inductive invariant.  Ownership is inductive by itself: the three parts
\* need each other (a descriptor is free to be handed out again only because
\* every open one has an owner and every owner's is open).
THEOREM Invariance == Spec => []Inv
<1>1. Init => Inv
    BY InitInv
<1>2. Inv /\ [Next]_vars => Inv'
    BY InvStep
<1> QED
    BY <1>1, <1>2, PTL DEF Spec

\* The state stays of the right type, for any number of objects and descriptors.
THEOREM TypeCorrect == Spec => []TypeOK
<1>1. Inv => TypeOK
    BY DEF Inv
<1> QED
    BY <1>1, Invariance, PTL

\* However objects are opened, copied, moved, assigned, detached and destroyed,
\* every open descriptor has exactly one owner and every owner's descriptor is
\* open, until a failed open with ate closes another thread's descriptor.
THEOREM NoLeakNoDoubleClose == Spec => []DescriptorsAreOwned
<1>1. Inv => DescriptorsAreOwned
    BY DEF Inv
<1> QED
    BY <1>1, Invariance, PTL

-------------------------------------------------------------------------------
(* PosixFile implements FileRefs: every step changes what the objects it is   *)
(* made on refer to, and nothing else.                                        *)

\* The refinement mapping.
refersTo == [o \in Obj |-> IF building[o] = "unwind" THEN Dead
                          ELSE IF ref[o] \in Fds THEN table[ref[o]] ELSE ref[o]]

\* Where an object owns a descriptor, it refers to an open file.
LEMMA RefersDef ==
    ASSUME TypeOK, NEW o \in Obj
    PROVE  /\ refersTo[o] = (IF building[o] = "unwind" THEN Dead
                            ELSE IF ref[o] \in Fds THEN table[ref[o]] ELSE ref[o])
           /\ ~harmed /\ Owned /\ Owns(o) => refersTo[o] \in Desc
BY DEF TypeOK, refersTo, Owned, OwnedIsOpen, Owns

\* A description no descriptor names is referred to by nobody.
LEMMA FreshIsNew ==
    ASSUME TypeOK, NEW d \in Desc, IsFresh(table, d)
    PROVE  ~Refs!IsOpen(d)
<1>1. d \notin {table[fd] : fd \in loose}
    BY DEF IsFresh, TypeOK
<1>2. ASSUME NEW o \in Obj PROVE refersTo[o] # d
    BY RefersDef DEF IsFresh, TypeOK
<1> QED
    BY <1>1, <1>2 DEF Refs!IsOpen, refersTo

LEMMA RefsInitial == Init => Refs!RefsInit
BY DEF Init, Refs!RefsInit, Obj

\* A step that changes what one object refers to.
LEMMA OneChange ==
    ASSUME NEW o \in Obj, NEW x,
           refersTo'[o] = x,
           \A q \in Obj : q # o => refersTo'[q] = refersTo[q]
    PROVE  refersTo' = [refersTo EXCEPT ![o] = x]
BY DEF refersTo

LEMMA TwoChanges ==
    ASSUME NEW o \in Obj, NEW p \in Obj, NEW x, NEW y, o # p,
           refersTo'[o] = x, refersTo'[p] = y,
           \A q \in Obj : q \notin {o, p} => refersTo'[q] = refersTo[q]
    PROVE  refersTo' = [refersTo EXCEPT ![o] = x, ![p] = y]
BY DEF refersTo

LEMMA NoChange ==
    ASSUME \A q \in Obj : refersTo'[q] = refersTo[q]
    PROVE  refersTo' = refersTo
BY DEF refersTo

lentNow == {table[fd] : fd \in loose}

\* The actions of FileRefs under the mapping.
Calm == TypeOK /\ TypeOK' /\ Owned /\ ~harmed /\ ~harmed'

LEMMA OpenMaps ==
    ASSUME Calm, NEW o \in Obj, Openat(o),
           building'[o] # "unwind",
           \A q \in Obj : q # o => building'[q] = building[q]
    PROVE  Refs!RefsNext
<1>1. PICK fd \in Fds, d \in Desc :
            /\ table[fd] = Free
            /\ IsFresh(table, d)
            /\ table' = Install(table, fd, d)
            /\ ref' = [ref EXCEPT ![o] = fd]
    BY DEF Openat, IsLowestFree
<1>2. TypeOK /\ TypeOK' /\ ~harmed /\ ~harmed' /\ Owned
    BY DEF Calm
<1>3. ref[o] = Dead /\ building[o] = "no" /\ UNCHANGED loose
    BY <1>2 DEF Openat, TypeOK
<1>4. \A g \in Fds : table'[g] = IF g = fd THEN d ELSE table[g]
    BY <1>1, <1>2 DEF Install, TypeOK
<1>5. refersTo[o] = Dead
    BY <1>2, <1>3, RefersDef
<1>6. refersTo'[o] = d
  <2>1. ref'[o] = fd
    BY <1>1, <1>2 DEF TypeOK
  <2> QED
    BY <1>1, <1>4, <2>1 DEF refersTo
<1>7. ASSUME NEW q \in Obj, q # o PROVE refersTo'[q] = refersTo[q]
  <2>1. ref'[q] = ref[q] /\ building'[q] = building[q]
    BY <1>1, <1>2, <1>7 DEF TypeOK
  <2>2. CASE Owns(q)
    <3>1. table[ref[q]] # Free
      BY <1>2, <2>2 DEF Owned, OwnedIsOpen
    <3>2. table'[ref[q]] = table[ref[q]]
      BY <1>1, <1>4, <2>2, <3>1 DEF Owns
    <3> QED
      BY <2>1, <3>2 DEF refersTo
  <2>3. CASE ~Owns(q)
    BY <2>1, <2>3 DEF refersTo, Owns
  <2> QED
    BY <2>2, <2>3
<1>8. refersTo' = [refersTo EXCEPT ![o] = d]
    BY <1>6, <1>7, OneChange
<1>9. lentNow' = lentNow
  <2>1. \A g \in loose : table'[g] = table[g]
    BY <1>1, <1>2, <1>4 DEF TypeOK, Owned, OwnedIsOpen
  <2> QED
    BY <1>3, <2>1 DEF lentNow
<1>10. ~Refs!IsOpen(d)
    BY <1>1, <1>2, FreshIsNew
<1>11. Refs!OpenNew(o, d)
    BY <1>2, <1>5, <1>8, <1>9, <1>10 DEF Refs!OpenNew, Refs!Sound, refersTo, lentNow
<1> QED
    BY <1>11 DEF Refs!RefsNext

\* Closing or overwriting the entry of one owner leaves what the others and the
\* loose descriptors refer to.
LEMMA OthersKeep ==
    ASSUME Calm, NEW o \in Obj, Owns(o),
           \A fd \in Fds : fd # ref[o] => table'[fd] = table[fd],
           UNCHANGED loose,
           NEW q \in Obj, q # o, ref'[q] = ref[q], building'[q] = building[q]
    PROVE  refersTo'[q] = refersTo[q]
<1>1. OneOwner
    BY DEF Calm, Owned
<1>2. CASE Owns(q)
  <2>1. ref[q] \in Fds /\ ref[q] # ref[o]
    BY <1>1, <1>2 DEF OneOwner, Owns
  <2> QED
    BY <2>1 DEF refersTo
<1>3. CASE ~Owns(q)
    BY <1>3 DEF refersTo, Owns
<1> QED
    BY <1>2, <1>3

LEMMA LooseKeeps ==
    ASSUME Calm, NEW o \in Obj, Owns(o),
           \A fd \in Fds : fd # ref[o] => table'[fd] = table[fd],
           UNCHANGED loose
    PROVE  lentNow' = lentNow
<1>1. \A fd \in loose : fd \in Fds /\ fd # ref[o]
    BY DEF Calm, TypeOK, Owned, OneOwner
<1>2. \A fd \in loose : table'[fd] = table[fd]
    BY <1>1
<1> QED
    BY <1>2 DEF lentNow

LEMMA StutterMaps ==
    ASSUME Calm, refersTo' = refersTo, lentNow' = lentNow
    PROVE  UNCHANGED Refs!rVars
<1>1. harmed' = harmed
  <2>1. harmed = FALSE /\ harmed' = FALSE
    BY Zenon DEF Calm, TypeOK
  <2> QED
    BY <2>1
<1>2. UNCHANGED <<refersTo, lentNow, harmed>>
    BY <1>1
<1> QED
    BY <1>2, Zenon DEF Refs!rVars, refersTo, lentNow

LEMMA DefaultMaps ==
    ASSUME Calm, NEW o \in Obj, Default(o) PROVE Refs!RefsNext
<1>1. /\ ref[o] = Dead /\ ref' = [ref EXCEPT ![o] = None]
      /\ UNCHANGED <<table, building, loose>>
      /\ TypeOK /\ ~harmed /\ ~harmed'
    BY DEF Calm, Default
<1>2. building[o] = "no"
    BY <1>1 DEF TypeOK
<1>3. refersTo[o] = Dead
    BY <1>1, <1>2, RefersDef
<1>4. refersTo'[o] = None
    BY <1>1, <1>2 DEF refersTo, TypeOK
<1>5. ASSUME NEW q \in Obj, q # o PROVE refersTo'[q] = refersTo[q]
    BY <1>1, <1>5 DEF refersTo, TypeOK
<1>6. refersTo' = [refersTo EXCEPT ![o] = None]
    BY <1>4, <1>5, OneChange
<1>7. Refs!Default(o)
    BY <1>1, <1>3, <1>6 DEF Refs!Default, Refs!Sound, refersTo
<1> QED
    BY <1>7 DEF Refs!RefsNext

LEMMA SeekMaps ==
    ASSUME Calm, NEW o \in Obj, SeekEndLocal(o)
    PROVE  Refs!RefsNext \/ UNCHANGED Refs!rVars
<1>1. /\ building[o] = "seek" /\ UNCHANGED <<ref, loose>>
      /\ TypeOK /\ ~harmed /\ ~harmed' /\ Owned
      /\ Owns(o)
    BY DEF Calm, SeekEndLocal, Owns, TypeOK
<1>2. CASE building' = [building EXCEPT ![o] = "no"] /\ UNCHANGED table
  <2>1. \A q \in Obj : building'[q] = "unwind" <=> building[q] = "unwind"
    BY <1>1, <1>2 DEF TypeOK
  <2>2. refersTo' = refersTo
    BY <1>1, <1>2, <2>1, NoChange DEF refersTo
  <2>3. lentNow' = lentNow
    BY <1>1, <1>2 DEF lentNow
  <2> QED
    BY <2>2, <2>3, StutterMaps
<1>3. CASE /\ building' = [building EXCEPT ![o] = "unwind"]
           /\ table' = CloseFd(table, ref[o])
  <2>1. \A fd \in Fds : fd # ref[o] => table'[fd] = table[fd]
    BY <1>1, <1>3 DEF CloseFd, TypeOK
  <2>2. ASSUME NEW q \in Obj, q # o PROVE refersTo'[q] = refersTo[q]
    <3>1. ref'[q] = ref[q] /\ building'[q] = building[q]
      BY <1>1, <1>3, <2>2 DEF TypeOK
    <3> QED
      BY <1>1, <2>1, <2>2, <3>1, OthersKeep
  <2>3. refersTo'[o] = Dead
    BY <1>1, <1>3 DEF refersTo, TypeOK
  <2>4. refersTo' = [refersTo EXCEPT ![o] = Dead]
    BY <2>2, <2>3, OneChange
  <2>5. lentNow' = lentNow
    BY <1>1, <2>1, LooseKeeps
  <2>6. Refs!End(o)
    BY <1>1, <2>4, <2>5 DEF Refs!End, Refs!Sound, refersTo, lentNow
  <2> QED
    BY <2>6 DEF Refs!RefsNext
<1> QED
    BY <1>2, <1>3 DEF SeekEndLocal

LEMMA UnwindMaps ==
    ASSUME Calm, NEW o \in Obj, Unwind(o) PROVE UNCHANGED Refs!rVars
<1>1. /\ building[o] = "unwind"
      /\ ref' = [ref EXCEPT ![o] = Dead]
      /\ building' = [building EXCEPT ![o] = "no"]
      /\ UNCHANGED loose
      /\ table' = CloseFd(table, ref[o])
      /\ TypeOK /\ ~harmed /\ ~harmed'
    BY DEF Calm, Unwind
<1>2. table[ref[o]] = Free
    BY <1>1, Zenon DEF Unwind
<1>3. table' = table
    BY <1>1, <1>2 DEF CloseFd, TypeOK
<1>4. ASSUME NEW q \in Obj PROVE refersTo'[q] = refersTo[q]
  <2>1. CASE q = o
    BY <1>1, <2>1 DEF refersTo, TypeOK
  <2>2. CASE q # o
    BY <1>1, <1>3, <2>2 DEF refersTo, TypeOK
  <2> QED
    BY <2>1, <2>2
<1>5. refersTo' = refersTo
    BY <1>4, NoChange
<1>6. lentNow' = lentNow
    BY <1>1, <1>3 DEF lentNow
<1> QED
    BY <1>5, <1>6, StutterMaps

\* The two descriptors a pipe gets name two new descriptions.
LEMMA PipeNew ==
    ASSUME TypeOK, NEW o \in Obj, NEW p \in Obj, Pipe(o, p)
    PROVE  \E fd \in Fds, g \in Fds, d \in Desc, e \in Desc :
            /\ table[fd] = Free /\ table[g] = Free /\ fd # g
            /\ IsFresh(table, d) /\ IsFresh(table, e) /\ d # e
            /\ \A h \in Fds : table'[h] = IF h = g THEN e
                                         ELSE IF h = fd THEN d ELSE table[h]
            /\ ref' = [ref EXCEPT ![o] = fd, ![p] = g]
<1>1. PICK fd \in Fds, g \in Fds, d \in Desc, e \in Desc :
            /\ table[fd] = Free /\ IsFresh(table, d)
            /\ Install(table, fd, d)[g] = Free
            /\ IsFresh(Install(table, fd, d), e)
            /\ table' = Install(Install(table, fd, d), g, e)
            /\ ref' = [ref EXCEPT ![o] = fd, ![p] = g]
    BY DEF Pipe, IsLowestFree
<1>2. \A h \in Fds : Install(table, fd, d)[h] = IF h = fd THEN d ELSE table[h]
    BY DEF Install, TypeOK
<1>3. fd # g /\ table[g] = Free
    BY <1>1, <1>2
<1>4. d # e /\ \A h \in Fds : h # fd => table[h] # e
    BY <1>1, <1>2 DEF IsFresh
<1>5. IsFresh(table, e)
    BY <1>1, <1>4 DEF IsFresh
<1>6. \A h \in Fds : table'[h] = IF h = g THEN e ELSE IF h = fd THEN d
                                  ELSE table[h]
    BY <1>1, <1>2 DEF Install, TypeOK
<1> QED
    BY <1>1, <1>3, <1>4, <1>5, <1>6

LEMMA PipeMaps ==
    ASSUME Calm, NEW o \in Obj, NEW p \in Obj, Pipe(o, p) PROVE Refs!RefsNext
<1>1. PICK fd \in Fds, g \in Fds, d \in Desc, e \in Desc :
            /\ table[fd] = Free /\ table[g] = Free /\ fd # g
            /\ IsFresh(table, d) /\ IsFresh(table, e) /\ d # e
            /\ \A h \in Fds : table'[h] = IF h = g THEN e
                                         ELSE IF h = fd THEN d ELSE table[h]
            /\ ref' = [ref EXCEPT ![o] = fd, ![p] = g]
    BY PipeNew DEF Calm
<1>2. /\ TypeOK /\ TypeOK' /\ ~harmed /\ ~harmed' /\ Owned
      /\ o # p
      /\ ref[o] = Dead /\ ref[p] = Dead
      /\ UNCHANGED <<building, loose>>
    BY DEF Calm, Pipe
<1>3. building[o] = "no" /\ building[p] = "no"
    BY <1>2 DEF TypeOK
<1>4. refersTo[o] = Dead /\ refersTo[p] = Dead
    BY <1>2, <1>3, RefersDef
<1>5. refersTo'[o] = d /\ refersTo'[p] = e
  <2>1. ref'[o] = fd /\ ref'[p] = g
    BY <1>1, <1>2 DEF TypeOK
  <2> QED
    BY <1>1, <1>2, <1>3, <2>1 DEF refersTo
<1>6. ASSUME NEW q \in Obj, q \notin {o, p} PROVE refersTo'[q] = refersTo[q]
  <2>1. ref'[q] = ref[q] /\ building'[q] = building[q]
    BY <1>1, <1>2, <1>6 DEF TypeOK
  <2>2. CASE Owns(q)
    <3>1. table[ref[q]] # Free
      BY <1>2, <2>2 DEF Owned, OwnedIsOpen
    <3>2. table'[ref[q]] = table[ref[q]]
      BY <1>1, <2>2, <3>1 DEF Owns
    <3> QED
      BY <2>1, <3>2 DEF refersTo
  <2>3. CASE ~Owns(q)
    BY <2>1, <2>3 DEF refersTo, Owns
  <2> QED
    BY <2>2, <2>3
<1>7. refersTo' = [refersTo EXCEPT ![o] = d, ![p] = e]
    BY <1>2, <1>5, <1>6, TwoChanges
<1>8. lentNow' = lentNow
  <2>1. \A h \in loose : table'[h] = table[h]
    BY <1>1, <1>2 DEF TypeOK, Owned, OwnedIsOpen
  <2> QED
    BY <1>2, <2>1 DEF lentNow
<1>9. ~Refs!IsOpen(d) /\ ~Refs!IsOpen(e)
    BY <1>1, <1>2, FreshIsNew
<1>10. Refs!OpenPair(o, p, d, e)
    BY <1>1, <1>2, <1>4, <1>7, <1>8, <1>9
    DEF Refs!OpenPair, Refs!Sound, refersTo, lentNow
<1> QED
    BY <1>10 DEF Refs!RefsNext

LEMMA CopyMaps ==
    ASSUME Calm, NEW o \in Obj, NEW p \in Obj, CopyConstruct(o, p)
    PROVE  Refs!RefsNext
<1>1. PICK fd \in Fds :
            /\ table[fd] = Free
            /\ table' = Install(table, fd, table[ref[p]])
            /\ ref' = [ref EXCEPT ![o] = fd]
    BY DEF CopyConstruct, IsLowestFree
<1>2. /\ TypeOK /\ TypeOK' /\ ~harmed /\ ~harmed' /\ Owned
      /\ ref[o] = Dead /\ ref[p] \in Fds /\ building[p] = "no"
      /\ UNCHANGED <<building, loose>>
    BY DEF Calm, CopyConstruct, Holds, Live
<1>3. building[o] = "no"
    BY <1>2 DEF TypeOK
<1>4. refersTo[p] \in Desc /\ refersTo[p] = table[ref[p]]
    BY <1>2, RefersDef DEF Owns
<1>5. \A h \in Fds : table'[h] = IF h = fd THEN table[ref[p]] ELSE table[h]
    BY <1>1, <1>2 DEF Install, TypeOK
<1>6. refersTo'[o] = refersTo[p]
  <2>1. ref'[o] = fd
    BY <1>1, <1>2 DEF TypeOK
  <2> QED
    BY <1>1, <1>2, <1>3, <1>4, <1>5, <2>1 DEF refersTo
<1>7. ASSUME NEW q \in Obj, q # o PROVE refersTo'[q] = refersTo[q]
  <2>1. ref'[q] = ref[q] /\ building'[q] = building[q]
    BY <1>1, <1>2, <1>7 DEF TypeOK
  <2>2. CASE Owns(q)
    <3>1. table[ref[q]] # Free
      BY <1>2, <2>2 DEF Owned, OwnedIsOpen
    <3>2. table'[ref[q]] = table[ref[q]]
      BY <1>1, <1>5, <2>2, <3>1 DEF Owns
    <3> QED
      BY <2>1, <3>2 DEF refersTo
  <2>3. CASE ~Owns(q)
    BY <2>1, <2>3 DEF refersTo, Owns
  <2> QED
    BY <2>2, <2>3
<1>8. refersTo' = [refersTo EXCEPT ![o] = refersTo[p]]
    BY <1>6, <1>7, OneChange
<1>9. lentNow' = lentNow
  <2>1. \A h \in loose : table'[h] = table[h]
    BY <1>1, <1>2, <1>5 DEF TypeOK, Owned, OwnedIsOpen
  <2> QED
    BY <1>2, <2>1 DEF lentNow
<1>10. Refs!Share(o, p)
    BY <1>2, <1>4, <1>8, <1>9 DEF Refs!Share, Refs!Sound, refersTo, lentNow
<1> QED
    BY <1>10 DEF Refs!RefsNext

LEMMA AssignMaps ==
    ASSUME Calm, NEW o \in Obj, NEW p \in Obj, CopyAssign(o, p)
    PROVE  Refs!RefsNext
<1>1. /\ TypeOK /\ TypeOK' /\ ~harmed /\ ~harmed' /\ Owned
      /\ ref[o] \in Fds /\ building[o] = "no"
      /\ ref[p] \in Fds /\ building[p] = "no"
      /\ table' = Dup2(table, ref[p], ref[o])
      /\ UNCHANGED <<ref, building, loose>>
    BY DEF Calm, CopyAssign, Holds, Live
<1>2. Owns(o)
    BY <1>1 DEF Owns
<1>3. refersTo[p] \in Desc /\ refersTo[p] = table[ref[p]]
    BY <1>1, RefersDef DEF Owns
<1>4. \A h \in Fds : table'[h] = IF h = ref[o] THEN table[ref[p]] ELSE table[h]
    BY <1>1 DEF Dup2, TypeOK
<1>5. refersTo'[o] = refersTo[p]
    BY <1>1, <1>3, <1>4 DEF refersTo
<1>6. ASSUME NEW q \in Obj, q # o PROVE refersTo'[q] = refersTo[q]
    BY <1>1, <1>2, <1>4, <1>6, OthersKeep
<1>7. refersTo' = [refersTo EXCEPT ![o] = refersTo[p]]
    BY <1>5, <1>6, OneChange
<1>8. lentNow' = lentNow
    BY <1>1, <1>2, <1>4, LooseKeeps
<1>9. Refs!Share(o, p)
    BY <1>1, <1>3, <1>7, <1>8 DEF Refs!Share, Refs!Sound, refersTo, lentNow
<1> QED
    BY <1>9 DEF Refs!RefsNext

\* What both move operations of a handle do to the references.
LEMMA StealMaps ==
    ASSUME Calm, NEW o \in Obj, NEW p \in Obj, o # p, Live(p),
           refersTo'[o] = refersTo[p], refersTo'[p] = None,
           \A q \in Obj : q \notin {o, p} => refersTo'[q] = refersTo[q],
           lentNow' = lentNow
    PROVE  Refs!RefsNext
<1>1. refersTo[p] # Dead
    BY RefersDef DEF Calm, Live, Owns, TypeOK
<1>2. refersTo' = [refersTo EXCEPT ![o] = refersTo[p], ![p] = None]
    BY TwoChanges
<1>3. ~harmed /\ ~harmed'
    BY DEF Calm
<1>4. Refs!Steal(o, p)
    BY <1>1, <1>2, <1>3 DEF Refs!Steal, Refs!Sound, refersTo, lentNow
<1> QED
    BY <1>4 DEF Refs!RefsNext

LEMMA MoveConstructMaps ==
    ASSUME Calm, NEW o \in Obj, NEW p \in Obj, MoveConstruct(o, p)
    PROVE  Refs!RefsNext
<1>1. /\ TypeOK /\ TypeOK'
      /\ ref[o] = Dead /\ Live(p) /\ building[p] = "no" /\ o # p
      /\ ref' = [ref EXCEPT ![o] = ref[p], ![p] = None]
      /\ UNCHANGED <<table, building, loose>>
    BY DEF Calm, MoveConstruct, Live
<1>2. building[o] = "no"
    BY <1>1 DEF TypeOK
<1>3. ref'[o] = ref[p] /\ ref'[p] = None
    BY <1>1 DEF TypeOK
<1>4. refersTo'[o] = refersTo[p] /\ refersTo'[p] = None
    BY <1>1, <1>2, <1>3 DEF refersTo
<1>5. \A q \in Obj : q \notin {o, p} => refersTo'[q] = refersTo[q]
    BY <1>1 DEF refersTo, TypeOK
<1>6. lentNow' = lentNow
    BY <1>1 DEF lentNow
<1> QED
    BY <1>1, <1>4, <1>5, <1>6, StealMaps

LEMMA MoveAssignMaps ==
    ASSUME Calm, NEW o \in Obj, NEW p \in Obj, MoveAssign(o, p)
    PROVE  Refs!RefsNext
<1>1. /\ TypeOK /\ TypeOK' /\ Owned
      /\ Live(o) /\ Live(p) /\ building[o] = "no" /\ building[p] = "no"
      /\ ref[p] # ref[o] /\ o # p
      /\ ref' = [ref EXCEPT ![o] = ref[p], ![p] = None]
      /\ table' = IF ref[o] \in Fds THEN CloseFd(table, ref[o]) ELSE table
      /\ UNCHANGED <<building, loose>>
    BY DEF Calm, MoveAssign, Live
<1>2. ref'[o] = ref[p] /\ ref'[p] = None
    BY <1>1 DEF TypeOK
<1>3. \A fd \in Fds : fd # ref[o] => table'[fd] = table[fd]
    BY <1>1 DEF CloseFd, TypeOK
<1>4. refersTo'[o] = refersTo[p] /\ refersTo'[p] = None
    BY <1>1, <1>2, <1>3 DEF refersTo
<1>5. /\ \A q \in Obj : q \notin {o, p} => refersTo'[q] = refersTo[q]
      /\ lentNow' = lentNow
  <2>1. CASE ref[o] \in Fds
    <3>1. Owns(o)
      BY <1>1, <2>1 DEF Owns
    <3>2. ASSUME NEW q \in Obj, q \notin {o, p}
          PROVE  refersTo'[q] = refersTo[q]
      <4>1. ref'[q] = ref[q] /\ building'[q] = building[q]
        BY <1>1, <3>2 DEF TypeOK
      <4> QED
        BY <1>1, <1>3, <3>1, <3>2, <4>1, OthersKeep
    <3>3. lentNow' = lentNow
      BY <1>1, <1>3, <3>1, LooseKeeps
    <3> QED
      BY <3>2, <3>3
  <2>2. CASE ref[o] \notin Fds
    <3>1. table' = table
      BY <1>1, <2>2
    <3>2. \A q \in Obj : q \notin {o, p} => refersTo'[q] = refersTo[q]
      BY <1>1, <3>1 DEF refersTo, TypeOK
    <3>3. lentNow' = lentNow
      BY <1>1, <3>1 DEF lentNow
    <3> QED
      BY <3>2, <3>3
  <2> QED
    BY <2>1, <2>2
<1> QED
    BY <1>1, <1>4, <1>5, StealMaps

LEMMA DetachMaps ==
    ASSUME Calm, NEW o \in Obj, Detach(o) PROVE Refs!RefsNext
<1>1. /\ TypeOK /\ TypeOK' /\ ~harmed /\ ~harmed' /\ Owned
      /\ ref[o] \in Fds /\ building[o] = "no"
      /\ loose' = loose \cup {ref[o]}
      /\ ref' = [ref EXCEPT ![o] = None]
      /\ UNCHANGED <<table, building>>
    BY DEF Calm, Detach, Holds, Live
<1>2. refersTo[o] \in Desc /\ refersTo[o] = table[ref[o]]
    BY <1>1, RefersDef DEF Owns
<1>3. ref'[o] = None
    BY <1>1 DEF TypeOK
<1>4. refersTo'[o] = None
    BY <1>1, <1>3 DEF refersTo
<1>5. ASSUME NEW q \in Obj, q # o PROVE refersTo'[q] = refersTo[q]
    BY <1>1, <1>5 DEF refersTo, TypeOK
<1>6. refersTo' = [refersTo EXCEPT ![o] = None]
    BY <1>4, <1>5, OneChange
<1>7. lentNow' = lentNow \cup {refersTo[o]}
    BY <1>1, <1>2 DEF lentNow
<1>8. Refs!Release(o)
    BY <1>1, <1>2, <1>6, <1>7 DEF Refs!Release, Refs!Sound, refersTo, lentNow
<1> QED
    BY <1>8 DEF Refs!RefsNext

LEMMA AdoptMaps ==
    ASSUME Calm, NEW o \in Obj, NEW fd \in Fds, Adopt(o, fd)
    PROVE  Refs!RefsNext
<1>1. /\ TypeOK /\ TypeOK' /\ ~harmed /\ ~harmed' /\ Owned
      /\ ref[o] = Dead /\ fd \in loose
      /\ ref' = [ref EXCEPT ![o] = fd]
      /\ loose' = loose \ {fd}
      /\ UNCHANGED <<table, building>>
    BY DEF Calm, Adopt
<1>2. building[o] = "no" /\ ref'[o] = fd
    BY <1>1 DEF TypeOK
<1>3. table[fd] \in Desc
    BY <1>1 DEF TypeOK, Owned, OwnedIsOpen
<1>4. refersTo[o] = Dead
    BY <1>1, <1>2, RefersDef
<1>5. refersTo'[o] = table[fd]
    BY <1>1, <1>2 DEF refersTo
<1>6. ASSUME NEW q \in Obj, q # o PROVE refersTo'[q] = refersTo[q]
    BY <1>1, <1>6 DEF refersTo, TypeOK
<1>7. refersTo' = [refersTo EXCEPT ![o] = table[fd]]
    BY <1>5, <1>6, OneChange
<1>8. table[fd] \in lentNow
    BY <1>1 DEF lentNow
<1>9. lentNow' \in {lentNow, lentNow \ {table[fd]}}
  <2>1. lentNow' = {table[g] : g \in loose \ {fd}}
    BY <1>1 DEF lentNow
  <2>2. CASE \E g \in loose \ {fd} : table[g] = table[fd]
    BY <2>1, <2>2 DEF lentNow
  <2>3. CASE \A g \in loose \ {fd} : table[g] # table[fd]
    BY <2>1, <2>3 DEF lentNow
  <2> QED
    BY <2>2, <2>3
<1>10. PICK d \in Desc : d = table[fd]
    BY <1>3
<1>11. Refs!Adopt(o, d)
    BY <1>1, <1>4, <1>7, <1>8, <1>9, <1>10
    DEF Refs!Adopt, Refs!Sound, refersTo, lentNow
<1> QED
    BY <1>11 DEF Refs!RefsNext

LEMMA DestroyMaps ==
    ASSUME Calm, NEW o \in Obj, Destroy(o) PROVE Refs!RefsNext
<1>1. /\ TypeOK /\ TypeOK' /\ ~harmed /\ ~harmed' /\ Owned
      /\ building[o] = "no"
      /\ ref' = [ref EXCEPT ![o] = Dead]
      /\ table' = IF ref[o] \in Fds THEN CloseFd(table, ref[o]) ELSE table
      /\ UNCHANGED <<building, loose>>
    BY DEF Calm, Destroy, Live
<1>2. ref'[o] = Dead
    BY <1>1 DEF TypeOK
<1>3. refersTo'[o] = Dead
    BY <1>1, <1>2 DEF refersTo
<1>4. \A fd \in Fds : fd # ref[o] => table'[fd] = table[fd]
    BY <1>1 DEF CloseFd, TypeOK
<1>5. /\ \A q \in Obj : q # o => refersTo'[q] = refersTo[q]
      /\ lentNow' = lentNow
  <2>1. CASE ref[o] \in Fds
    <3>1. Owns(o)
      BY <1>1, <2>1 DEF Owns
    <3>2. ASSUME NEW q \in Obj, q # o PROVE refersTo'[q] = refersTo[q]
      <4>1. ref'[q] = ref[q] /\ building'[q] = building[q]
        BY <1>1, <3>2 DEF TypeOK
      <4> QED
        BY <1>1, <1>4, <3>1, <3>2, <4>1, OthersKeep
    <3>3. lentNow' = lentNow
      BY <1>1, <1>4, <3>1, LooseKeeps
    <3> QED
      BY <3>2, <3>3
  <2>2. CASE ref[o] \notin Fds
    <3>1. table' = table
      BY <1>1, <2>2
    <3>2. \A q \in Obj : q # o => refersTo'[q] = refersTo[q]
      BY <1>1, <3>1 DEF refersTo, TypeOK
    <3>3. lentNow' = lentNow
      BY <1>1, <3>1 DEF lentNow
    <3> QED
      BY <3>2, <3>3
  <2> QED
    BY <2>1, <2>2
<1>6. refersTo' = [refersTo EXCEPT ![o] = Dead]
    BY <1>3, <1>5, OneChange
<1>7. Refs!End(o)
    BY <1>1, <1>5, <1>6 DEF Refs!End, Refs!Sound, refersTo, lentNow
<1> QED
    BY <1>7 DEF Refs!RefsNext

LEMMA RefsStep ==
    Inv /\ Inv' /\ [Next]_vars => [Refs!RefsNext]_(Refs!rVars)
<1> SUFFICES ASSUME Inv, Inv', [Next]_vars
             PROVE  Refs!RefsNext \/ UNCHANGED Refs!rVars
    OBVIOUS
<1>1. CASE harmed'
    BY <1>1 DEF Refs!RefsNext, Refs!Break
<1>2. CASE ~harmed'
  <2>1. Calm
    BY <1>2, HarmStays DEF Calm, Inv, DescriptorsAreOwned, Owned
  <2>2. ASSUME NEW o \in Obj, Open(o) PROVE Refs!RefsNext
    <3>1. Openat(o) /\ UNCHANGED building
      BY <2>2 DEF Open
    <3>2. building[o] # "unwind"
      BY <2>1, <3>1 DEF Openat, Calm, TypeOK
    <3> QED
      BY <2>1, <3>1, <3>2, OpenMaps
  <2>3. ASSUME NEW o \in Obj, OpenAte(o) PROVE Refs!RefsNext
    <3>1. Openat(o) /\ building' = [building EXCEPT ![o] = "seek"]
      BY <2>3 DEF OpenAte
    <3>2. /\ building'[o] # "unwind"
          /\ \A q \in Obj : q # o => building'[q] = building[q]
      BY <2>1, <3>1 DEF Calm, TypeOK
    <3> QED
      BY <2>1, <3>1, <3>2, OpenMaps
  <2>4. CASE UNCHANGED vars
    <3>1. refersTo' = refersTo /\ lentNow' = lentNow
      BY <2>4 DEF vars, refersTo, lentNow
    <3> QED
      BY <2>1, <3>1, StutterMaps
  <2>5. CASE Next
    BY <2>1, <2>2, <2>3, <2>5, DefaultMaps, SeekMaps, UnwindMaps, DetachMaps,
       DestroyMaps, PipeMaps, CopyMaps, MoveConstructMaps, AssignMaps,
       MoveAssignMaps, AdoptMaps DEF Next
  <2> QED
    BY <2>4, <2>5
<1> QED
    BY <1>1, <1>2

\* basic_posix_file and basic_posix_io_handle implement references to files: a
\* call changes what the objects it is made on refer to and nothing else, until
\* the double close of a failed open with ate.
THEOREM Refinement == Spec => ImplementsFileRefs
<1>1. Init => Refs!RefsInit
    BY RefsInitial
<1>2. Inv /\ Inv' /\ [Next]_vars => [Refs!RefsNext]_(Refs!rVars)
    BY RefsStep
<1> QED
    BY <1>1, <1>2, Invariance, PTL DEF Spec, ImplementsFileRefs, Refs!RefsSpec
===============================================================================
