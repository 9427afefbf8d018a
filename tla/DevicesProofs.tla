----------------------------- MODULE DevicesProofs -----------------------------
(***************************************************************************)
(* Proofs about the parts of Devices: handles of Windows have one owner    *)
(* and implement FileRefs, a synchronised log is complete, threads that    *)
(* create processes keep flags and handles in order, files are opened as   *)
(* their modes say, a FILE is shared with stdio, and a mapped file is its  *)
(* text.                                                                   *)
(***************************************************************************)
EXTENDS Devices, TLAPS

-------------------------------------------------------------------------------
(* Handles of Windows *)

HandleTypes ==
    /\ open \in [Values -> Opened \cup {Unused}]
    /\ kind \in [Places -> Kinds]
    /\ hd \in [Places -> Values \cup {Null, NoObject}]
    /\ phase \in [Places -> {"whole", "attaches", "unwinds"}]
    /\ lent \subseteq Values
    /\ shut \subseteq Places
    /\ harmed \in BOOLEAN

\* Only the constructor of a file goes on after its object has a handle.
Unfinished ==
    \A o \in Places : phase[o] # "whole" =>
        kind[o] = "file" /\ hd[o] \in Values /\ o \notin shut

ShutHaveHandles ==
    \A o \in shut : kind[o] \in {"file", "io handle"} /\ hd[o] \in Values

\* The handle that each object owns, if any.
owns == [o \in Places |-> IF OwnsHandle(o) THEN hd[o] ELSE Null]

\* HandlesAreOwned, of what objects own, what is open and what is lent.
Owned(own, op, le) ==
    /\ \A o \in Places : own[o] \in Values => op[own[o]] # Unused /\ own[o] \notin le
    /\ \A h \in le : op[h] # Unused
    /\ \A h \in Values : op[h] # Unused => h \in le \/ \E o \in Places : own[o] = h
    /\ \A o, p \in Places : own[o] = own[p] /\ own[o] \in Values => o = p

HandlesInv ==
    /\ HandleTypes /\ Unfinished /\ ShutHaveHandles
    /\ ~harmed => Owned(owns, open, lent)

LEMMA Marks == /\ Null \notin Values /\ NoObject \notin Values /\ Null # NoObject
               /\ Unused \notin Opened /\ Null \notin Opened /\ NoObject \notin Opened
BY ValuesAssumption, OpenedAssumption DEF Null, NoObject

LEMMA HandlesInitInv == HandlesInit => HandlesInv
BY Marks DEF HandlesInit, HandlesInv, HandleTypes, Unfinished, ShutHaveHandles, Owned,
    owns, OwnsHandle

LEMMA HandleTypesStep ==
    ASSUME HandleTypes, HandlesNext PROVE HandleTypes'
<1> USE Marks DEF HandleTypes, Live, Vacant, HasHandle, CloseOf, Harms
<1>1. ASSUME NEW o \in Places PROVE CloseOf(o) \in [Values -> Opened \cup {Unused}]
    OBVIOUS
<1>2. ASSUME NEW o \in Places, EmptyObject(o) PROVE HandleTypes'
    BY <1>2 DEF EmptyObject
<1>3. ASSUME NEW o \in Places, NEW then \in {"whole", "attaches"}, OpenHandle(o, then)
      PROVE  HandleTypes'
    BY <1>3 DEF OpenHandle
<1>4. ASSUME NEW o \in Places, OpenAsync(o) PROVE HandleTypes'
    BY <1>3, <1>4 DEF OpenAsync
<1>5. ASSUME NEW o \in Places, Attach(o) PROVE HandleTypes'
    BY <1>1, <1>5 DEF Attach
<1>6. ASSUME NEW o \in Places, UnwindAsync(o) PROVE HandleTypes'
    BY <1>1, <1>6 DEF UnwindAsync
<1>7. ASSUME NEW o \in Places, CloseRight(o) PROVE HandleTypes'
    BY <1>1, <1>7 DEF CloseRight
<1>8. ASSUME NEW o \in Places, CloseFile(o) PROVE HandleTypes'
    BY <1>1, <1>8 DEF CloseFile
<1>9. ASSUME NEW o \in Places, DetachHandle(o) PROVE HandleTypes'
    BY <1>9 DEF DetachHandle
<1>10. ASSUME NEW o \in Places, DestroyObject(o) PROVE HandleTypes'
    BY <1>1, <1>10 DEF DestroyObject
<1>11. ASSUME NEW o \in Places, NEW h \in Values, AdoptHandle(o, h) PROVE HandleTypes'
    BY <1>11 DEF AdoptHandle
<1>12. ASSUME NEW o \in Places, NEW p \in Places, OpenPipe(o, p) PROVE HandleTypes'
    BY <1>12 DEF OpenPipe
<1>13. ASSUME NEW o \in Places, NEW p \in Places, CopyObject(o, p) PROVE HandleTypes'
    BY <1>13 DEF CopyObject
<1>14. ASSUME NEW o \in Places, NEW p \in Places, Moved(o, p)
       PROVE  /\ hd' \in [Places -> Values \cup {Null, NoObject}]
              /\ shut' \subseteq Places
    BY <1>14 DEF Moved
<1>15. ASSUME NEW o \in Places, NEW p \in Places, MoveObject(o, p) PROVE HandleTypes'
    BY <1>14, <1>15 DEF MoveObject
<1>16. ASSUME NEW o \in Places, NEW p \in Places, AssignCopy(o, p) PROVE HandleTypes'
    BY <1>16 DEF AssignCopy
<1>17. ASSUME NEW o \in Places, NEW p \in Places, AssignMove(o, p) PROVE HandleTypes'
    BY <1>1, <1>14, <1>17 DEF AssignMove
<1> QED
    BY <1>2, <1>3, <1>4, <1>5, <1>6, <1>7, <1>8, <1>9, <1>10, <1>11, <1>12, <1>13,
       <1>15, <1>16, <1>17 DEF HandlesNext

\* What an object that goes away closes is its own or nothing.
LEMMA ClosedIsOwn ==
    ASSUME HandlesInv, ~harmed, NEW o \in Places, ~Harms(o)
    PROVE  /\ OwnsHandle(o) => CloseOf(o) = [open EXCEPT ![hd[o]] = Unused]
           /\ ~OwnsHandle(o) => CloseOf(o) = open
BY Marks DEF HandlesInv, HandleTypes, CloseOf, Harms, OwnsHandle

\* A step changes the phase of a file only, and leaves to close() alone the
\* objects whose handle is closed.
LEMMA UnfinishedStep ==
    ASSUME HandlesInv, HandlesNext PROVE Unfinished' /\ ShutHaveHandles'
<1> USE Marks DEF HandlesInv, HandleTypes, Unfinished, ShutHaveHandles, Live, Vacant, HasHandle
<1>2. ASSUME NEW o \in Places, EmptyObject(o) PROVE Unfinished' /\ ShutHaveHandles'
    BY <1>2 DEF EmptyObject
<1>3. ASSUME NEW o \in Places, OpenHandle(o, "whole")
      PROVE  Unfinished' /\ ShutHaveHandles'
    BY <1>3 DEF OpenHandle
<1>4. ASSUME NEW o \in Places, OpenAsync(o) PROVE Unfinished' /\ ShutHaveHandles'
    BY <1>4, ZenonT(60) DEF OpenAsync, OpenHandle
<1>5. ASSUME NEW o \in Places, Attach(o) PROVE Unfinished' /\ ShutHaveHandles'
    BY <1>5 DEF Attach
<1>6. ASSUME NEW o \in Places, UnwindAsync(o) PROVE Unfinished' /\ ShutHaveHandles'
    BY <1>6 DEF UnwindAsync
<1>7. ASSUME NEW o \in Places, CloseRight(o) PROVE Unfinished' /\ ShutHaveHandles'
    BY <1>7 DEF CloseRight
<1>8. ASSUME NEW o \in Places, CloseFile(o) PROVE Unfinished' /\ ShutHaveHandles'
    BY <1>8 DEF CloseFile
<1>9. ASSUME NEW o \in Places, DetachHandle(o) PROVE Unfinished' /\ ShutHaveHandles'
    BY <1>9 DEF DetachHandle
<1>10. ASSUME NEW o \in Places, DestroyObject(o) PROVE Unfinished' /\ ShutHaveHandles'
    BY <1>10 DEF DestroyObject
<1>11. ASSUME NEW o \in Places, NEW h \in Values, AdoptHandle(o, h)
       PROVE  Unfinished' /\ ShutHaveHandles'
    BY <1>11 DEF AdoptHandle
<1>12. ASSUME NEW o \in Places, NEW p \in Places, OpenPipe(o, p)
       PROVE  Unfinished' /\ ShutHaveHandles'
    BY <1>12, ZenonT(60) DEF OpenPipe
<1>13. ASSUME NEW o \in Places, NEW p \in Places, CopyObject(o, p)
       PROVE  Unfinished' /\ ShutHaveHandles'
    BY <1>13 DEF CopyObject
<1>15. ASSUME NEW o \in Places, NEW p \in Places, MoveObject(o, p)
       PROVE  Unfinished' /\ ShutHaveHandles'
    BY <1>15 DEF MoveObject, Moved, Takes
<1>16. ASSUME NEW o \in Places, NEW p \in Places, AssignCopy(o, p)
       PROVE  Unfinished' /\ ShutHaveHandles'
    BY <1>16 DEF AssignCopy
<1>17. ASSUME NEW o \in Places, NEW p \in Places, AssignMove(o, p)
       PROVE  Unfinished' /\ ShutHaveHandles'
    BY <1>17 DEF AssignMove, Moved, Takes
<1> QED
    BY <1>2, <1>3, <1>4, <1>5, <1>6, <1>7, <1>8, <1>9, <1>10, <1>11, <1>12, <1>13,
       <1>15, <1>16, <1>17 DEF HandlesNext

Owners == [Places -> Values \cup {Null}]
Table == [Values -> Opened \cup {Unused}]

\* What a call does to the owners keeps them in order: an object gets a new
\* handle, closes its own, passes it on, lends it or takes one that was lent.
LEMMA Gained ==
    ASSUME NEW own \in Owners, NEW op \in Table, NEW le \in SUBSET Values, Owned(own, op, le),
           NEW o \in Places, own[o] = Null, NEW h \in Values, op[h] = Unused, NEW d \in Opened
    PROVE  Owned([own EXCEPT ![o] = h], [op EXCEPT ![h] = d], le)
BY Marks DEF Owners, Table, Owned

LEMMA Closed ==
    ASSUME NEW own \in Owners, NEW op \in Table, NEW le \in SUBSET Values, Owned(own, op, le),
           NEW o \in Places, own[o] \in Values
    PROVE  Owned([own EXCEPT ![o] = Null], [op EXCEPT ![own[o]] = Unused], le)
BY Marks DEF Owners, Table, Owned

LEMMA Passed ==
    ASSUME NEW own \in Owners, NEW op \in Table, NEW le \in SUBSET Values, Owned(own, op, le),
           NEW o \in Places, NEW p \in Places, own[o] = Null
    PROVE  Owned([own EXCEPT ![o] = own[p], ![p] = Null], op, le)
BY Marks DEF Owners, Table, Owned

LEMMA LentOut ==
    ASSUME NEW own \in Owners, NEW op \in Table, NEW le \in SUBSET Values, Owned(own, op, le),
           NEW o \in Places, own[o] \in Values
    PROVE  Owned([own EXCEPT ![o] = Null], op, le \cup {own[o]})
BY Marks DEF Owners, Table, Owned

LEMMA Borrowed ==
    ASSUME NEW own \in Owners, NEW op \in Table, NEW le \in SUBSET Values, Owned(own, op, le),
           NEW o \in Places, own[o] = Null, NEW h \in le
    PROVE  Owned([own EXCEPT ![o] = h], op, le \ {h})
BY Marks DEF Owners, Table, Owned

LEMMA OwnsType ==
    ASSUME HandleTypes
    PROVE  /\ owns \in Owners /\ open \in Table /\ lent \in SUBSET Values
           /\ \A o \in Places : OwnsHandle(o) => owns[o] = hd[o] /\ hd[o] \in Values
           /\ \A o \in Places : ~OwnsHandle(o) => owns[o] = Null
BY Marks DEF HandleTypes, Owners, Table, owns, OwnsHandle

\* An object goes away, or is about to have another handle.
LEMMA GoneOwner ==
    ASSUME HandlesInv, ~harmed, NEW o \in Places, ~Harms(o)
    PROVE  Owned([owns EXCEPT ![o] = Null], CloseOf(o), lent)
<1>1. HandleTypes /\ Owned(owns, open, lent)
    BY DEF HandlesInv
<1>2. CASE OwnsHandle(o)
    BY <1>1, <1>2, OwnsType, Closed, ClosedIsOwn
<1>3. CASE ~OwnsHandle(o)
    <2>1. [owns EXCEPT ![o] = Null] = owns
        BY <1>1, <1>3, OwnsType DEF Owners
    <2> QED
        BY <2>1, <1>1, <1>3, ClosedIsOwn
<1> QED
    BY <1>2, <1>3

LEMMA OwnedStep ==
    ASSUME HandlesInv, HandlesNext, ~harmed, ~harmed'
    PROVE  Owned(owns, open, lent)'
<1>1. HandleTypes /\ Unfinished /\ ShutHaveHandles /\ Owned(owns, open, lent)
    BY DEF HandlesInv
<1>a. HandleTypes' /\ Unfinished' /\ ShutHaveHandles'
    BY HandleTypesStep, UnfinishedStep, <1>1
<1>b. owns \in Owners /\ open \in Table /\ lent \in SUBSET Values /\ owns' \in Owners
    BY <1>1, <1>a, OwnsType DEF HandleTypes, Owners, owns, OwnsHandle
<1>c. ASSUME NEW o \in Places, Vacant(o)
      PROVE  o \notin shut /\ phase[o] = "whole" /\ owns[o] = Null
    BY <1>1, <1>c, Marks DEF Vacant, HandleTypes, ShutHaveHandles, Unfinished, owns, OwnsHandle
<1> USE Marks DEF Live, Vacant, HasHandle
<1>2. ASSUME NEW o \in Places, EmptyObject(o) PROVE Owned(owns, open, lent)'
    <2>1. owns' = owns
        BY <1>1, <1>2 DEF EmptyObject, HandleTypes, owns, OwnsHandle
    <2> QED
        BY <2>1, <1>1, <1>2 DEF EmptyObject
<1>3. ASSUME NEW o \in Places, NEW then \in {"whole", "attaches"}, OpenHandle(o, then)
      PROVE  Owned(owns, open, lent)'
    <2>1. PICK h \in Values, d \in Opened :
            /\ open[h] = Unused /\ open' = [open EXCEPT ![h] = d]
            /\ hd' = [hd EXCEPT ![o] = h]
        BY <1>3 DEF OpenHandle
    <2>2. owns' = [owns EXCEPT ![o] = h] /\ owns[o] = Null
        BY <2>1, <1>1, <1>3, ZenonT(60) DEF OpenHandle, HandleTypes, ShutHaveHandles, owns, OwnsHandle
    <2> QED
        BY <2>1, <2>2, <1>1, <1>3, <1>b, Gained DEF OpenHandle
<1>4. ASSUME NEW o \in Places, OpenAsync(o) PROVE Owned(owns, open, lent)'
    BY <1>3, <1>4 DEF OpenAsync
<1>5. ASSUME NEW o \in Places, Attach(o) PROVE Owned(owns, open, lent)'
    <2>1. CASE phase' = [phase EXCEPT ![o] = "whole"] /\ open' = open
        <3>1. owns' = owns
            BY <2>1, <1>1, <1>5 DEF Attach, HandleTypes, owns, OwnsHandle
        <3> QED
            BY <3>1, <2>1, <1>1, <1>5 DEF Attach
    <2>2. CASE phase' = [phase EXCEPT ![o] = "unwinds"] /\ open' = CloseOf(o)
        <3>1. owns' = [owns EXCEPT ![o] = Null]
            BY <2>2, <1>1, <1>5 DEF Attach, HandleTypes, owns, OwnsHandle
        <3>2. ~Harms(o)
            BY <1>1, <1>5 DEF Attach, Harms, Unfinished
        <3> QED
            BY <3>1, <3>2, <2>2, <1>5, GoneOwner DEF Attach
    <2> QED
        BY <2>1, <2>2, <1>5 DEF Attach
<1>6. ASSUME NEW o \in Places, UnwindAsync(o) PROVE Owned(owns, open, lent)'
    <2>1. owns' = [owns EXCEPT ![o] = Null]
        BY <1>1, <1>6 DEF UnwindAsync, HandleTypes, owns, OwnsHandle
    <2> QED
        BY <2>1, <1>6, GoneOwner DEF UnwindAsync
<1>7. ASSUME NEW o \in Places, CloseRight(o) PROVE Owned(owns, open, lent)'
    <2>1. owns' = [owns EXCEPT ![o] = Null]
        BY <1>1, <1>7 DEF CloseRight, HandleTypes, owns, OwnsHandle
    <2>2. ~Harms(o)
        BY <1>1, <1>7 DEF CloseRight, Harms, ShutHaveHandles
    <2> QED
        BY <2>1, <2>2, <1>7, GoneOwner DEF CloseRight
<1>8. ASSUME NEW o \in Places, CloseFile(o) PROVE Owned(owns, open, lent)'
    <2>1. ~Harms(o)
        BY <1>8 DEF CloseFile
    <2>2. owns' = [owns EXCEPT ![o] = Null]
        <3>1. CASE open[hd[o]] # Unused
            BY <3>1, <1>1, <1>8 DEF CloseFile, HandleTypes, owns, OwnsHandle
        <3>2. CASE open[hd[o]] = Unused
            BY <3>2, <1>1, <1>8 DEF CloseFile, HandleTypes, Owned, owns, OwnsHandle
        <3> QED
            BY <3>1, <3>2
    <2> QED
        BY <2>1, <2>2, <1>8, GoneOwner DEF CloseFile
<1>9. ASSUME NEW o \in Places, DetachHandle(o) PROVE Owned(owns, open, lent)'
    <2>1. owns' = [owns EXCEPT ![o] = Null]
        BY <1>1, <1>9 DEF DetachHandle, HandleTypes, owns, OwnsHandle
    <2>2. CASE o \in shut
        <3>1. owns' = owns
            BY <2>1, <2>2, <1>1, <1>b, OwnsType DEF Owners, OwnsHandle
        <3> QED
            BY <3>1, <2>2, <1>1, <1>9 DEF DetachHandle
    <2>3. CASE o \notin shut
        <3>1. OwnsHandle(o) /\ owns[o] = hd[o]
            BY <2>3, <1>1, <1>9 DEF DetachHandle, HandleTypes, OwnsHandle, owns
        <3> QED
            BY <3>1, <2>1, <2>3, <1>1, <1>9, <1>b, LentOut DEF DetachHandle, OwnsHandle
    <2> QED
        BY <2>2, <2>3
<1>10. ASSUME NEW o \in Places, DestroyObject(o) PROVE Owned(owns, open, lent)'
    <2>1. owns' = [owns EXCEPT ![o] = Null]
        BY <1>1, <1>10 DEF DestroyObject, HandleTypes, owns, OwnsHandle
    <2> QED
        BY <2>1, <1>10, GoneOwner DEF DestroyObject
<1>11. ASSUME NEW o \in Places, NEW h \in Values, AdoptHandle(o, h)
       PROVE  Owned(owns, open, lent)'
    <2>1. owns' = [owns EXCEPT ![o] = h] /\ owns[o] = Null
        BY <1>1, <1>11 DEF AdoptHandle, HandleTypes, ShutHaveHandles, Unfinished, owns, OwnsHandle
    <2> QED
        BY <2>1, <1>1, <1>11, <1>b, Borrowed DEF AdoptHandle
<1>12. ASSUME NEW o \in Places, NEW p \in Places, OpenPipe(o, p)
       PROVE  Owned(owns, open, lent)'
    <2>1. PICK h \in Values, g \in Values, d \in Opened, e \in Opened :
            /\ open[h] = Unused /\ open[g] = Unused /\ h # g
            /\ open' = [open EXCEPT ![h] = d, ![g] = e]
            /\ hd' = [hd EXCEPT ![o] = h, ![p] = g]
        BY <1>12 DEF OpenPipe
    <2> DEFINE own == [owns EXCEPT ![o] = h]
               op == [open EXCEPT ![h] = d]
    <2>2. owns' = [own EXCEPT ![p] = g] /\ owns[o] = Null /\ own[p] = Null
        BY <2>1, <1>1, <1>12, <1>c DEF OpenPipe, HandleTypes, owns, OwnsHandle
    <2>3. Owned(own, op, lent)
        BY <2>1, <2>2, <1>1, <1>b, Gained
    <2>4. own \in Owners /\ op \in Table /\ op[g] = Unused /\ open' = [op EXCEPT ![g] = e]
        BY <2>1, <1>b DEF Owners, Table
    <2> HIDE DEF own, op
    <2>5. Owned([own EXCEPT ![p] = g], [op EXCEPT ![g] = e], lent)
        BY <2>2, <2>3, <2>4, <1>b, Gained
    <2> QED
        BY <2>2, <2>4, <2>5, <1>12 DEF OpenPipe
<1>13. ASSUME NEW o \in Places, NEW p \in Places, CopyObject(o, p)
       PROVE  Owned(owns, open, lent)'
    <2>1. PICK h \in Values :
            /\ open[h] = Unused /\ open' = [open EXCEPT ![h] = open[hd[p]]]
            /\ hd' = [hd EXCEPT ![o] = h]
        BY <1>13 DEF CopyObject
    <2>2. owns' = [owns EXCEPT ![o] = h] /\ owns[o] = Null
        BY <2>1, <1>1, <1>13, <1>c DEF CopyObject, HandleTypes, owns, OwnsHandle
    <2>3. open[hd[p]] \in Opened
        BY <1>1, <1>13 DEF CopyObject, HandleTypes
    <2> QED
        BY <2>1, <2>2, <2>3, <1>1, <1>13, <1>b, Gained DEF CopyObject
<1>14. ASSUME NEW o \in Places, NEW p \in Places, o # p, Live(p), phase[o] = "whole",
              Moved(o, p), UNCHANGED phase
       PROVE  owns' = [[owns EXCEPT ![o] = Null] EXCEPT ![o] = owns[p], ![p] = Null]
    BY <1>1, <1>14 DEF Moved, HandleTypes, ShutHaveHandles, owns, OwnsHandle
<1>15. ASSUME NEW o \in Places, NEW p \in Places, MoveObject(o, p)
       PROVE  Owned(owns, open, lent)'
    <2>1. o # p /\ phase[o] = "whole" /\ owns[o] = Null
        BY <1>1, <1>15 DEF MoveObject, HandleTypes, Unfinished, owns, OwnsHandle
    <2>2. [owns EXCEPT ![o] = Null] = owns
        BY <2>1, <1>b DEF Owners
    <2> QED
        BY <2>1, <2>2, <1>14, <1>15, <1>1, <1>b, Passed DEF MoveObject
<1>16. ASSUME NEW o \in Places, NEW p \in Places, AssignCopy(o, p)
       PROVE  Owned(owns, open, lent)'
    <2>1. PICK h \in Values :
            /\ open[h] = Unused
            /\ open' = [g \in Values |-> IF g = hd[o] THEN Unused
                                        ELSE IF g = h THEN open[hd[p]] ELSE open[g]]
            /\ hd' = [hd EXCEPT ![o] = h]
            /\ shut' = IF h = hd[o] THEN shut ELSE shut \ {o}
        BY <1>16 DEF AssignCopy
    <2>2. open[hd[p]] \in Opened /\ ~Harms(o)
        BY <1>1, <1>16 DEF AssignCopy, HandleTypes
    <2>3. CASE h = hd[o]
        <3>1. ~OwnsHandle(o)
            BY <2>1, <2>3, <1>1, OwnsType DEF Owned
        <3>2. owns' = owns /\ open' = open
            BY <3>1, <2>1, <2>3, <1>1, <1>16 DEF AssignCopy, HandleTypes, owns, OwnsHandle
        <3> QED
            BY <3>2, <1>1, <1>16 DEF AssignCopy
    <2>4. CASE h # hd[o]
        <3> DEFINE own == [owns EXCEPT ![o] = Null]
                   op == CloseOf(o)
        <3>1. owns' = [own EXCEPT ![o] = h] /\ own[o] = Null /\ own \in Owners
            BY <2>1, <2>4, <1>1, <1>16, <1>b DEF AssignCopy, HandleTypes, Owners, owns, OwnsHandle
        <3>2. op \in Table /\ op[h] = Unused /\ open' = [op EXCEPT ![h] = open[hd[p]]]
            BY <2>1, <2>4, <1>1, <1>b, ZenonT(60) DEF Table, CloseOf, HandleTypes
        <3>3. Owned(own, op, lent)
            BY <2>2, GoneOwner
        <3> HIDE DEF own, op
        <3> QED
            BY <3>1, <3>2, <3>3, <2>2, <1>16, <1>b, Gained DEF AssignCopy
    <2> QED
        BY <2>3, <2>4
<1>17. ASSUME NEW o \in Places, NEW p \in Places, AssignMove(o, p)
       PROVE  Owned(owns, open, lent)'
    <2> DEFINE own == [owns EXCEPT ![o] = Null]
    <2>1. o # p /\ Live(p) /\ phase[o] = "whole" /\ Moved(o, p) /\ UNCHANGED <<phase, lent>>
        BY <1>17 DEF AssignMove
    <2>2. owns' = [own EXCEPT ![o] = own[p], ![p] = Null]
        BY <2>1, <1>14, <1>b DEF Owners
    <2>3. Owned(own, CloseOf(o), lent)
        BY <1>17, GoneOwner DEF AssignMove
    <2>4. own \in Owners /\ own[o] = Null /\ CloseOf(o) \in Table
        BY <1>b DEF Owners, Table, CloseOf
    <2>5. open' = CloseOf(o)
        BY <1>17 DEF AssignMove
    <2> HIDE DEF own
    <2> QED
        BY <2>1, <2>2, <2>3, <2>4, <2>5, <1>b, Passed
<1> QED
    BY <1>2, <1>3, <1>4, <1>5, <1>6, <1>7, <1>8, <1>9, <1>10, <1>11, <1>12, <1>13,
       <1>15, <1>16, <1>17 DEF HandlesNext
LEMMA HandlesInvStep == HandlesInv /\ [HandlesNext]_wVars => HandlesInv'
<1>1. ASSUME HandlesInv, HandlesNext PROVE HandlesInv'
    <2>1. ~harmed
        BY <1>1, ZenonT(60) DEF HandlesNext, EmptyObject, OpenHandle, OpenAsync, Attach, UnwindAsync,
            CloseRight, CloseFile, DetachHandle, DestroyObject, AdoptHandle, OpenPipe,
            CopyObject, MoveObject, AssignCopy, AssignMove, Live, Vacant, HasHandle
    <2>2. HandleTypes' /\ Unfinished' /\ ShutHaveHandles'
        BY <1>1, HandleTypesStep, UnfinishedStep DEF HandlesInv
    <2>3. ~harmed' => Owned(owns, open, lent)'
        BY <1>1, <2>1, OwnedStep
    <2> QED
        BY <2>2, <2>3 DEF HandlesInv
<1>2. ASSUME HandlesInv, UNCHANGED wVars PROVE HandlesInv'
    BY <1>2 DEF HandlesInv, HandleTypes, Unfinished, ShutHaveHandles, wVars, owns, OwnsHandle
<1> QED
    BY <1>1, <1>2

LEMMA HandlesInvOwned == HandlesInv => HandlesAreOwned
<1> SUFFICES ASSUME HandlesInv PROVE HandlesAreOwned
    OBVIOUS
<1>1. HandleTypes /\ ShutHaveHandles
    BY DEF HandlesInv
<1>2. ASSUME ~harmed
      PROVE  /\ \A h \in Values :
                   open[h] # Unused <=> h \in lent \/ \E o \in Places : OwnsHandle(o) /\ hd[o] = h
             /\ \A o, p \in Places : OwnsHandle(o) /\ OwnsHandle(p) /\ hd[o] = hd[p] => o = p
             /\ \A o \in Places : OwnsHandle(o) => hd[o] \notin lent
    <2>1. Owned(owns, open, lent)
        BY <1>2 DEF HandlesInv
    <2>2. \A o \in Places : OwnsHandle(o) => owns[o] = hd[o] /\ hd[o] \in Values
        BY <1>1, OwnsType
    <2>3. \A o \in Places : owns[o] \in Values => OwnsHandle(o)
        BY Marks DEF owns
    <2> QED
        BY <2>1, <2>2, <2>3 DEF Owned
<1> QED
    BY <1>1, <1>2 DEF HandlesAreOwned, ShutHaveHandles

\* A program that uses another device leaves the handles as they are.
LEMMA HandlesPart == Spec => HandlesSpec
<1>1. Init => HandlesInit
    BY DEF Init
<1>2. [Next]_vars => [HandlesNext]_wVars
    BY DEF Next, vars, wVars
<1> QED
    BY <1>1, <1>2, PTL DEF Spec, HandlesSpec

\* What is open has one owner, and what an object owns is open, whatever the
\* classes and the calls, until a number is closed again that is another's.
THEOREM HandlesOwned == Spec => []HandlesAreOwned
<1>1. HandlesSpec => []HandlesInv
    BY HandlesInitInv, HandlesInvStep, PTL DEF HandlesSpec
<1> QED
    BY <1>1, HandlesInvOwned, HandlesPart, PTL

-------------------------------------------------------------------------------
(* Handles implement FileRefs: a call changes what the objects it is made on  *)
(* refer to, and no others.                                                   *)

\* The refinement mapping.
refersTo == [o \in Places |->
                IF phase[o] = "unwinds" THEN NoObject
                ELSE IF o \in shut THEN Null
                ELSE IF hd[o] \in Values THEN open[hd[o]] ELSE hd[o]]
lentNow == {open[h] : h \in lent}

Calm == HandlesInv /\ HandlesInv' /\ ~harmed /\ ~harmed'

LEMMA CalmParts ==
    ASSUME Calm
    PROVE  /\ HandleTypes /\ Unfinished /\ ShutHaveHandles
           /\ HandleTypes' /\ Unfinished' /\ ShutHaveHandles'
           /\ Owned(owns, open, lent)
BY DEF Calm, HandlesInv

\* What is in order before a step, object by object.
LEMMA OwnersNow ==
    ASSUME Calm
    PROVE  /\ \A o \in Places : OwnsHandle(o) =>
                 /\ hd[o] \in Values /\ hd[o] \notin lent
                 /\ open[hd[o]] \in Opened /\ refersTo[o] = open[hd[o]]
           /\ \A o, p \in Places : OwnsHandle(o) /\ OwnsHandle(p) /\ hd[o] = hd[p] => o = p
           /\ \A h \in lent : open[h] \in Opened
<1>1. HandleTypes /\ Owned(owns, open, lent)
    BY CalmParts
<1>2. \A o \in Places : OwnsHandle(o) => owns[o] = hd[o] /\ hd[o] \in Values
    BY <1>1, OwnsType
<1>3. \A o \in Places : OwnsHandle(o) => open[hd[o]] # Unused /\ hd[o] \notin lent
    BY <1>1, <1>2 DEF Owned
<1>4. \A o \in Places : OwnsHandle(o) => refersTo[o] = open[hd[o]]
    BY <1>2 DEF refersTo, OwnsHandle
<1>5. \A o, p \in Places : OwnsHandle(o) /\ OwnsHandle(p) /\ hd[o] = hd[p] => o = p
    BY <1>1, <1>2 DEF Owned
<1>6. \A h \in lent : open[h] # Unused
    BY <1>1 DEF Owned
<1> QED
    BY <1>1, <1>2, <1>3, <1>4, <1>5, <1>6 DEF HandleTypes

LEMMA Unowned ==
    ASSUME Calm, NEW o \in Places, ~OwnsHandle(o)
    PROVE  refersTo[o] = IF hd[o] = NoObject \/ phase[o] = "unwinds" THEN NoObject ELSE Null
BY CalmParts, Marks, ZenonT(60) DEF refersTo, OwnsHandle, HandleTypes, ShutHaveHandles, Unfinished

\* A description that is not open is referred to by nobody.
LEMMA FreshIsNew ==
    ASSUME HandleTypes, NEW d \in Opened, Fresh(d) PROVE ~HandleRefs!IsOpen(d)
BY Marks DEF HandleTypes, Fresh, HandleRefs!IsOpen

LEMMA OneChange ==
    ASSUME NEW o \in Places, NEW x, refersTo'[o] = x,
           \A q \in Places : q # o => refersTo'[q] = refersTo[q]
    PROVE  refersTo' = [refersTo EXCEPT ![o] = x]
BY DEF refersTo

LEMMA TwoChanges ==
    ASSUME NEW o \in Places, NEW p \in Places, NEW x, NEW y, o # p,
           refersTo'[o] = x, refersTo'[p] = y,
           \A q \in Places : q \notin {o, p} => refersTo'[q] = refersTo[q]
    PROVE  refersTo' = [refersTo EXCEPT ![o] = x, ![p] = y]
<1>1. refersTo = [q \in Places |-> refersTo[q]]
    BY DEF refersTo
<1>2. refersTo' = [q \in Places |-> refersTo'[q]]
    BY DEF refersTo
<1>3. refersTo' = [q \in Places |-> IF q = p THEN y ELSE IF q = o THEN x ELSE refersTo[q]]
    BY <1>2
<1> QED
    BY <1>1, <1>3

LEMMA NoChange ==
    ASSUME \A q \in Places : refersTo'[q] = refersTo[q], lentNow' = lentNow, harmed' = harmed
    PROVE  UNCHANGED HandleRefs!rVars
<1>1. refersTo' = refersTo
    BY DEF refersTo
<1> QED
    BY <1>1 DEF HandleRefs!rVars, refersTo, lentNow

\* An object keeps what it refers to while its own handle stays open.
LEMMA OthersKeep ==
    ASSUME Calm, NEW q \in Places, hd'[q] = hd[q], q \in shut' <=> q \in shut,
           phase'[q] = "unwinds" <=> phase[q] = "unwinds",
           OwnsHandle(q) => open'[hd[q]] = open[hd[q]]
    PROVE  refersTo'[q] = refersTo[q]
BY DEF refersTo, OwnsHandle

LEMMA LentKeep ==
    ASSUME lent' = lent, \A h \in lent : open'[h] = open[h] PROVE lentNow' = lentNow
BY DEF lentNow

\* A new handle, and one that is closed, leave those of others as they are.
LEMMA OthersAfterNew ==
    ASSUME Calm, NEW h \in Values, open[h] = Unused, NEW d, open' = [open EXCEPT ![h] = d]
    PROVE  /\ \A q \in Places : OwnsHandle(q) => open'[hd[q]] = open[hd[q]]
           /\ \A g \in lent : open'[g] = open[g]
<1>1. \A g \in Values : open[g] \in Opened => open'[g] = open[g]
    BY CalmParts, Marks DEF HandleTypes
<1>2. lent \subseteq Values
    BY CalmParts DEF HandleTypes
<1> QED
    BY <1>1, <1>2, OwnersNow

LEMMA OthersAfterClose ==
    ASSUME Calm, NEW o \in Places, ~Harms(o), open' = CloseOf(o)
    PROVE  /\ \A q \in Places : q # o /\ OwnsHandle(q) => open'[hd[q]] = open[hd[q]]
           /\ \A g \in lent : open'[g] = open[g]
<1>1. CASE OwnsHandle(o)
    <2>1. open' = [open EXCEPT ![hd[o]] = Unused]
        BY <1>1, ClosedIsOwn DEF Calm
    <2> QED
        BY <1>1, <2>1, CalmParts, OwnersNow DEF HandleTypes
<1>2. CASE ~OwnsHandle(o)
    BY <1>2, ClosedIsOwn DEF Calm
<1> QED
    BY <1>1, <1>2

LEMMA EmptyMaps ==
    ASSUME Calm, NEW o \in Places, EmptyObject(o) PROVE HandleRefs!RefsNext
<1> USE CalmParts, Marks DEF HandleTypes, Live, Vacant
<1>1. refersTo[o] = NoObject /\ refersTo'[o] = Null
    BY DEF EmptyObject, refersTo, Unfinished, ShutHaveHandles
<1>2. \A q \in Places : q # o => refersTo'[q] = refersTo[q]
    BY DEF EmptyObject, refersTo
<1>3. refersTo' = [refersTo EXCEPT ![o] = Null] /\ lentNow' = lentNow
    BY <1>1, <1>2, OneChange DEF EmptyObject, lentNow
<1>4. HandleRefs!Default(o)
    BY <1>1, <1>3 DEF Calm, HandleRefs!Default, HandleRefs!Sound, refersTo, lentNow
<1> QED
    BY <1>4 DEF HandleRefs!RefsNext

LEMMA OpenMaps ==
    ASSUME Calm, NEW o \in Places, NEW then \in {"whole", "attaches"}, OpenHandle(o, then)
    PROVE  HandleRefs!RefsNext
<1> USE CalmParts, Marks DEF HandleTypes, Vacant
<1>1. PICK h \in Values, d \in Opened :
        /\ open[h] = Unused /\ Fresh(d) /\ open' = [open EXCEPT ![h] = d]
        /\ hd' = [hd EXCEPT ![o] = h]
    BY DEF OpenHandle
<1>2. o \notin shut /\ phase[o] = "whole" /\ ~OwnsHandle(o)
    BY DEF OpenHandle, ShutHaveHandles, Unfinished, OwnsHandle
<1>3. refersTo[o] = NoObject /\ refersTo'[o] = d
    BY <1>1, <1>2 DEF OpenHandle, refersTo
<1>4. ASSUME NEW q \in Places, q # o PROVE refersTo'[q] = refersTo[q]
    <2>1. hd'[q] = hd[q] /\ phase'[q] = phase[q] /\ shut' = shut
        BY <1>1, <1>4 DEF OpenHandle
    <2> QED
        BY <1>1, <2>1, OthersAfterNew, OthersKeep
<1>5. refersTo' = [refersTo EXCEPT ![o] = d] /\ lentNow' = lentNow
    BY <1>1, <1>3, <1>4, OneChange, OthersAfterNew, LentKeep, ZenonT(60) DEF OpenHandle
<1>6. ~HandleRefs!IsOpen(d)
    BY <1>1, FreshIsNew
<1>7. HandleRefs!OpenNew(o, d)
    BY <1>3, <1>5, <1>6 DEF Calm, HandleRefs!OpenNew, HandleRefs!Sound, refersTo, lentNow
<1> QED
    BY <1>7 DEF HandleRefs!RefsNext

\* An object ends when it is not there any more, or never was to be.
LEMMA EndMaps ==
    ASSUME Calm, NEW o \in Places, refersTo'[o] = NoObject,
           \A q \in Places : q # o => refersTo'[q] = refersTo[q], lentNow' = lentNow
    PROVE  HandleRefs!RefsNext
<1>1. refersTo' = [refersTo EXCEPT ![o] = NoObject]
    BY OneChange
<1>2. HandleRefs!End(o)
    BY <1>1 DEF Calm, HandleRefs!End, HandleRefs!Sound, refersTo, lentNow
<1> QED
    BY <1>2 DEF HandleRefs!RefsNext

LEMMA AttachMaps ==
    ASSUME Calm, NEW o \in Places, Attach(o)
    PROVE  HandleRefs!RefsNext \/ UNCHANGED HandleRefs!rVars
<1> USE CalmParts, Marks DEF HandleTypes
<1>1. CASE phase' = [phase EXCEPT ![o] = "whole"] /\ open' = open
    BY <1>1, NoChange DEF Calm, Attach, refersTo, lentNow
<1>2. CASE phase' = [phase EXCEPT ![o] = "unwinds"] /\ open' = CloseOf(o)
    <2>1. ~Harms(o)
        BY DEF Attach, Harms, Unfinished
    <2>2. refersTo'[o] = NoObject
        BY <1>2 DEF refersTo
    <2>3. \A q \in Places : q # o => refersTo'[q] = refersTo[q]
        BY <1>2, <2>1, OthersAfterClose, OthersKeep DEF Attach
    <2>4. lentNow' = lentNow
        BY <1>2, <2>1, OthersAfterClose, LentKeep DEF Attach
    <2> QED
        BY <2>2, <2>3, <2>4, EndMaps
<1> QED
    BY <1>1, <1>2 DEF Attach

LEMMA UnwindMaps ==
    ASSUME Calm, NEW o \in Places, UnwindAsync(o) PROVE UNCHANGED HandleRefs!rVars
<1> USE CalmParts, Marks DEF HandleTypes
<1>1. ~Harms(o) /\ ~OwnsHandle(o)
    BY DEF Calm, UnwindAsync, OwnsHandle
<1>2. open' = open
    BY <1>1, ClosedIsOwn DEF Calm, UnwindAsync
<1>3. o \notin shut
    BY DEF UnwindAsync, Unfinished
<1>4. \A q \in Places : refersTo'[q] = refersTo[q]
    BY <1>2, <1>3 DEF UnwindAsync, refersTo
<1> QED
    BY <1>2, <1>4, NoChange DEF Calm, UnwindAsync, lentNow

LEMMA DestroyMaps ==
    ASSUME Calm, NEW o \in Places, DestroyObject(o) PROVE HandleRefs!RefsNext
<1> USE CalmParts, Marks DEF HandleTypes, Live
<1>1. ~Harms(o)
    BY DEF Calm, DestroyObject
<1>2. refersTo'[o] = NoObject
    BY DEF DestroyObject, refersTo
<1>3. \A q \in Places : q # o => refersTo'[q] = refersTo[q]
    BY <1>1, OthersAfterClose, OthersKeep DEF DestroyObject
<1>4. lentNow' = lentNow
    BY <1>1, OthersAfterClose, LentKeep DEF DestroyObject
<1> QED
    BY <1>2, <1>3, <1>4, EndMaps

\* An object lets go of its handle, which is closed.
LEMMA CloseMaps ==
    ASSUME Calm, NEW o \in Places, OwnsHandle(o), refersTo'[o] = Null,
           \A q \in Places : q # o => refersTo'[q] = refersTo[q], lentNow' = lentNow
    PROVE  HandleRefs!RefsNext
<1>1. refersTo' = [refersTo EXCEPT ![o] = Null]
    BY OneChange
<1>2. refersTo[o] \in Opened
    BY OwnersNow
<1>3. HandleRefs!Close(o)
    BY <1>1, <1>2 DEF Calm, HandleRefs!Close, HandleRefs!Sound, refersTo, lentNow
<1> QED
    BY <1>3 DEF HandleRefs!RefsNext

LEMMA CloseRightMaps ==
    ASSUME Calm, NEW o \in Places, CloseRight(o) PROVE HandleRefs!RefsNext
<1> USE CalmParts, Marks DEF HandleTypes, HasHandle, Live
<1>1. ~Harms(o) /\ OwnsHandle(o) /\ o \notin shut
    BY ZenonT(60) DEF CloseRight, Harms, ShutHaveHandles, OwnsHandle
<1>2. refersTo'[o] = Null
    BY <1>1 DEF CloseRight, refersTo
<1>3. \A q \in Places : q # o => refersTo'[q] = refersTo[q]
    BY <1>1, OthersAfterClose, OthersKeep DEF CloseRight
<1>4. lentNow' = lentNow
    BY <1>1, OthersAfterClose, LentKeep DEF CloseRight
<1> QED
    BY <1>1, <1>2, <1>3, <1>4, CloseMaps

LEMMA CloseFileMaps ==
    ASSUME Calm, NEW o \in Places, CloseFile(o)
    PROVE  HandleRefs!RefsNext \/ UNCHANGED HandleRefs!rVars
<1> USE CalmParts, Marks DEF HandleTypes, HasHandle, Live
<1>1. ~Harms(o) /\ hd[o] \in Values /\ phase[o] = "whole"
    BY DEF Calm, CloseFile
<1>2. refersTo'[o] = Null
    BY <1>1 DEF CloseFile, refersTo
<1>3. ASSUME NEW q \in Places, q # o PROVE refersTo'[q] = refersTo[q]
    <2>1. hd'[q] = hd[q] /\ phase'[q] = phase[q] /\ (q \in shut' <=> q \in shut)
        BY <1>3 DEF CloseFile
    <2> QED
        BY <1>1, <1>3, <2>1, OthersAfterClose, OthersKeep DEF CloseFile
<1>4. lentNow' = lentNow
    BY <1>1, OthersAfterClose, LentKeep DEF CloseFile
<1>5. CASE o \notin shut
    BY <1>1, <1>2, <1>3, <1>4, <1>5, CloseMaps DEF OwnsHandle
<1>6. CASE o \in shut
    <2>1. refersTo[o] = Null
        BY <1>1, <1>6 DEF refersTo
    <2> QED
        BY <1>2, <1>3, <1>4, <2>1, NoChange DEF Calm
<1> QED
    BY <1>5, <1>6

LEMMA DetachMaps ==
    ASSUME Calm, NEW o \in Places, DetachHandle(o)
    PROVE  HandleRefs!RefsNext \/ UNCHANGED HandleRefs!rVars
<1> USE CalmParts, Marks DEF HandleTypes, HasHandle, Live
<1>1. refersTo'[o] = Null
    BY DEF DetachHandle, refersTo
<1>2. \A q \in Places : q # o => refersTo'[q] = refersTo[q]
    BY DEF DetachHandle, refersTo
<1>3. CASE o \in shut
    <2>1. refersTo[o] = Null /\ lentNow' = lentNow
        BY <1>3 DEF DetachHandle, refersTo, lentNow
    <2> QED
        BY <1>1, <1>2, <2>1, NoChange DEF Calm
<1>4. CASE o \notin shut
    <2>1. OwnsHandle(o)
        BY <1>4 DEF DetachHandle, OwnsHandle
    <2>2. refersTo[o] = open[hd[o]] /\ refersTo[o] \in Opened
        BY <2>1, OwnersNow
    <2>3. lentNow' = lentNow \cup {refersTo[o]}
        BY <1>4, <2>2 DEF DetachHandle, lentNow
    <2>4. refersTo' = [refersTo EXCEPT ![o] = Null]
        BY <1>1, <1>2, OneChange
    <2>5. HandleRefs!Release(o)
        BY <2>2, <2>3, <2>4 DEF Calm, HandleRefs!Release, HandleRefs!Sound, refersTo, lentNow
    <2> QED
        BY <2>5 DEF HandleRefs!RefsNext
<1> QED
    BY <1>3, <1>4

LEMMA AdoptMaps ==
    ASSUME Calm, NEW o \in Places, NEW h \in Values, AdoptHandle(o, h)
    PROVE  HandleRefs!RefsNext
<1> USE CalmParts, Marks DEF HandleTypes, Vacant
<1>1. o \notin shut /\ phase[o] = "whole"
    BY DEF AdoptHandle, ShutHaveHandles, Unfinished
<1>2. refersTo[o] = NoObject /\ refersTo'[o] = open[h]
    BY <1>1 DEF AdoptHandle, refersTo
<1>3. \A q \in Places : q # o => refersTo'[q] = refersTo[q]
    BY DEF AdoptHandle, refersTo
<1>4. refersTo' = [refersTo EXCEPT ![o] = open[h]]
    BY <1>2, <1>3, OneChange
<1>5. open[h] \in lentNow /\ open[h] \in Opened
    BY OwnersNow DEF AdoptHandle, lentNow
<1>6. lentNow' \in {lentNow, lentNow \ {open[h]}}
    <2>1. lentNow' = {open[g] : g \in lent \ {h}}
        BY DEF AdoptHandle, lentNow
    <2>2. CASE \E g \in lent \ {h} : open[g] = open[h]
        BY <2>1, <2>2 DEF lentNow
    <2>3. CASE ~\E g \in lent \ {h} : open[g] = open[h]
        <3>1. lentNow' = lentNow \ {open[h]}
            BY <2>1, <2>3, SMTT(30) DEF lentNow
        <3> QED
            BY <3>1
    <2> QED
        BY <2>2, <2>3
<1>7. PICK d \in Opened : d = open[h]
    BY <1>5
<1>8. HandleRefs!Adopt(o, d)
    BY <1>2, <1>4, <1>5, <1>6, <1>7
    DEF Calm, HandleRefs!Adopt, HandleRefs!Sound, refersTo, lentNow
<1> QED
    BY <1>8 DEF HandleRefs!RefsNext

LEMMA PipeMaps ==
    ASSUME Calm, NEW o \in Places, NEW p \in Places, OpenPipe(o, p)
    PROVE  HandleRefs!RefsNext
<1> USE CalmParts, Marks DEF HandleTypes, Vacant
<1>1. PICK h \in Values, g \in Values, d \in Opened, e \in Opened :
        /\ open[h] = Unused /\ open[g] = Unused /\ Fresh(d) /\ Fresh(e) /\ h # g /\ d # e
        /\ open' = [open EXCEPT ![h] = d, ![g] = e]
        /\ hd' = [hd EXCEPT ![o] = h, ![p] = g]
    BY DEF OpenPipe
<1>2. o # p /\ UNCHANGED <<kind, phase, lent, shut, harmed>>
    BY DEF OpenPipe
<1>3. ASSUME NEW q \in {o, p} PROVE q \notin shut /\ phase[q] = "whole"
    <2>1. q \in Places /\ hd[q] = NoObject
        BY DEF OpenPipe
    <2> QED
        BY <2>1 DEF ShutHaveHandles, Unfinished
<1>4. refersTo[o] = NoObject /\ refersTo[p] = NoObject
    BY <1>3 DEF OpenPipe, refersTo
<1>5. refersTo'[o] = d /\ refersTo'[p] = e
    BY <1>1, <1>2, <1>3 DEF refersTo
<1>6. \A x \in Values : open[x] \in Opened => open'[x] = open[x]
    BY <1>1
<1>7. ASSUME NEW q \in Places, q \notin {o, p} PROVE refersTo'[q] = refersTo[q]
    <2>1. hd'[q] = hd[q]
        BY <1>1, <1>7
    <2> QED
        BY <1>2, <1>6, <2>1, OwnersNow, OthersKeep
<1>8. refersTo' = [refersTo EXCEPT ![o] = d, ![p] = e]
    BY <1>2, <1>5, <1>7, TwoChanges
<1>9. lentNow' = lentNow
    BY <1>2, <1>6, OwnersNow, LentKeep
<1>10. ~HandleRefs!IsOpen(d) /\ ~HandleRefs!IsOpen(e)
    BY <1>1, FreshIsNew
<1>11. HandleRefs!OpenPair(o, p, d, e)
    BY <1>1, <1>2, <1>4, <1>8, <1>9, <1>10
    DEF Calm, HandleRefs!OpenPair, HandleRefs!Sound, refersTo, lentNow
<1> QED
    BY <1>11 DEF HandleRefs!RefsNext

\* Two objects refer to the same, of which one is new or had another handle.
LEMMA ShareMaps ==
    ASSUME Calm, NEW o \in Places, NEW p \in Places, OwnsHandle(p), refersTo'[o] = refersTo[p],
           \A q \in Places : q # o => refersTo'[q] = refersTo[q], lentNow' = lentNow
    PROVE  HandleRefs!RefsNext
<1>1. refersTo' = [refersTo EXCEPT ![o] = refersTo[p]]
    BY OneChange
<1>2. refersTo[p] \in Opened
    BY OwnersNow
<1>3. HandleRefs!Share(o, p)
    BY <1>1, <1>2 DEF Calm, HandleRefs!Share, HandleRefs!Sound, refersTo, lentNow
<1> QED
    BY <1>3 DEF HandleRefs!RefsNext

LEMMA CopyMaps ==
    ASSUME Calm, NEW o \in Places, NEW p \in Places, CopyObject(o, p)
    PROVE  HandleRefs!RefsNext
<1> USE CalmParts, Marks DEF HandleTypes, Vacant, HasHandle, Live
<1>1. PICK h \in Values :
        /\ open[h] = Unused /\ open' = [open EXCEPT ![h] = open[hd[p]]]
        /\ hd' = [hd EXCEPT ![o] = h]
    BY DEF CopyObject
<1>2. OwnsHandle(p)
    BY ZenonT(60) DEF Calm, CopyObject, Harms, OwnsHandle
<1>3. o \notin shut /\ phase[o] = "whole"
    BY DEF CopyObject, ShutHaveHandles, Unfinished
<1>4. refersTo'[o] = refersTo[p]
    <2>1. refersTo'[o] = open[hd[p]]
        BY <1>1, <1>3 DEF CopyObject, refersTo
    <2> QED
        BY <2>1, <1>2, OwnersNow
<1>5. ASSUME NEW q \in Places, q # o PROVE refersTo'[q] = refersTo[q]
    <2>1. hd'[q] = hd[q] /\ phase'[q] = phase[q] /\ shut' = shut
        BY <1>1, <1>5 DEF CopyObject
    <2> QED
        BY <1>1, <2>1, OthersAfterNew, OthersKeep
<1>6. lentNow' = lentNow
    BY <1>1, OthersAfterNew, LentKeep DEF CopyObject
<1> QED
    BY <1>2, <1>4, <1>5, <1>6, ShareMaps

LEMMA AssignCopyMaps ==
    ASSUME Calm, NEW o \in Places, NEW p \in Places, AssignCopy(o, p)
    PROVE  HandleRefs!RefsNext \/ UNCHANGED HandleRefs!rVars
<1> USE CalmParts, Marks DEF HandleTypes, HasHandle, Live
<1>1. PICK h \in Values :
        /\ open[h] = Unused
        /\ open' = [g \in Values |-> IF g = hd[o] THEN Unused
                                    ELSE IF g = h THEN open[hd[p]] ELSE open[g]]
        /\ hd' = [hd EXCEPT ![o] = h]
        /\ shut' = IF h = hd[o] THEN shut ELSE shut \ {o}
    BY DEF AssignCopy
<1>2. /\ OwnsHandle(p) /\ ~Harms(o) /\ phase[o] = "whole"
      /\ UNCHANGED <<kind, phase, lent>>
    <2>1. ~Harms(o) /\ ~Harms(p)
        BY DEF Calm, AssignCopy
    <2>2. OwnsHandle(p)
        BY <2>1 DEF AssignCopy, Harms, OwnsHandle
    <2> QED
        BY <2>1, <2>2 DEF AssignCopy
<1>3. CASE h = hd[o]
    <2>1. ~OwnsHandle(o)
        BY <1>1, <1>3, OwnersNow
    <2>2. open' = open /\ hd' = hd /\ shut' = shut
        BY <1>1, <1>3
    <2>3. refersTo' = refersTo /\ lentNow' = lentNow
        BY <1>2, <2>2 DEF refersTo, lentNow
    <2> QED
        BY <2>3, NoChange DEF Calm
<1>4. CASE h # hd[o]
    <2>1. \A g \in Values : open[g] # Unused /\ g # hd[o] => open'[g] = open[g]
        BY <1>1
    <2>2. refersTo'[o] = refersTo[p]
        <3>1. refersTo'[o] = open[hd[p]]
            BY <1>1, <1>2, <1>4 DEF refersTo
        <3> QED
            BY <3>1, <1>2, OwnersNow
    <2>3. ASSUME NEW g \in Values, open[g] \in Opened,
                 OwnsHandle(o) => g # hd[o]
          PROVE  open'[g] = open[g]
        <3>1. ~OwnsHandle(o) /\ hd[o] \in Values => open[hd[o]] = Unused
            BY <1>2 DEF Harms, OwnsHandle
        <3> QED
            BY <3>1, <2>1, <2>3
    <2>4. ASSUME NEW q \in Places, q # o PROVE refersTo'[q] = refersTo[q]
        <3>1. hd'[q] = hd[q] /\ phase'[q] = phase[q] /\ (q \in shut' <=> q \in shut)
            BY <1>1, <1>2, <2>4
        <3>2. OwnsHandle(q) => open'[hd[q]] = open[hd[q]]
            BY <2>3, <2>4, OwnersNow
        <3> QED
            BY <3>1, <3>2, OthersKeep
    <2>5. lentNow' = lentNow
        <3>1. \A g \in lent : open'[g] = open[g]
            BY <2>3, OwnersNow
        <3> QED
            BY <3>1, <1>2, LentKeep
    <2> QED
        BY <1>2, <2>2, <2>4, <2>5, ShareMaps
<1> QED
    BY <1>3, <1>4

\* An object takes over what another refers to, which is left with nothing.
LEMMA StealMaps ==
    ASSUME Calm, NEW o \in Places, NEW p \in Places, o # p, Live(p), phase[o] = "whole",
           Moved(o, p), UNCHANGED <<phase, lent>>,
           \A q \in Places : q # o /\ OwnsHandle(q) => open'[hd[q]] = open[hd[q]],
           \A g \in lent : open'[g] = open[g]
    PROVE  HandleRefs!RefsNext
<1> USE CalmParts, Marks DEF HandleTypes, Live
<1>1. hd' = [hd EXCEPT ![o] = hd[p], ![p] = Null]
    BY DEF Moved
<1>2. p \notin shut' /\ (o \in shut' <=> p \in shut)
    BY DEF Moved
<1>3. \A q \in Places : q \notin {o, p} => hd'[q] = hd[q] /\ (q \in shut' <=> q \in shut)
    BY DEF Moved
<1>4. refersTo'[p] = Null
    BY <1>1, <1>2 DEF refersTo
<1>5. refersTo'[o] = refersTo[p]
    <2>1. hd'[o] = hd[p]
        BY <1>1
    <2>2. CASE OwnsHandle(p)
        BY <1>2, <2>1, <2>2 DEF refersTo, OwnsHandle
    <2>3. CASE ~OwnsHandle(p)
        BY <1>2, <2>1, <2>3 DEF refersTo, OwnsHandle
    <2> QED
        BY <2>2, <2>3
<1>6. \A q \in Places : q \notin {o, p} => refersTo'[q] = refersTo[q]
    BY <1>3, OthersKeep
<1>7. refersTo' = [refersTo EXCEPT ![o] = refersTo[p], ![p] = Null]
    BY <1>4, <1>5, <1>6, TwoChanges
<1>8. lentNow' = lentNow
    BY LentKeep
<1>9. refersTo[p] # NoObject
    <2>1. CASE OwnsHandle(p)
        BY <2>1, OwnersNow
    <2>2. CASE ~OwnsHandle(p)
        BY <2>2, Unowned
    <2> QED
        BY <2>1, <2>2
<1>10. HandleRefs!Steal(o, p)
    BY <1>7, <1>8, <1>9 DEF Calm, HandleRefs!Steal, HandleRefs!Sound, refersTo, lentNow
<1> QED
    BY <1>10 DEF HandleRefs!RefsNext

LEMMA MoveMaps ==
    ASSUME Calm, NEW o \in Places, NEW p \in Places, MoveObject(o, p)
    PROVE  HandleRefs!RefsNext
<1>1. o # p /\ phase[o] = "whole"
    BY CalmParts, Marks DEF MoveObject, Live, Vacant, Unfinished
<1>2. Live(p) /\ Moved(o, p) /\ UNCHANGED <<open, phase, lent>>
    BY DEF MoveObject
<1> QED
    BY <1>1, <1>2, StealMaps

LEMMA AssignMoveMaps ==
    ASSUME Calm, NEW o \in Places, NEW p \in Places, AssignMove(o, p)
    PROVE  HandleRefs!RefsNext
<1>1. /\ o # p /\ phase[o] = "whole" /\ Live(p) /\ Moved(o, p) /\ UNCHANGED <<phase, lent>>
      /\ ~Harms(o) /\ open' = CloseOf(o)
    BY DEF Calm, AssignMove, Live
<1> QED
    BY <1>1, OthersAfterClose, StealMaps

LEMMA RefsStep ==
    ASSUME HandlesInv, HandlesInv', [HandlesNext]_wVars
    PROVE  [HandleRefs!RefsNext]_(HandleRefs!rVars)
<1>1. CASE UNCHANGED wVars
    BY <1>1 DEF wVars, HandleRefs!rVars
<1>2. CASE HandlesNext /\ harmed'
    BY <1>2 DEF HandleRefs!RefsNext, HandleRefs!Break
<1>3. CASE HandlesNext /\ ~harmed'
    <2>1. ~harmed
        BY <1>3, ZenonT(60) DEF HandlesNext, EmptyObject, OpenHandle, OpenAsync, Attach, UnwindAsync,
            CloseRight, CloseFile, DetachHandle, DestroyObject, AdoptHandle, OpenPipe,
            CopyObject, MoveObject, AssignCopy, AssignMove, Live, Vacant, HasHandle
    <2>2. Calm
        BY <1>3, <2>1 DEF Calm
    <2>3. ASSUME NEW o \in Places, OpenAsync(o) PROVE HandleRefs!RefsNext
        BY <2>2, <2>3, OpenMaps DEF OpenAsync
    <2>4. ASSUME NEW o \in Places,
                 \/ EmptyObject(o) \/ OpenHandle(o, "whole")
                 \/ Attach(o) \/ UnwindAsync(o)
                 \/ CloseRight(o) \/ CloseFile(o) \/ DetachHandle(o) \/ DestroyObject(o)
                 \/ \E h \in Values : AdoptHandle(o, h)
          PROVE  HandleRefs!RefsNext \/ UNCHANGED HandleRefs!rVars
        BY <2>2, <2>4, EmptyMaps, OpenMaps, AttachMaps, UnwindMaps, CloseRightMaps,
           CloseFileMaps, DetachMaps, DestroyMaps, AdoptMaps
    <2>5. ASSUME NEW o \in Places, NEW p \in Places,
                 \/ OpenPipe(o, p) \/ CopyObject(o, p) \/ MoveObject(o, p)
                 \/ AssignCopy(o, p) \/ AssignMove(o, p)
          PROVE  HandleRefs!RefsNext \/ UNCHANGED HandleRefs!rVars
        BY <2>2, <2>5, PipeMaps, CopyMaps, MoveMaps, AssignCopyMaps, AssignMoveMaps
    <2> QED
        BY <1>3, <2>3, <2>4, <2>5 DEF HandlesNext
<1> QED
    BY <1>1, <1>2, <1>3

LEMMA RefsInitial == HandlesInit => HandleRefs!RefsInit
BY Marks DEF HandlesInit, HandleRefs!RefsInit

\* On Windows, too, no call changes what any other object refers to, until
\* one closes or copies a number that it has no right to.
THEOREM HandlesRefine == Spec => HandlesImplementFileRefs
<1>1. HandlesSpec => []HandlesInv
    BY HandlesInitInv, HandlesInvStep, PTL DEF HandlesSpec
<1>2. HandlesInv /\ HandlesInv' /\ [HandlesNext]_wVars =>
        [wVars' # wVars => [HandleRefs!RefsNext]_(HandleRefs!rVars)]_wVars
    BY RefsStep
<1>3. HandlesSpec => HandlesImplementFileRefs
    BY <1>1, <1>2, RefsInitial, PTL DEF HandlesSpec, HandlesImplementFileRefs
<1> QED
    BY <1>3, HandlesPart, PTL

-------------------------------------------------------------------------------
(* A log that is synchronised *)

Held(s) == ToSet(sync[s].mostr)
Increasing(q) == \A i, j \in DOMAIN q : i < j => q[i] < q[j]
Text == Seq(Nat)

SyncTypes ==
    /\ sync \in [Syncs -> [live : BOOLEAN, mostr : Text, need : BOOLEAN]]
    /\ log \in Text
    /\ logged \in Nat

\* LoggedOnce, stream by stream, of characters that were written.
LoggedInOrder ==
    /\ IsInjective(log) /\ ToSet(log) \subseteq 1..logged
    /\ \A s \in Syncs :
        /\ Increasing(sync[s].mostr) /\ Held(s) \subseteq 1..logged
        /\ Held(s) \cap ToSet(log) = {}
    /\ \A s, t \in Syncs : s # t => Held(s) \cap Held(t) = {}

\* A stream that does not synchronise was moved from; what is written to it
\* is late.
LateIsStale ==
    \A s \in Syncs :
        /\ ~sync[s].live => sync[s].mostr = <<>> /\ s \notin stale
        /\ s \in stale => Held(s) \subseteq late
        /\ sync[s].live /\ ~sync[s].need => s \in stale

SyncedInv == SyncTypes /\ LoggedInOrder /\ LateIsStale /\ OnlyLateTextIsLost

LEMMA NoText == \A q : q = <<>> => q \in Text /\ ToSet(q) = {} /\ Increasing(q)
BY DEF Text, ToSet, Increasing

\* What is in a text, and in a text that goes on with another.
LEMMA InText == \A q \in Text : \A x : x \in ToSet(q) <=> \E i \in 1..Len(q) : q[i] = x
BY DEF Text, ToSet

LEMMA Joined ==
    ASSUME NEW q \in Text, NEW r \in Text, NEW j, j = q \o r
    PROVE  /\ j \in Text /\ ToSet(j) = ToSet(q) \cup ToSet(r)
           /\ IsInjective(q) /\ IsInjective(r) /\ ToSet(r) \cap ToSet(q) = {} => IsInjective(j)
           /\ /\ Increasing(q) /\ Increasing(r)
              /\ \A x \in ToSet(q), y \in ToSet(r) : x < y
              => Increasing(j)
<1>1. /\ j \in Text /\ Len(j) = Len(q) + Len(r)
      /\ \A i \in 1..Len(q) : j[i] = q[i]
      /\ \A i \in 1..Len(r) : j[Len(q) + i] = r[i]
    <2>1. j \in Text /\ Len(j) = Len(q) + Len(r) /\ Len(q) \in Nat /\ Len(r) \in Nat
        BY DEF Text
    <2>2. \A i \in 1..Len(q) + Len(r) : j[i] = IF i <= Len(q) THEN q[i] ELSE r[i - Len(q)]
        BY DEF Text
    <2>3. ASSUME NEW i \in 1..Len(r) PROVE j[Len(q) + i] = r[i]
        <3>1. /\ Len(q) + i \in 1..Len(q) + Len(r) /\ ~(Len(q) + i <= Len(q))
              /\ (Len(q) + i) - Len(q) = i
            BY <2>1
        <3> QED
            BY <3>1, <2>2
    <2>4. \A i \in 1..Len(q) : i \in 1..Len(q) + Len(r) /\ i <= Len(q)
        BY <2>1
    <2> QED
        BY <2>1, <2>2, <2>3, <2>4
<1>2. /\ Len(q) \in Nat /\ Len(r) \in Nat
      /\ DOMAIN j = 1..Len(j) /\ DOMAIN q = 1..Len(q) /\ DOMAIN r = 1..Len(r)
    BY <1>1 DEF Text
<1>3. \A i \in DOMAIN j : IF i <= Len(q) THEN i \in DOMAIN q /\ j[i] = q[i]
                          ELSE i - Len(q) \in DOMAIN r /\ j[i] = r[i - Len(q)]
    <2> TAKE i \in DOMAIN j
    <2>1. CASE i <= Len(q)
        BY <2>1, <1>1, <1>2
    <2>2. CASE ~(i <= Len(q))
        <3>1. i - Len(q) \in 1..Len(r) /\ i = Len(q) + (i - Len(q))
            BY <2>2, <1>1, <1>2
        <3> QED
            BY <3>1, <2>2, <1>1, <1>2
    <2> QED
        BY <2>1, <2>2
<1>4. \A i \in DOMAIN q : i \in DOMAIN j /\ j[i] = q[i]
    BY <1>1, <1>2
<1>5. \A i \in DOMAIN r : Len(q) + i \in DOMAIN j /\ j[Len(q) + i] = r[i]
    BY <1>1, <1>2
<1>6. ToSet(j) = ToSet(q) \cup ToSet(r)
    <2>1. ToSet(j) \subseteq ToSet(q) \cup ToSet(r)
        BY <1>3 DEF ToSet
    <2>2. ToSet(q) \subseteq ToSet(j)
        BY <1>4 DEF ToSet
    <2>3. ToSet(r) \subseteq ToSet(j)
        BY <1>5 DEF ToSet
    <2> QED
        BY <2>1, <2>2, <2>3
<1>7. \A i \in DOMAIN q : q[i] \in ToSet(q)
    BY DEF ToSet
<1>8. \A i \in DOMAIN r : r[i] \in ToSet(r)
    BY DEF ToSet
<1>9. ASSUME IsInjective(q), IsInjective(r), ToSet(r) \cap ToSet(q) = {}
      PROVE  IsInjective(j)
    <2> SUFFICES ASSUME NEW a \in DOMAIN j, NEW b \in DOMAIN j, j[a] = j[b] PROVE a = b
        BY DEF IsInjective
    <2>1. a \in Nat /\ b \in Nat
        BY <1>1, <1>2
    <2>2. CASE a <= Len(q) /\ b <= Len(q)
        BY <2>2, <1>3, <1>9 DEF IsInjective
    <2>3. CASE ~(a <= Len(q)) /\ ~(b <= Len(q))
        <3>1. a - Len(q) = b - Len(q)
            BY <2>3, <1>3, <1>9 DEF IsInjective
        <3> QED
            BY <3>1, <2>1, <1>2
    <2>4. CASE (a <= Len(q)) # (b <= Len(q))
        BY <2>4, <1>3, <1>7, <1>8, <1>9
    <2> QED
        BY <2>2, <2>3, <2>4
<1>10. ASSUME Increasing(q), Increasing(r), \A x \in ToSet(q), y \in ToSet(r) : x < y
       PROVE  Increasing(j)
    <2> SUFFICES ASSUME NEW a \in DOMAIN j, NEW b \in DOMAIN j, a < b PROVE j[a] < j[b]
        BY DEF Increasing
    <2>1. a \in Nat /\ b \in Nat
        BY <1>1, <1>2
    <2>2. CASE b <= Len(q)
        <3>1. a \in DOMAIN q /\ b \in DOMAIN q /\ j[a] = q[a] /\ j[b] = q[b]
            BY <2>1, <2>2, <1>2, <1>3
        <3> QED
            BY <3>1, <1>10 DEF Increasing
    <2>3. CASE ~(a <= Len(q))
        <3>1. /\ a - Len(q) \in DOMAIN r /\ j[a] = r[a - Len(q)]
              /\ b - Len(q) \in DOMAIN r /\ j[b] = r[b - Len(q)]
              /\ a - Len(q) < b - Len(q)
            BY <2>1, <2>3, <1>2, <1>3
        <3> QED
            BY <3>1, <1>10 DEF Increasing
    <2>4. CASE a <= Len(q) /\ ~(b <= Len(q))
        BY <2>4, <1>3, <1>7, <1>8, <1>10
    <2> QED
        BY <2>1, <2>2, <2>3, <2>4, <1>2
<1> QED
    BY <1>1, <1>6, <1>9, <1>10

LEMMA CutText ==
    ASSUME NEW q \in Text, NEW n \in Nat, n < Len(q), NEW a, NEW b,
           DOMAIN a = 1..n, \A i \in 1..n : a[i] = q[i],
           DOMAIN b = 1..Len(q) - n, \A i \in 1..Len(q) - n : b[i] = q[n + i]
    PROVE  /\ ToSet(a) \cup ToSet(b) = ToSet(q)
           /\ IsInjective(q) => IsInjective(a)
<1>1. Len(q) \in Nat /\ DOMAIN q = 1..Len(q)
    BY DEF Text
<1>4. ToSet(a) \cup ToSet(b) \subseteq ToSet(q)
    <2>1. \A i \in 1..Len(q) - n : n + i \in DOMAIN q
        BY <1>1
    <2>2. \A i \in 1..n : i \in DOMAIN q
        BY <1>1
    <2> QED
        BY <2>1, <2>2 DEF ToSet
<1>5. ASSUME NEW i \in DOMAIN q PROVE q[i] \in ToSet(a) \cup ToSet(b)
    <2>1. CASE i <= n
        BY <2>1, <1>1 DEF ToSet
    <2>2. CASE ~(i <= n)
        <3>1. i - n \in 1..Len(q) - n /\ n + (i - n) = i
            BY <2>2, <1>1
        <3> QED
            BY <3>1 DEF ToSet
    <2> QED
        BY <2>1, <2>2
<1>6. IsInjective(q) => IsInjective(a)
    BY <1>1 DEF IsInjective
<1>7. ToSet(a) \cup ToSet(b) = ToSet(q)
    BY <1>4, <1>5 DEF ToSet
<1> QED
    BY <1>6, <1>7

LEMMA IncreasingIsOnce ==
    ASSUME NEW q \in Text, Increasing(q) PROVE IsInjective(q)
<1> SUFFICES ASSUME NEW a \in DOMAIN q, NEW b \in DOMAIN q, q[a] = q[b] PROVE a = b
    BY DEF IsInjective
<1>1. a \in Nat /\ b \in Nat /\ q[a] \in Nat /\ q[b] \in Nat
    BY DEF Text
<1>2. ~(a < b) /\ ~(b < a)
    BY <1>1 DEF Increasing
<1> QED
    BY <1>1, <1>2

\* The device gets a text or its beginning, and gone what it does not get.
LEMMA Sent ==
    ASSUME log \in Text, IsInjective(log), NEW text \in Text, Increasing(text),
           ToSet(text) \cap ToSet(log) = {}, Sends(text)
    PROVE  /\ log' \in Text /\ IsInjective(log')
           /\ ToSet(log) \subseteq ToSet(log') /\ ToSet(log') \subseteq ToSet(log) \cup ToSet(text)
           /\ gone \subseteq gone' /\ ToSet(text) \subseteq ToSet(log') \cup gone'
<1>1. IsInjective(text)
    BY IncreasingIsOnce
<1>2. CASE log' = log \o text /\ UNCHANGED <<gone, drops>>
    <2>1. log' \in Text /\ ToSet(log') = ToSet(log) \cup ToSet(text) /\ IsInjective(log')
        BY <1>1, <1>2, Joined
    <2> QED
        BY <1>2, <2>1
<1>3. CASE \E n \in 1..Len(text) - 1 :
            /\ log' = log \o SubSeq(text, 1, n)
            /\ gone' = gone \cup ToSet(SubSeq(text, n + 1, Len(text)))
    <2>1. PICK n \in 1..Len(text) - 1 :
            /\ log' = log \o SubSeq(text, 1, n)
            /\ gone' = gone \cup ToSet(SubSeq(text, n + 1, Len(text)))
        BY <1>3
    <2>a. PICK a : a = SubSeq(text, 1, n)
        OBVIOUS
    <2>b. PICK b : b = SubSeq(text, n + 1, Len(text))
        OBVIOUS
    <2>d. Len(text) \in Nat /\ DOMAIN text = 1..Len(text) /\ n \in Nat /\ n < Len(text)
        BY DEF Text
    <2>e. a \in Text /\ DOMAIN a = 1..n /\ \A i \in 1..n : a[i] = text[i]
        BY <2>a, <2>d DEF Text
    <2>f. DOMAIN b = 1..Len(text) - n /\ \A i \in 1..Len(text) - n : b[i] = text[n + i]
        BY <2>b, <2>d DEF Text
    <2>2. ToSet(a) \cup ToSet(b) = ToSet(text) /\ IsInjective(a)
        BY <1>1, <2>d, <2>e, <2>f, CutText
    <2>3. log' = log \o a /\ gone' = gone \cup ToSet(b)
        BY <2>1, <2>a, <2>b
    <2>c. ToSet(a) \cap ToSet(log) = {}
        BY <2>2
    <2>4. log' \in Text /\ ToSet(log') = ToSet(log) \cup ToSet(a) /\ IsInjective(log')
        BY <2>2, <2>3, <2>c, <2>e, Joined
    <2> QED
        BY <2>2, <2>3, <2>4
<1> QED
    BY <1>2, <1>3 DEF Sends

LEMMA SyncedStart == SyncedInit => SyncedInv
<1> SUFFICES ASSUME SyncedInit PROVE SyncedInv
    OBVIOUS
<1>1. sync = [s \in Syncs |-> NoSync] /\ log = <<>> /\ logged = 0 /\ stale = {}
    BY DEF SyncedInit
<1>2. \A s \in Syncs : sync[s] = NoSync /\ sync[s].mostr = <<>>
    BY <1>1 DEF NoSync
<1>3. \A s \in Syncs : Held(s) = {} /\ Increasing(sync[s].mostr)
    BY <1>2, NoText DEF Held
<1>4. log \in Text /\ ToSet(log) = {} /\ IsInjective(log)
    BY <1>1, NoText DEF IsInjective
<1>5. SyncTypes
    BY <1>1, <1>4 DEF SyncTypes, NoSync, Text
<1>6. LateIsStale
    BY <1>1, <1>2 DEF LateIsStale, NoSync
<1>7. LoggedInOrder
    BY <1>3, <1>4 DEF LoggedInOrder
<1>8. OnlyLateTextIsLost
    BY <1>1 DEF OnlyLateTextIsLost
<1> QED
    BY <1>5, <1>6, <1>7, <1>8 DEF SyncedInv

LEMMA LostText ==
    OnlyLateTextIsLost <=>
        \A c \in 1..logged : c \in ToSet(log) \cup gone \cup late \/ \E s \in Syncs : c \in Held(s)
BY DEF OnlyLateTextIsLost, Held

\* A step that writes no new text keeps the rest in order if each stream has
\* part of what it or another had.
LEMMA SentOn ==
    ASSUME SyncedInv, NEW s \in Syncs, Sends(sync[s].mostr)
    PROVE  /\ log' \in Text /\ IsInjective(log')
           /\ ToSet(log) \subseteq ToSet(log') /\ ToSet(log') \subseteq ToSet(log) \cup Held(s)
           /\ gone \subseteq gone' /\ Held(s) \subseteq ToSet(log') \cup gone'
<1>1. /\ log \in Text /\ IsInjective(log) /\ sync[s].mostr \in Text /\ Increasing(sync[s].mostr)
      /\ ToSet(sync[s].mostr) \cap ToSet(log) = {}
    BY DEF SyncedInv, SyncTypes, LoggedInOrder, Held
<1> QED
    BY <1>1, Sent DEF Held

LEMMA Dropped ==
    ASSUME SyncedInv, NEW s \in Syncs, sync[s].live, SyncsAndDrops(s)
    PROVE  /\ log' \in Text /\ IsInjective(log')
           /\ ToSet(log) \subseteq ToSet(log') /\ ToSet(log') \subseteq ToSet(log) \cup Held(s)
           /\ gone \subseteq gone' /\ Held(s) \subseteq ToSet(log') \cup gone' \cup late
<1>1. CASE sync[s].need /\ Sends(sync[s].mostr)
    BY <1>1, SentOn
<1>2. CASE sync[s].need /\ gone' = gone \cup ToSet(sync[s].mostr) /\ UNCHANGED log
    BY <1>2 DEF SyncedInv, SyncTypes, LoggedInOrder, Held
<1>3. CASE ~sync[s].need /\ UNCHANGED <<log, gone, drops>>
    <2>1. Held(s) \subseteq late
        BY <1>3 DEF SyncedInv, LateIsStale
    <2> QED
        BY <1>3, <2>1 DEF SyncedInv, SyncTypes, LoggedInOrder
<1> QED
    BY <1>1, <1>2, <1>3 DEF SyncsAndDrops

\* What a stream had goes to the log, or is gone, or was late.
Leaves(s) ==
    /\ log' \in Text /\ IsInjective(log')
    /\ ToSet(log) \subseteq ToSet(log') /\ ToSet(log') \subseteq ToSet(log) \cup Held(s)
    /\ gone \subseteq gone' /\ Held(s) \subseteq ToSet(log') \cup gone' \cup late
    /\ late \subseteq late' /\ UNCHANGED logged

LEMMA TextGoes ==
    ASSUME SyncedInv, NEW s \in Syncs, Leaves(s), sync'[s].mostr = <<>>,
           \A u \in Syncs : u # s => sync'[u].mostr = sync[u].mostr
    PROVE  LoggedInOrder' /\ OnlyLateTextIsLost'
<1>1. Held(s)' = {} /\ Increasing(sync'[s].mostr)
    BY NoText DEF Held
<1>2. \A u \in Syncs : u # s => Held(u)' = Held(u)
    BY DEF Held
<1>3. LoggedInOrder
    BY DEF SyncedInv
<1>4. ToSet(log') \subseteq ToSet(log) \cup Held(s) /\ ToSet(log') \subseteq 1..logged'
    BY <1>3 DEF Leaves, LoggedInOrder
<1>5. ASSUME NEW u \in Syncs
      PROVE  /\ Increasing(sync'[u].mostr) /\ Held(u)' \subseteq 1..logged'
             /\ Held(u)' \cap ToSet(log') = {}
    BY <1>1, <1>2, <1>3, <1>4 DEF Leaves, LoggedInOrder
<1>6. ASSUME NEW u \in Syncs, NEW v \in Syncs, u # v PROVE Held(u)' \cap Held(v)' = {}
    BY <1>1, <1>2, <1>3, <1>6 DEF LoggedInOrder
<1>7. LoggedInOrder'
    BY <1>4, <1>5, <1>6 DEF Leaves, LoggedInOrder
<1>8. ASSUME NEW c \in 1..logged'
      PROVE  c \in ToSet(log') \cup gone' \cup late' \/ \E u \in Syncs : c \in Held(u)'
    <2>1. c \in ToSet(log) \cup gone \cup late \/ \E u \in Syncs : c \in Held(u)
        BY LostText DEF SyncedInv, Leaves
    <2> QED
        BY <2>1, <1>2 DEF Leaves
<1>9. OnlyLateTextIsLost'
    BY <1>8 DEF OnlyLateTextIsLost, Held
<1> QED
    BY <1>7, <1>9

LEMMA TextMoves ==
    ASSUME SyncedInv, NEW s \in Syncs, NEW t \in Syncs, s # t, Leaves(s),
           sync'[s].mostr = sync[t].mostr, sync'[t].mostr = <<>>,
           \A u \in Syncs : u \notin {s, t} => sync'[u].mostr = sync[u].mostr
    PROVE  LoggedInOrder' /\ OnlyLateTextIsLost'
<1>1. Held(s)' = Held(t) /\ Held(t)' = {} /\ Increasing(sync'[t].mostr)
    BY NoText DEF Held
<1>2. \A u \in Syncs : u \notin {s, t} => Held(u)' = Held(u)
    BY DEF Held
<1>3. LoggedInOrder
    BY DEF SyncedInv
<1>4. ToSet(log') \subseteq ToSet(log) \cup Held(s) /\ ToSet(log') \subseteq 1..logged'
    BY <1>3 DEF Leaves, LoggedInOrder
<1>5. ASSUME NEW u \in Syncs
      PROVE  /\ Increasing(sync'[u].mostr) /\ Held(u)' \subseteq 1..logged'
             /\ Held(u)' \cap ToSet(log') = {}
    <2>1. CASE u = s
        BY <2>1, <1>1, <1>3, <1>4 DEF Leaves, LoggedInOrder
    <2>2. CASE u = t
        BY <2>2, <1>1
    <2>3. CASE u \notin {s, t}
        BY <2>3, <1>2, <1>3, <1>4 DEF Leaves, LoggedInOrder
    <2> QED
        BY <2>1, <2>2, <2>3
<1>6. ASSUME NEW u \in Syncs, NEW v \in Syncs, u # v PROVE Held(u)' \cap Held(v)' = {}
    BY <1>1, <1>2, <1>3, <1>6 DEF LoggedInOrder
<1>7. LoggedInOrder'
    BY <1>4, <1>5, <1>6 DEF Leaves, LoggedInOrder
<1>8. ASSUME NEW c \in 1..logged'
      PROVE  c \in ToSet(log') \cup gone' \cup late' \/ \E u \in Syncs : c \in Held(u)'
    <2>1. c \in ToSet(log) \cup gone \cup late \/ \E u \in Syncs : c \in Held(u)
        BY LostText DEF SyncedInv, Leaves
    <2>2. ASSUME NEW u \in Syncs, c \in Held(u)
          PROVE  c \in ToSet(log') \cup gone' \cup late' \/ \E v \in Syncs : c \in Held(v)'
        BY <2>2, <1>1, <1>2 DEF Leaves
    <2> QED
        BY <2>1, <2>2 DEF Leaves
<1>9. OnlyLateTextIsLost'
    BY <1>8 DEF OnlyLateTextIsLost, Held
<1> QED
    BY <1>7, <1>9

\* A stream is written to: the new text is its own.
LEMMA WriteKeeps ==
    ASSUME SyncedInv, NEW s \in Syncs, NEW n \in 1..2, WriteLog(s, n) PROVE SyncedInv'
<1>1. PICK r : r = [i \in 1..n |-> logged + i]
    OBVIOUS
<1>2. logged \in Nat /\ logged' = logged + n /\ n \in Nat /\ sync[s].live
    BY DEF SyncedInv, SyncTypes, WriteLog
<1>3. /\ r \in Text /\ Increasing(r)
      /\ ToSet(r) = {logged + i : i \in 1..n}
    BY <1>1, <1>2 DEF Text, Increasing, ToSet
<1>4. /\ sync' = [sync EXCEPT ![s].mostr = sync[s].mostr \o r]
      /\ late' = late \cup (IF s \in stale THEN ToSet(r) ELSE {})
      /\ UNCHANGED <<log, gone, stale, drops>>
    BY <1>1 DEF WriteLog
<1>5. \A u \in Syncs : u # s => sync'[u] = sync[u]
    BY <1>4 DEF SyncedInv, SyncTypes
<1>6. /\ sync'[s].mostr = sync[s].mostr \o r
      /\ sync'[s].live = sync[s].live /\ sync'[s].need = sync[s].need
    BY <1>4 DEF SyncedInv, SyncTypes
<1>7. /\ sync[s].mostr \in Text /\ Increasing(sync[s].mostr) /\ Held(s) \subseteq 1..logged
      /\ LoggedInOrder
    BY DEF SyncedInv, SyncTypes, LoggedInOrder
<1>8. ToSet(r) \subseteq 1..logged' /\ ToSet(r) \cap (1..logged) = {}
      /\ 1..logged' = 1..logged \cup ToSet(r) /\ 1..logged \subseteq 1..logged'
    BY <1>2, <1>3
<1>9. \A x \in ToSet(sync[s].mostr), y \in ToSet(r) : x < y
    BY <1>2, <1>3, <1>7 DEF Held
<1>10. /\ sync'[s].mostr \in Text /\ Increasing(sync'[s].mostr)
       /\ Held(s)' = Held(s) \cup ToSet(r)
    BY <1>3, <1>6, <1>7, <1>9, Joined DEF Held
<1>11. \A u \in Syncs : u # s => Held(u)' = Held(u)
    BY <1>5 DEF Held
<1>12. SyncTypes'
    <2>1. sync'[s] \in [live : BOOLEAN, mostr : Text, need : BOOLEAN]
        <3>1. sync'[s] = [sync[s] EXCEPT !.mostr = sync'[s].mostr]
            BY <1>4, <1>6 DEF SyncedInv, SyncTypes
        <3>2. sync[s] \in [live : BOOLEAN, mostr : Text, need : BOOLEAN]
            BY DEF SyncedInv, SyncTypes
        <3> QED
            BY <3>1, <3>2, <1>10
    <2>2. sync' \in [Syncs -> [live : BOOLEAN, mostr : Text, need : BOOLEAN]]
        BY <2>1, <1>4, <1>5 DEF SyncedInv, SyncTypes
    <2> QED
        BY <2>2, <1>2, <1>4 DEF SyncedInv, SyncTypes
<1>13. ASSUME NEW u \in Syncs
       PROVE  /\ Increasing(sync'[u].mostr) /\ Held(u)' \subseteq 1..logged'
              /\ Held(u)' \cap ToSet(log') = {}
    <2>1. CASE u = s
        BY <2>1, <1>4, <1>7, <1>8, <1>10 DEF LoggedInOrder
    <2>2. CASE u # s
        BY <2>2, <1>4, <1>5, <1>7, <1>8, <1>11 DEF LoggedInOrder
    <2> QED
        BY <2>1, <2>2
<1>14. ASSUME NEW u \in Syncs, NEW v \in Syncs, u # v PROVE Held(u)' \cap Held(v)' = {}
    BY <1>7, <1>8, <1>10, <1>11, <1>14 DEF LoggedInOrder
<1>15. LoggedInOrder'
    BY <1>4, <1>7, <1>8, <1>13, <1>14 DEF LoggedInOrder
<1>16. LateIsStale'
    BY <1>2, <1>4, <1>5, <1>6, <1>10, <1>11 DEF SyncedInv, LateIsStale
<1>17. OnlyLateTextIsLost'
    <2>1. ASSUME NEW c \in 1..logged'
          PROVE  c \in ToSet(log') \cup gone' \cup late' \/ \E u \in Syncs : c \in Held(u)'
        <3>1. CASE c \in ToSet(r)
            BY <3>1, <1>10
        <3>2. CASE c \in 1..logged
            <4>1. c \in ToSet(log) \cup gone \cup late \/ \E u \in Syncs : c \in Held(u)
                BY <3>2, LostText DEF SyncedInv
            <4> QED
                BY <4>1, <1>4, <1>10, <1>11
        <3> QED
            BY <3>1, <3>2, <1>8
    <2> QED
        BY <2>1 DEF OnlyLateTextIsLost, Held
<1> QED
    BY <1>12, <1>15, <1>16, <1>17 DEF SyncedInv

LEMMA SyncedStep == SyncedInv /\ [SyncedNext]_sVars => SyncedInv'
<1> SUFFICES ASSUME SyncedInv, [SyncedNext]_sVars PROVE SyncedInv'
    OBVIOUS
<1> USE DEF SyncTypes
<1>1. SyncTypes /\ LoggedInOrder /\ LateIsStale /\ OnlyLateTextIsLost
    BY DEF SyncedInv
<1>2. <<>> \in Text
    BY NoText
<1>3. ASSUME NEW s \in Syncs, Construct(s) PROVE SyncedInv'
    <2>1. /\ sync' = [sync EXCEPT ![s] = [live |-> TRUE, mostr |-> <<>>, need |-> TRUE]]
          /\ ~sync[s].live /\ UNCHANGED <<log, logged, gone, stale, late, drops>>
        BY <1>3 DEF Construct
    <2>2. /\ sync'[s].mostr = <<>> /\ sync[s].mostr = <<>> /\ sync'[s].live /\ sync'[s].need
          /\ \A u \in Syncs : u # s => sync'[u] = sync[u]
        BY <2>1, <1>1 DEF LateIsStale
    <2>3. SyncTypes'
        BY <2>1, <1>1, <1>2
    <2>4. Held(s) = {}
        BY <2>2, NoText DEF Held
    <2>5. LoggedInOrder' /\ OnlyLateTextIsLost'
        <3>1. Leaves(s)
            BY <2>1, <2>4, <1>1 DEF Leaves, LoggedInOrder
        <3> QED
            BY <3>1, <2>2, TextGoes
    <2>6. LateIsStale'
        BY <2>1, <2>2, <1>1 DEF LateIsStale, Held
    <2> QED
        BY <2>3, <2>5, <2>6 DEF SyncedInv
<1>4. ASSUME NEW s \in Syncs, NEW n \in 1..2, WriteLog(s, n) PROVE SyncedInv'
    BY <1>4, WriteKeeps
<1>5. ASSUME NEW s \in Syncs, FlushLog(s) PROVE SyncedInv'
    <2>1. CASE Sends(sync[s].mostr) /\ sync' = [sync EXCEPT ![s].mostr = <<>>]
        <3>1. UNCHANGED <<logged, stale, late>>
            BY <1>5 DEF FlushLog
        <3>2. /\ sync'[s].mostr = <<>> /\ sync'[s].live = sync[s].live /\ sync'[s].need = sync[s].need
              /\ \A u \in Syncs : u # s => sync'[u] = sync[u]
            BY <2>1, <1>1
        <3>3. Leaves(s)
            BY <2>1, <3>1, SentOn DEF Leaves
        <3>4. LoggedInOrder' /\ OnlyLateTextIsLost'
            BY <3>2, <3>3, TextGoes
        <3>5. SyncTypes'
            BY <2>1, <3>1, <3>3, <1>1, <1>2 DEF Leaves
        <3>6. Held(s)' = {}
            BY <3>2, NoText DEF Held
        <3>7. LateIsStale'
            BY <3>1, <3>2, <3>6, <1>1 DEF LateIsStale, Held
        <3> QED
            BY <3>4, <3>5, <3>7 DEF SyncedInv
    <2>2. CASE UNCHANGED <<sync, log, gone>>
        BY <2>2, <1>5, <1>1
        DEF FlushLog, SyncedInv, LoggedInOrder, LateIsStale, OnlyLateTextIsLost, Held
    <2> QED
        BY <2>1, <2>2, <1>5 DEF FlushLog
<1>6. ASSUME NEW s \in Syncs, Destroy(s) PROVE SyncedInv'
    <2>1. /\ sync[s].live /\ SyncsAndDrops(s) /\ sync' = [sync EXCEPT ![s] = NoSync]
          /\ stale' = stale \ {s} /\ UNCHANGED <<logged, late>>
        BY <1>6 DEF Destroy
    <2>2. /\ sync'[s].mostr = <<>> /\ ~sync'[s].live
          /\ \A u \in Syncs : u # s => sync'[u] = sync[u]
        BY <2>1, <1>1 DEF NoSync
    <2>3. Leaves(s)
        BY <2>1, Dropped DEF Leaves
    <2>4. LoggedInOrder' /\ OnlyLateTextIsLost'
        BY <2>2, <2>3, TextGoes
    <2>5. SyncTypes'
        BY <2>1, <2>3, <1>1, <1>2 DEF Leaves, NoSync
    <2>6. LateIsStale'
        BY <2>1, <2>2, <1>1 DEF LateIsStale, Held
    <2> QED
        BY <2>4, <2>5, <2>6 DEF SyncedInv
<1>7. ASSUME NEW s \in Syncs, NEW t \in Syncs, MoveConstruct(s, t) PROVE SyncedInv'
    <2>1. /\ ~sync[s].live /\ sync[t].live /\ s # t
          /\ sync' = [sync EXCEPT ![s] = sync[t], ![t].mostr = <<>>, ![t].need = FALSE]
          /\ stale' = (IF t \in stale THEN stale \cup {s} ELSE stale) \cup {t}
          /\ UNCHANGED <<log, logged, gone, late, drops>>
        BY <1>7 DEF MoveConstruct
    <2>2. /\ sync'[s] = sync[t]
          /\ sync'[t] = [sync[t] EXCEPT !.mostr = <<>>, !.need = FALSE]
          /\ \A u \in Syncs : u \notin {s, t} => sync'[u] = sync[u]
        BY <2>1, <1>1
    <2>3. /\ sync'[t].mostr = <<>> /\ sync'[t].live /\ sync[s].mostr = <<>> /\ s \notin stale
        BY <2>1, <2>2, <1>1 DEF LateIsStale
    <2>4. Held(s) = {} /\ Held(t)' = {}
        BY <2>3, NoText DEF Held
    <2>5. Leaves(s)
        BY <2>1, <2>4, <1>1 DEF Leaves, LoggedInOrder
    <2>6. LoggedInOrder' /\ OnlyLateTextIsLost'
        BY <2>1, <2>2, <2>3, <2>5, TextMoves
    <2>7. SyncTypes'
        BY <2>1, <1>1, <1>2
    <2>8. LateIsStale'
        BY <2>1, <2>2, <2>3, <2>4, <1>1 DEF LateIsStale, Held
    <2> QED
        BY <2>6, <2>7, <2>8 DEF SyncedInv
<1>8. ASSUME NEW s \in Syncs, NEW t \in Syncs, MoveAssign(s, t) PROVE SyncedInv'
    <2>1. /\ sync[s].live /\ sync[t].live /\ s # t /\ SyncsAndDrops(s)
          /\ sync' = [sync EXCEPT ![s].mostr = sync[t].mostr, ![t].mostr = <<>>, ![t].need = FALSE]
          /\ stale' = stale \cup {t}
          /\ late' = late \cup (IF s \in stale THEN Held(t) ELSE {})
          /\ UNCHANGED logged
        BY <1>8 DEF MoveAssign, Held
    <2>2. /\ sync'[s] = [sync[s] EXCEPT !.mostr = sync[t].mostr]
          /\ sync'[t] = [sync[t] EXCEPT !.mostr = <<>>, !.need = FALSE]
          /\ \A u \in Syncs : u \notin {s, t} => sync'[u] = sync[u]
        BY <2>1, <1>1
    <2>3. /\ sync'[t].mostr = <<>> /\ sync'[t].live /\ sync'[s].mostr = sync[t].mostr
          /\ sync'[s].live /\ sync'[s].need = sync[s].need
        BY <2>1, <2>2, <1>1
    <2>4. Held(t)' = {} /\ Held(s)' = Held(t)
        BY <2>3, NoText DEF Held
    <2>5. Leaves(s)
        BY <2>1, Dropped DEF Leaves
    <2>6. LoggedInOrder' /\ OnlyLateTextIsLost'
        BY <2>1, <2>2, <2>3, <2>5, TextMoves
    <2>7. SyncTypes'
        <3> DEFINE Rec == [live : BOOLEAN, mostr : Text, need : BOOLEAN]
        <3>1. \A u \in Syncs : sync[u] \in Rec
            BY <1>1
        <3>2. sync'[s] \in Rec /\ sync'[t] \in Rec
            BY <2>2, <3>1, <1>2
        <3>3. \A u \in Syncs : sync'[u] \in Rec
            BY <2>2, <3>1, <3>2
        <3>4. sync' = [u \in Syncs |-> sync'[u]]
            BY <2>1, <1>1
        <3> HIDE DEF Rec
        <3>5. sync' \in [Syncs -> Rec]
            BY <3>3, <3>4
        <3> QED
            BY <3>5, <2>1, <2>5, <1>1 DEF Leaves, Rec
    <2>8. LateIsStale'
        BY <2>1, <2>2, <2>3, <2>4, <1>1 DEF LateIsStale, Held
    <2> QED
        BY <2>6, <2>7, <2>8 DEF SyncedInv
<1>9. CASE UNCHANGED sVars
    BY <1>9, <1>1 DEF sVars, SyncedInv, LoggedInOrder, LateIsStale, OnlyLateTextIsLost, Held
<1> QED
    BY <1>3, <1>4, <1>5, <1>6, <1>7, <1>8, <1>9 DEF SyncedNext

\* What a program writes to synchronised streams is in its log once, whatever was
\* moved, assigned, destroyed or retried, and none of it is lost but late text.
THEOREM LogComplete == Spec => []LogIsComplete
<1>1. Init => SyncedInv
    BY SyncedStart DEF Init
<1>2. [Next]_vars => [SyncedNext]_sVars
    BY DEF Next, vars, sVars
<1>3. SyncedInv => LogIsComplete
    BY DEF SyncedInv, LoggedInOrder, LogIsComplete, LoggedOnce, Increasing, Held
<1> QED
    BY <1>1, <1>2, <1>3, SyncedStep, PTL DEF Spec

\* The part of TypeOK that is about synchronised streams.
SyncLimits ==
    /\ \A s \in Syncs : ~sync[s].live => sync[s] = NoSync
    /\ drops \in 0..MaxDrops
    /\ gone \cup late \subseteq 1..logged

LEMMA LimitsStart == SyncedInit => SyncLimits
BY DropsAssumption DEF SyncedInit, SyncLimits, NoSync

\* What a device spoils was held by the stream.
LEMMA SentLimits ==
    ASSUME SyncedInv, SyncLimits, NEW s \in Syncs, SyncsAndDrops(s) \/ Sends(sync[s].mostr)
    PROVE  drops' \in 0..MaxDrops /\ gone' \subseteq gone \cup Held(s)
<1>1. sync[s].mostr \in Text
    BY DEF SyncedInv, SyncTypes
<1>2. CASE Sends(sync[s].mostr)
  <2>1. CASE UNCHANGED <<gone, drops>>
    BY <2>1 DEF SyncLimits
  <2>2. CASE /\ drops < MaxDrops
             /\ drops' = drops + 1
             /\ \E n \in 1..Len(sync[s].mostr) - 1 :
                  gone' = gone \cup ToSet(SubSeq(sync[s].mostr, n + 1, Len(sync[s].mostr)))
    <3>1. PICK n \in 1..Len(sync[s].mostr) - 1 :
            gone' = gone \cup ToSet(SubSeq(sync[s].mostr, n + 1, Len(sync[s].mostr)))
      BY <2>2
    <3> DEFINE q == sync[s].mostr
               r == SubSeq(q, n + 1, Len(q))
    <3>2. q \in Text
      BY <1>1
    <3>3. Len(q) \in Nat /\ n \in Nat /\ n + 1 <= Len(q)
      BY <1>1 DEF Text
    <3>4. r \in Text /\ \A i \in 1..Len(r) : r[i] = q[n + i] /\ n + i \in 1..Len(q)
      BY <1>1, <3>3, SMTT(30) DEF Text
    <3> HIDE DEF q, r
    <3>5. \A x \in ToSet(r) : x \in ToSet(q)
      BY <3>2, <3>4, InText
    <3> QED
      BY <2>2, <3>1, <3>5, DropsAssumption DEF SyncLimits, Held, q, r
  <2> QED
    BY <1>2, <2>1, <2>2 DEF Sends
<1>3. CASE drops < MaxDrops /\ drops' = drops + 1 /\ gone' = gone \cup ToSet(sync[s].mostr)
    BY <1>3, DropsAssumption DEF SyncLimits, Held
<1>4. CASE UNCHANGED <<gone, drops>>
    BY <1>4 DEF SyncLimits
<1> QED
    BY <1>2, <1>3, <1>4 DEF SyncsAndDrops

LEMMA LimitsStep == SyncedInv /\ SyncLimits /\ [SyncedNext]_sVars => SyncLimits'
<1> SUFFICES ASSUME SyncedInv, SyncLimits, [SyncedNext]_sVars PROVE SyncLimits'
    OBVIOUS
<1>1. /\ sync \in [Syncs -> [live : BOOLEAN, mostr : Text, need : BOOLEAN]]
      /\ logged \in Nat
      /\ \A s \in Syncs : Held(s) \subseteq 1..logged
    BY DEF SyncedInv, SyncTypes, LoggedInOrder
<1>2. ASSUME NEW s \in Syncs, Construct(s) PROVE SyncLimits'
    BY <1>1, <1>2 DEF Construct, SyncLimits
<1>3. ASSUME NEW s \in Syncs, NEW n \in 1..2, WriteLog(s, n) PROVE SyncLimits'
  <2> DEFINE t == [i \in 1..n |-> logged + i]
  <2>1. /\ sync[s].live /\ sync' = [sync EXCEPT ![s].mostr = @ \o t]
        /\ late' = late \cup (IF s \in stale THEN ToSet(t) ELSE {})
        /\ logged' = logged + n /\ UNCHANGED <<gone, drops>>
    BY <1>3 DEF WriteLog
  <2>2. ToSet(t) \subseteq 1..logged'
    BY <2>1, <1>1 DEF ToSet
  <2>3. \A u \in 1..logged : u \in 1..logged'
    BY <2>1, <1>1
  <2>4. \A u \in Syncs : sync'[u].live = sync[u].live /\ (u # s => sync'[u] = sync[u])
    BY <2>1, <1>1
  <2> QED
    BY <2>1, <2>2, <2>3, <2>4 DEF SyncLimits
<1>4. ASSUME NEW s \in Syncs, FlushLog(s) PROVE SyncLimits'
  <2>1. CASE Sends(sync[s].mostr) /\ sync' = [sync EXCEPT ![s].mostr = <<>>]
    <3>1. drops' \in 0..MaxDrops /\ gone' \subseteq gone \cup Held(s)
      BY <2>1, SentLimits
    <3>2. sync[s].live /\ \A u \in Syncs : sync'[u].live = sync[u].live /\ (u # s => sync'[u] = sync[u])
      BY <2>1, <1>1, <1>4 DEF FlushLog
    <3> QED
      BY <3>1, <3>2, <1>1, <1>4 DEF FlushLog, SyncLimits
  <2>2. CASE drops < MaxDrops /\ drops' = drops + 1 /\ UNCHANGED <<sync, log, gone>>
    BY <2>2, <1>4, DropsAssumption DEF FlushLog, SyncLimits
  <2> QED
    BY <2>1, <2>2, <1>4 DEF FlushLog
<1>5. ASSUME NEW s \in Syncs, Destroy(s) PROVE SyncLimits'
  <2>1. drops' \in 0..MaxDrops /\ gone' \subseteq gone \cup Held(s)
    BY <1>5, SentLimits DEF Destroy
  <2>2. sync' = [sync EXCEPT ![s] = NoSync] /\ UNCHANGED <<logged, late>>
    BY <1>5 DEF Destroy
  <2>3. \A u \in Syncs : ~sync'[u].live => sync'[u] = NoSync
    BY <2>2, <1>1 DEF SyncLimits
  <2> QED
    BY <2>1, <2>2, <2>3, <1>1 DEF SyncLimits
<1>6. ASSUME NEW s \in Syncs, NEW t \in Syncs, MoveConstruct(s, t) PROVE SyncLimits'
  <2>1. /\ ~sync[s].live /\ sync[t].live
        /\ sync' = [sync EXCEPT ![s] = sync[t], ![t].mostr = <<>>, ![t].need = FALSE]
        /\ UNCHANGED <<logged, gone, late, drops>>
    BY <1>6 DEF MoveConstruct
  <2>2. /\ sync'[s].live /\ sync'[t].live
        /\ \A u \in Syncs : u \notin {s, t} => sync'[u] = sync[u]
    BY <2>1, <1>1
  <2> QED
    BY <2>1, <2>2 DEF SyncLimits
<1>7. ASSUME NEW s \in Syncs, NEW t \in Syncs, MoveAssign(s, t) PROVE SyncLimits'
  <2>1. /\ sync[s].live /\ sync[t].live /\ SyncsAndDrops(s)
        /\ sync' = [sync EXCEPT ![s].mostr = sync[t].mostr, ![t].mostr = <<>>, ![t].need = FALSE]
        /\ late' \subseteq late \cup Held(t)
        /\ logged' = logged
    BY <1>7 DEF MoveAssign, Held
  <2>2. /\ sync'[s].live /\ sync'[t].live
        /\ \A u \in Syncs : u \notin {s, t} => sync'[u] = sync[u]
    BY <2>1, <1>1
  <2>3. drops' \in 0..MaxDrops /\ gone' \subseteq gone \cup Held(s)
    BY <2>1, SentLimits
  <2> QED
    BY <2>1, <2>2, <2>3, <1>1 DEF SyncLimits
<1>8. CASE UNCHANGED sVars
    BY <1>8 DEF sVars, SyncLimits
<1> QED
    BY <1>2, <1>3, <1>4, <1>5, <1>6, <1>7, <1>8 DEF SyncedNext

-------------------------------------------------------------------------------
(* Processes that threads create at the same time *)

Steps ==
    {<<"idle">>, <<"creates">>, <<"lowers">>, <<"throws">>, <<"done">>, <<"failed">>}
        \cup {<<"looks", i>> : i \in 1..3} \cup {<<"raises", i>> : i \in 1..3}

Guarded(t) == ToSet(guards[t])

BuilderTypes ==
    /\ at \in [Builders -> Steps]
    /\ io \in [Builders -> Redirects]
    /\ guards \in [Builders -> Seq(Ours)]
    /\ has \in [Builders -> SUBSET Ours]
    /\ flag \subseteq Ours /\ alone \subseteq Builders /\ undone \subseteq Builders

\* The flags that are up were up at first or are some guard's to lower.
FlagsAreGuarded ==
    /\ began \subseteq flag
    /\ \A h \in flag : h \in began \/ \E t \in Builders : h \in Guarded(t)
    /\ \A t \in Builders :
        /\ Guarded(t) \subseteq Streams(t) \ began
        /\ ~Inside(t) => guards[t] = <<>>
        /\ \A i \in 1..3 : at[t] = <<"raises", i>> => io[t][i] \notin began

\* A constructor that is alone is, and no guard lowered a flag of its own.
AloneIsAlone ==
    /\ \A t \in alone : Inside(t) => \A u \in Builders \ {t} : ~Inside(u)
    /\ \A t \in undone : at[t] # <<"idle">> /\ t \notin alone

\* The flags of the streams that a constructor is done with are up, unless
\* another's guard lowered one.
PassedAreUp ==
    \A t \in Builders : t \notin undone =>
        /\ \A i \in 1..3 : at[t] \in {<<"looks", i>>, <<"raises", i>>} =>
                \A j \in 1..3 : j < i => io[t][j] \in flag
        /\ at[t] = <<"creates">> => Streams(t) \subseteq flag

\* ChildrenInherit, from the creation on.
CreatedInherit ==
    \A t \in Builders : at[t] \in {<<"lowers">>, <<"done">>} =>
        /\ t \in alone => has[t] = began \cup Streams(t)
        /\ has[t] \subseteq began \cup UNION {Streams(u) : u \in Builders}
        /\ Streams(t) \subseteq has[t] \/ t \in undone

BuildersInv ==
    BuilderTypes /\ FlagsAreGuarded /\ AloneIsAlone /\ PassedAreUp /\ CreatedInherit

LEMMA StepsDiffer ==
    /\ \A i \in 1..3 :
        /\ <<"looks", i>> \notin {<<"idle">>, <<"creates">>, <<"lowers">>, <<"throws">>, <<"done">>, <<"failed">>}
        /\ <<"raises", i>> \notin {<<"idle">>, <<"creates">>, <<"lowers">>, <<"throws">>, <<"done">>, <<"failed">>}
        /\ \A j \in 1..3 :
            /\ <<"looks", i>> # <<"raises", j>>
            /\ <<"looks", i>> = <<"looks", j>> => i = j
            /\ <<"raises", i>> = <<"raises", j>> => i = j
    /\ <<"idle">> \notin {<<"creates">>, <<"lowers">>, <<"throws">>, <<"done">>, <<"failed">>}
    /\ <<"creates">> \notin {<<"lowers">>, <<"throws">>, <<"done">>, <<"failed">>}
    /\ <<"lowers">> \notin {<<"throws">>, <<"done">>, <<"failed">>}
    /\ <<"throws">> \notin {<<"done">>, <<"failed">>}
    /\ <<"done">> # <<"failed">>
OBVIOUS

LEMMA Longer ==
    ASSUME NEW S, NEW q \in Seq(S), NEW e \in S, NEW r \in Seq(S), Len(r) = Len(q) + 1,
           r[Len(q) + 1] = e, \A i \in 1..Len(q) : r[i] = q[i]
    PROVE  ToSet(r) = ToSet(q) \cup {e}
<1>1. DOMAIN r = 1..Len(q) + 1 /\ DOMAIN q = 1..Len(q) /\ Len(q) \in Nat
    OBVIOUS
<1>2. DOMAIN r = DOMAIN q \cup {Len(q) + 1}
    BY <1>1
<1>3. ToSet(r) \subseteq ToSet(q) \cup {e}
    BY <1>1, <1>2 DEF ToSet
<1>4. ToSet(q) \subseteq ToSet(r) /\ e \in ToSet(r)
    BY <1>1, <1>2 DEF ToSet
<1> QED
    BY <1>3, <1>4

LEMMA Shorter ==
    ASSUME NEW S, NEW q \in Seq(S), q # <<>>, NEW r, r = Front(q), NEW e, e = Last(q)
    PROVE  r \in Seq(S) /\ e \in ToSet(q) /\ ToSet(r) \subseteq ToSet(q)
           /\ ToSet(q) \subseteq ToSet(r) \cup {e}
<1>1. Len(q) \in Nat \ {0} /\ DOMAIN q = 1..Len(q)
    OBVIOUS
<1>2. e = q[Len(q)]
    BY DEF Last
<1>3. r \in Seq(S) /\ DOMAIN r = 1..Len(q) - 1 /\ \A i \in 1..Len(q) - 1 : r[i] = q[i]
    BY <1>1 DEF Front
<1>4. DOMAIN q = DOMAIN r \cup {Len(q)}
    BY <1>1, <1>3
<1>5. e \in ToSet(q) /\ ToSet(r) \subseteq ToSet(q)
    BY <1>2, <1>3, <1>4 DEF ToSet
<1>6. ToSet(q) \subseteq ToSet(r) \cup {e}
    BY <1>2, <1>3, <1>4 DEF ToSet
<1> QED
    BY <1>3, <1>5, <1>6

LEMMA NoneGuarded == \A t : guards[t] = <<>> => Guarded(t) = {}
BY DEF Guarded, ToSet

LEMMA BuildersStart == ChildrenInit => BuildersInv
<1> SUFFICES ASSUME ChildrenInit PROVE BuildersInv
    OBVIOUS
<1> USE StepsDiffer DEF ChildrenInit
<1>1. \A t \in Builders : at[t] = <<"idle">> /\ ~Inside(t) /\ guards[t] = <<>> /\ Guarded(t) = {}
    BY NoneGuarded DEF Inside
<1>2. BuilderTypes
    BY DEF BuilderTypes, Steps
<1>3. FlagsAreGuarded
    BY <1>1 DEF FlagsAreGuarded
<1>4. AloneIsAlone
    BY DEF AloneIsAlone
<1>5. PassedAreUp
    BY <1>1 DEF PassedAreUp
<1>6. CreatedInherit
    BY <1>1 DEF CreatedInherit
<1> QED
    BY <1>2, <1>3, <1>4, <1>5, <1>6 DEF BuildersInv

LEMMA BuildersRest == BuildersInv /\ UNCHANGED buildVars => BuildersInv'
<1> SUFFICES ASSUME BuildersInv, UNCHANGED buildVars PROVE BuildersInv'
    OBVIOUS
<1> USE DEF buildVars, BuildersInv
<1>1. BuilderTypes'
    BY DEF BuilderTypes
<1>2. FlagsAreGuarded'
    BY DEF FlagsAreGuarded, Guarded, Inside, Streams
<1>3. AloneIsAlone'
    BY DEF AloneIsAlone, Inside
<1>4. PassedAreUp'
    BY DEF PassedAreUp, Streams
<1>5. CreatedInherit'
    <2>1. \A u \in Builders : Streams(u)' = Streams(u)
        BY DEF Streams
    <2>2. UNION {Streams(u)' : u \in Builders} = UNION {Streams(u) : u \in Builders}
        BY <2>1
    <2> QED
        BY <2>1, <2>2 DEF CreatedInherit
<1> QED
    BY <1>1, <1>2, <1>3, <1>4, <1>5

LEMMA StreamsOf ==
    ASSUME BuilderTypes, NEW t \in Builders
    PROVE  /\ Streams(t) \subseteq Ours /\ \A i \in 1..3 : io[t][i] \in Streams(t) /\ io[t][i] \in Ours
           /\ \A h \in Streams(t) : \E i \in 1..3 : h = io[t][i]
BY DEF BuilderTypes, Redirects, Streams

\* A step of the constructor of one thread.
LEMMA OneGoes ==
    ASSUME BuilderTypes, NEW t \in Builders, NEW step \in Steps, Goes(t, step), UNCHANGED <<began, io>>
    PROVE  /\ at' \in [Builders -> Steps] /\ at'[t] = step
           /\ \A u \in Builders : u # t => at'[u] = at[u] /\ (Inside(u)' <=> Inside(u))
           /\ \A u \in Builders : Streams(u)' = Streams(u)
BY DEF BuilderTypes, Goes, Inside, Streams

LEMMA BeginKeeps ==
    ASSUME BuildersInv, NEW t \in Builders, Begin(t) PROVE BuildersInv'
<1> USE StepsDiffer
<1>1. /\ at[t] = <<"idle">> /\ Goes(t, <<"looks", 1>>)
      /\ UNCHANGED <<began, flag, io, guards, has, undone>>
      /\ LET others == {u \in Builders : Inside(u)}
         IN  alone' = IF others = {} THEN alone \cup {t} ELSE alone \ (others \cup {t})
    BY DEF Begin
<1>2. BuilderTypes /\ FlagsAreGuarded /\ AloneIsAlone /\ PassedAreUp /\ CreatedInherit
    BY DEF BuildersInv
<1>3. <<"looks", 1>> \in Steps
    BY DEF Steps
<1>4. /\ at' \in [Builders -> Steps] /\ at'[t] = <<"looks", 1>>
      /\ \A u \in Builders : u # t => at'[u] = at[u] /\ (Inside(u)' <=> Inside(u))
      /\ \A u \in Builders : Streams(u)' = Streams(u)
    BY <1>1, <1>2, <1>3, OneGoes
<1>5. BuilderTypes'
    BY <1>1, <1>2, <1>4 DEF BuilderTypes
<1>6. ~Inside(t) /\ Inside(t)' /\ t \notin undone
    BY <1>1, <1>2, <1>4 DEF Inside, AloneIsAlone
<1>7. \A u \in Builders : Guarded(u)' = Guarded(u)
    BY <1>1 DEF Guarded
<1>8. FlagsAreGuarded'
    BY <1>1, <1>2, <1>4, <1>6, <1>7 DEF FlagsAreGuarded
<1>9. AloneIsAlone'
    <2>1. CASE {u \in Builders : Inside(u)} = {}
        BY <2>1, <1>1, <1>2, <1>4, <1>6 DEF AloneIsAlone, BuilderTypes
    <2>2. CASE {u \in Builders : Inside(u)} # {}
        BY <2>2, <1>1, <1>2, <1>4, <1>6 DEF AloneIsAlone, BuilderTypes
    <2> QED
        BY <2>1, <2>2
<1>10. PassedAreUp'
    BY <1>1, <1>2, <1>4 DEF PassedAreUp
<1>11. CreatedInherit'
    <2>1. \A u \in Builders : u # t /\ u \in alone' => u \in alone
        BY <1>1
    <2>2. UNION {Streams(u)' : u \in Builders} = UNION {Streams(u) : u \in Builders}
        BY <1>4
    <2> QED
        BY <2>1, <2>2, <1>1, <1>2, <1>4 DEF CreatedInherit
<1> QED
    BY <1>5, <1>8, <1>9, <1>10, <1>11 DEF BuildersInv

\* A step that goes on inside the constructor, whatever it does to the flags.
LEMMA LookKeeps ==
    ASSUME BuildersInv, NEW t \in Builders, NEW i \in 1..3, Look(t, i) PROVE BuildersInv'
<1> USE StepsDiffer
<1> DEFINE next == IF io[t][i] \in flag THEN After(i) ELSE <<"raises", i>>
<1>1. /\ at[t] = <<"looks", i>> /\ Goes(t, next)
      /\ UNCHANGED <<began, flag, io, guards, has, alone, undone>>
    BY DEF Look
<1>2. BuilderTypes /\ FlagsAreGuarded /\ AloneIsAlone /\ PassedAreUp /\ CreatedInherit
    BY DEF BuildersInv
<1>3. next \in Steps /\ next \notin {<<"idle">>, <<"lowers">>, <<"throws">>, <<"done">>, <<"failed">>}
    BY DEF Steps, After
<1>4. /\ at' \in [Builders -> Steps] /\ at'[t] = next
      /\ \A u \in Builders : u # t => at'[u] = at[u] /\ (Inside(u)' <=> Inside(u))
      /\ \A u \in Builders : Streams(u)' = Streams(u)
    BY <1>1, <1>2, <1>3, OneGoes
<1>5. BuilderTypes'
    BY <1>1, <1>2, <1>4 DEF BuilderTypes
<1>6. Inside(t) /\ Inside(t)'
    BY <1>1, <1>3, <1>4 DEF Inside
<1>7. \A u \in Builders : Guarded(u)' = Guarded(u)
    BY <1>1 DEF Guarded
<1>8. FlagsAreGuarded'
    <2>1. \A j \in 1..3 : next = <<"raises", j>> => io[t][j] \notin began
        BY <1>2 DEF After, FlagsAreGuarded
    <2> HIDE DEF next
    <2>2. ASSUME NEW u \in Builders
          PROVE  /\ ~Inside(u)' => guards'[u] = <<>>
                 /\ \A j \in 1..3 : at'[u] = <<"raises", j>> => io[u][j] \notin began
        BY <2>1, <1>1, <1>2, <1>4, <1>6 DEF FlagsAreGuarded
    <2> QED
        BY <2>2, <1>1, <1>2, <1>4, <1>7 DEF FlagsAreGuarded
<1>9. AloneIsAlone'
    BY <1>1, <1>2, <1>3, <1>4, <1>6 DEF AloneIsAlone, BuilderTypes
<1>10. PassedAreUp'
    <2>1. ASSUME t \notin undone
          PROVE  /\ \A k \in 1..3 : next \in {<<"looks", k>>, <<"raises", k>>} =>
                        \A j \in 1..3 : j < k => io[t][j] \in flag
                 /\ next = <<"creates">> => Streams(t) \subseteq flag
        <3>1. \A j \in 1..3 : j < i => io[t][j] \in flag
            BY <2>1, <1>1, <1>2 DEF PassedAreUp
        <3>2. CASE io[t][i] \notin flag
            BY <3>1, <3>2
        <3>3. CASE io[t][i] \in flag /\ i = 3
            BY <3>1, <3>3, <1>2, StreamsOf DEF After
        <3>4. CASE io[t][i] \in flag /\ i # 3
            <4>1. next = <<"looks", i + 1>> /\ i + 1 \in 1..3
                BY <3>4 DEF After
            <4>2. \A j \in 1..3 : j < i + 1 => io[t][j] \in flag
                BY <3>1, <3>4
            <4> QED
                BY <4>1, <4>2
        <3> QED
            BY <3>2, <3>3, <3>4
    <2> HIDE DEF next
    <2> QED
        BY <2>1, <1>1, <1>2, <1>4 DEF PassedAreUp
<1>11. CreatedInherit'
    <2>1. UNION {Streams(u)' : u \in Builders} = UNION {Streams(u) : u \in Builders}
        BY <1>4
    <2> HIDE DEF next
    <2> QED
        BY <2>1, <1>1, <1>2, <1>3, <1>4 DEF CreatedInherit
<1> QED
    BY <1>5, <1>8, <1>9, <1>10, <1>11 DEF BuildersInv

LEMMA RaiseKeeps ==
    ASSUME BuildersInv, NEW t \in Builders, NEW i \in 1..3, Raise(t, i) PROVE BuildersInv'
<1> USE StepsDiffer
<1>1. /\ at[t] = <<"raises", i>> /\ Goes(t, After(i)) /\ flag' = flag \cup {io[t][i]}
      /\ guards' = [guards EXCEPT ![t] = Append(guards[t], io[t][i])]
      /\ UNCHANGED <<began, io, has, alone, undone>>
    BY DEF Raise
<1>2. BuilderTypes /\ FlagsAreGuarded /\ AloneIsAlone /\ PassedAreUp /\ CreatedInherit
    BY DEF BuildersInv
<1>3. /\ After(i) \in Steps
      /\ After(i) \notin {<<"idle">>, <<"lowers">>, <<"throws">>, <<"done">>, <<"failed">>}
      /\ \A j \in 1..3 : After(i) # <<"raises", j>>
    BY DEF Steps, After
<1>4. /\ at' \in [Builders -> Steps] /\ at'[t] = After(i)
      /\ \A u \in Builders : u # t => at'[u] = at[u] /\ (Inside(u)' <=> Inside(u))
      /\ \A u \in Builders : Streams(u)' = Streams(u)
    BY <1>1, <1>2, <1>3, OneGoes
<1>5. io[t][i] \in Ours /\ io[t][i] \in Streams(t) /\ io[t][i] \notin began
    BY <1>1, <1>2, StreamsOf DEF FlagsAreGuarded
<1>6. Inside(t) /\ Inside(t)'
    BY <1>1, <1>3, <1>4 DEF Inside
<1>7. /\ guards' \in [Builders -> Seq(Ours)] /\ Guarded(t)' = Guarded(t) \cup {io[t][i]}
      /\ \A u \in Builders : u # t => guards'[u] = guards[u] /\ Guarded(u)' = Guarded(u)
    <2>1. guards[t] \in Seq(Ours) /\ guards'[t] = Append(guards[t], io[t][i])
        BY <1>1, <1>2 DEF BuilderTypes
    <2>2. guards'[t] \in Seq(Ours) /\ ToSet(guards'[t]) = ToSet(guards[t]) \cup {io[t][i]}
        <3>1. /\ guards'[t] \in Seq(Ours) /\ Len(guards'[t]) = Len(guards[t]) + 1
              /\ guards'[t][Len(guards[t]) + 1] = io[t][i]
              /\ \A j \in 1..Len(guards[t]) : guards'[t][j] = guards[t][j]
            BY <2>1, <1>5
        <3>2. guards[t] \in Seq(Ours) /\ io[t][i] \in Ours
            BY <2>1, <1>5
        <3>3. ToSet(guards'[t]) = ToSet(guards[t]) \cup {io[t][i]}
            BY <3>1, <3>2, Longer, SMTT(30)
        <3> QED
            BY <3>1, <3>3
    <2> QED
        BY <2>2, <1>1, <1>2 DEF BuilderTypes, Guarded
<1>8. BuilderTypes'
    BY <1>1, <1>2, <1>4, <1>5, <1>7 DEF BuilderTypes
<1>9. FlagsAreGuarded'
    <2>1. ASSUME NEW h \in flag' PROVE h \in began \/ \E u \in Builders : h \in Guarded(u)'
        <3>1. CASE h = io[t][i]
            BY <3>1, <1>7
        <3>2. CASE h \in flag
            <4>1. h \in began \/ \E u \in Builders : h \in Guarded(u)
                BY <3>2, <1>2 DEF FlagsAreGuarded
            <4> QED
                BY <4>1, <1>7
        <3> QED
            BY <3>1, <3>2, <1>1
    <2>2. ASSUME NEW u \in Builders
          PROVE  /\ Guarded(u)' \subseteq Streams(u) \ began
                 /\ ~Inside(u)' => guards'[u] = <<>>
                 /\ \A j \in 1..3 : at'[u] = <<"raises", j>> => io[u][j] \notin began
        <3>1. CASE u = t
            BY <3>1, <1>2, <1>3, <1>4, <1>5, <1>6, <1>7 DEF FlagsAreGuarded
        <3>2. CASE u # t
            BY <3>2, <1>2, <1>4, <1>7 DEF FlagsAreGuarded
        <3> QED
            BY <3>1, <3>2
    <2>3. began \subseteq flag'
        BY <1>1, <1>2 DEF FlagsAreGuarded
    <2> QED
        BY <2>1, <2>2, <2>3, <1>1, <1>4 DEF FlagsAreGuarded
<1>10. AloneIsAlone'
    BY <1>1, <1>2, <1>3, <1>4, <1>6 DEF AloneIsAlone, BuilderTypes
<1>11. PassedAreUp'
    <2>1. ASSUME t \notin undone
          PROVE  /\ \A k \in 1..3 : After(i) \in {<<"looks", k>>, <<"raises", k>>} =>
                        \A j \in 1..3 : j < k => io[t][j] \in flag'
                 /\ After(i) = <<"creates">> => Streams(t) \subseteq flag'
        <3>1. \A j \in 1..3 : j < i => io[t][j] \in flag
            BY <2>1, <1>1, <1>2 DEF PassedAreUp
        <3>2. \A j \in 1..3 : j < i + 1 => io[t][j] \in flag'
            BY <3>1, <1>1
        <3>3. CASE i = 3
            BY <3>2, <3>3, <1>2, StreamsOf DEF After
        <3>4. CASE i # 3
            <4>1. After(i) = <<"looks", i + 1>> /\ i + 1 \in 1..3
                BY <3>4 DEF After
            <4> QED
                BY <4>1, <3>2
        <3> QED
            BY <3>3, <3>4
    <2>2. flag \subseteq flag'
        BY <1>1
    <2> QED
        BY <2>1, <2>2, <1>1, <1>2, <1>4 DEF PassedAreUp
<1>12. CreatedInherit'
    <2>1. UNION {Streams(u)' : u \in Builders} = UNION {Streams(u) : u \in Builders}
        BY <1>4
    <2> QED
        BY <2>1, <1>1, <1>2, <1>3, <1>4 DEF CreatedInherit
<1> QED
    BY <1>8, <1>9, <1>10, <1>11, <1>12 DEF BuildersInv

LEMMA CreateKeeps ==
    ASSUME BuildersInv, NEW t \in Builders, Create(t) PROVE BuildersInv'
<1> USE StepsDiffer
<1>1. /\ at[t] = <<"creates">> /\ Goes(t, <<"lowers">>) /\ has' = [has EXCEPT ![t] = flag]
      /\ UNCHANGED <<began, flag, io, guards, alone, undone>>
    BY DEF Create
<1>2. BuilderTypes /\ FlagsAreGuarded /\ AloneIsAlone /\ PassedAreUp /\ CreatedInherit
    BY DEF BuildersInv
<1>3. <<"lowers">> \in Steps
    BY DEF Steps
<1>4. /\ at' \in [Builders -> Steps] /\ at'[t] = <<"lowers">>
      /\ \A u \in Builders : u # t => at'[u] = at[u] /\ (Inside(u)' <=> Inside(u))
      /\ \A u \in Builders : Streams(u)' = Streams(u)
    BY <1>1, <1>2, <1>3, OneGoes
<1>5. BuilderTypes'
    BY <1>1, <1>2, <1>4 DEF BuilderTypes
<1>6. Inside(t) /\ Inside(t)'
    BY <1>1, <1>4 DEF Inside
<1>7. \A u \in Builders : Guarded(u)' = Guarded(u)
    BY <1>1 DEF Guarded
<1>8. FlagsAreGuarded'
    BY <1>1, <1>2, <1>4, <1>6, <1>7 DEF FlagsAreGuarded
<1>9. AloneIsAlone'
    BY <1>1, <1>2, <1>4, <1>6 DEF AloneIsAlone, BuilderTypes
<1>10. PassedAreUp'
    BY <1>1, <1>2, <1>4 DEF PassedAreUp
<1>11. CreatedInherit'
    <2>1. Streams(t) \subseteq flag \/ t \in undone
        BY <1>1, <1>2 DEF PassedAreUp
    <2>2. flag \subseteq began \cup UNION {Streams(u) : u \in Builders}
        BY <1>2 DEF FlagsAreGuarded
    <2>3. ASSUME t \in alone PROVE flag = began \cup Streams(t)
        <3>1. t \notin undone /\ \A u \in Builders \ {t} : ~Inside(u)
            BY <2>3, <1>2, <1>6 DEF AloneIsAlone
        <3>2. \A u \in Builders \ {t} : Guarded(u) = {}
            BY <3>1, <1>2, NoneGuarded DEF FlagsAreGuarded
        <3>3. flag \subseteq began \cup Streams(t)
            BY <3>2, <1>2 DEF FlagsAreGuarded
        <3> QED
            BY <3>1, <3>3, <2>1, <1>2 DEF FlagsAreGuarded
    <2>4. UNION {Streams(u)' : u \in Builders} = UNION {Streams(u) : u \in Builders}
        BY <1>4
    <2>5. has'[t] = flag /\ \A u \in Builders : u # t => has'[u] = has[u]
        BY <1>1, <1>2 DEF BuilderTypes
    <2>6. ASSUME NEW u \in Builders, at'[u] \in {<<"lowers">>, <<"done">>}
          PROVE  /\ u \in alone => has'[u] = began \cup Streams(u)
                 /\ has'[u] \subseteq began \cup UNION {Streams(v) : v \in Builders}
                 /\ Streams(u) \subseteq has'[u] \/ u \in undone
        <3>1. CASE u = t
            BY <3>1, <2>1, <2>2, <2>3, <2>5
        <3>2. CASE u # t
            BY <3>2, <2>5, <2>6, <1>2, <1>4 DEF CreatedInherit
        <3> QED
            BY <3>1, <3>2
    <2> QED
        BY <2>4, <2>6, <1>1, <1>4 DEF CreatedInherit
<1> QED
    BY <1>5, <1>8, <1>9, <1>10, <1>11 DEF BuildersInv

LEMMA ThrowsKeeps ==
    ASSUME BuildersInv, NEW t \in Builders, Throws(t) PROVE BuildersInv'
<1> USE StepsDiffer
<1>1. /\ Inside(t) /\ Goes(t, <<"throws">>)
      /\ UNCHANGED <<began, flag, io, guards, has, alone, undone>>
    BY DEF Throws, Before
<1>2. BuilderTypes /\ FlagsAreGuarded /\ AloneIsAlone /\ PassedAreUp /\ CreatedInherit
    BY DEF BuildersInv
<1>3. <<"throws">> \in Steps
    BY DEF Steps
<1>4. /\ at' \in [Builders -> Steps] /\ at'[t] = <<"throws">>
      /\ \A u \in Builders : u # t => at'[u] = at[u] /\ (Inside(u)' <=> Inside(u))
      /\ \A u \in Builders : Streams(u)' = Streams(u)
    BY <1>1, <1>2, <1>3, OneGoes
<1>5. BuilderTypes'
    BY <1>1, <1>2, <1>4 DEF BuilderTypes
<1>6. Inside(t)'
    BY <1>4 DEF Inside
<1>7. \A u \in Builders : Guarded(u)' = Guarded(u)
    BY <1>1 DEF Guarded
<1>8. FlagsAreGuarded'
    BY <1>1, <1>2, <1>4, <1>6, <1>7 DEF FlagsAreGuarded
<1>9. AloneIsAlone'
    BY <1>1, <1>2, <1>4, <1>6 DEF AloneIsAlone, BuilderTypes
<1>10. PassedAreUp'
    BY <1>1, <1>2, <1>4 DEF PassedAreUp
<1>11. CreatedInherit'
    <2>1. UNION {Streams(u)' : u \in Builders} = UNION {Streams(u) : u \in Builders}
        BY <1>4
    <2> QED
        BY <2>1, <1>1, <1>2, <1>4 DEF CreatedInherit
<1> QED
    BY <1>5, <1>8, <1>9, <1>10, <1>11 DEF BuildersInv

\* A guard lowers the last flag: another constructor that needs it is undone.
LEMMA LowerOneKeeps ==
    ASSUME BuildersInv, NEW t \in Builders, Lower(t), guards[t] # <<>> PROVE BuildersInv'
<1> USE StepsDiffer
<1>1. PICK h : h = Last(guards[t])
    OBVIOUS
<1>2. /\ at[t] \in {<<"lowers">>, <<"throws">>} /\ flag' = flag \ {h}
      /\ guards' = [guards EXCEPT ![t] = Front(guards[t])]
      /\ undone' = undone \cup {u \in Builders \ {t} : Before(u) /\ h \in Streams(u)}
      /\ UNCHANGED <<at, began, io, has, alone>>
    BY <1>1 DEF Lower
<1>3. BuilderTypes /\ FlagsAreGuarded /\ AloneIsAlone /\ PassedAreUp /\ CreatedInherit
    BY DEF BuildersInv
<1>4. \A u \in Builders : Streams(u)' = Streams(u) /\ (Inside(u)' <=> Inside(u))
    BY <1>2 DEF Streams, Inside
<1>5. /\ guards' \in [Builders -> Seq(Ours)] /\ h \in Guarded(t)
      /\ Guarded(t)' \subseteq Guarded(t) /\ Guarded(t) \subseteq Guarded(t)' \cup {h}
      /\ \A u \in Builders : u # t => guards'[u] = guards[u] /\ Guarded(u)' = Guarded(u)
    <2>1. guards[t] \in Seq(Ours) /\ guards'[t] = Front(guards[t])
        BY <1>2, <1>3 DEF BuilderTypes
    <2>2. /\ guards'[t] \in Seq(Ours) /\ h \in ToSet(guards[t])
          /\ ToSet(guards'[t]) \subseteq ToSet(guards[t])
          /\ ToSet(guards[t]) \subseteq ToSet(guards'[t]) \cup {h}
        BY <2>1, <1>1, Shorter
    <2> QED
        BY <2>2, <1>2, <1>3 DEF BuilderTypes, Guarded
<1>6. Inside(t) /\ h \notin began
    BY <1>2, <1>3, <1>5 DEF Inside, FlagsAreGuarded
<1>7. BuilderTypes'
    BY <1>2, <1>3, <1>5 DEF BuilderTypes
<1>8. FlagsAreGuarded'
    <2>1. ASSUME NEW g \in flag' PROVE g \in began \/ \E u \in Builders : g \in Guarded(u)'
        <3>1. g # h /\ (g \in began \/ \E u \in Builders : g \in Guarded(u))
            BY <1>2, <1>3 DEF FlagsAreGuarded
        <3> QED
            BY <3>1, <1>5
    <2>2. ASSUME NEW u \in Builders
          PROVE  /\ Guarded(u)' \subseteq Streams(u) \ began
                 /\ ~Inside(u)' => guards'[u] = <<>>
                 /\ \A j \in 1..3 : at'[u] = <<"raises", j>> => io[u][j] \notin began
        <3>1. CASE u = t
            BY <3>1, <1>2, <1>3, <1>4, <1>5, <1>6 DEF FlagsAreGuarded
        <3>2. CASE u # t
            BY <3>2, <1>2, <1>3, <1>4, <1>5 DEF FlagsAreGuarded
        <3> QED
            BY <3>1, <3>2
    <2>3. began \subseteq flag'
        BY <1>2, <1>3, <1>6 DEF FlagsAreGuarded
    <2> QED
        BY <2>1, <2>2, <2>3, <1>2, <1>4 DEF FlagsAreGuarded
<1>9. AloneIsAlone'
    <2>1. ASSUME NEW u \in Builders \ {t}, Before(u) PROVE at[u] # <<"idle">> /\ u \notin alone
        BY <2>1, <1>3, <1>6 DEF Before, Inside, AloneIsAlone
    <2> QED
        BY <2>1, <1>2, <1>3, <1>4 DEF AloneIsAlone, BuilderTypes
<1>10. PassedAreUp'
    <2>1. ASSUME NEW u \in Builders, u \notin undone', NEW g \in Streams(u), g \in flag, Before(u)
          PROVE  g \in flag'
        BY <2>1, <1>2 DEF Before
    <2>2. \A u \in Builders, i \in 1..3 :
                at[u] \in {<<"looks", i>>, <<"raises", i>>, <<"creates">>} => Before(u)
        BY DEF Before, Inside
    <2>3. undone \subseteq undone'
        BY <1>2
    <2>4. ASSUME NEW u \in Builders, u \notin undone'
          PROVE  /\ \A i \in 1..3 : at[u] \in {<<"looks", i>>, <<"raises", i>>} =>
                        \A j \in 1..3 : j < i => io[u][j] \in flag'
                 /\ at[u] = <<"creates">> => Streams(u) \subseteq flag'
        BY <2>1, <2>2, <2>3, <2>4, <1>3, StreamsOf DEF PassedAreUp
    <2> QED
        BY <2>4, <1>2, <1>4 DEF PassedAreUp
<1>11. CreatedInherit'
    <2>1. UNION {Streams(u)' : u \in Builders} = UNION {Streams(u) : u \in Builders}
        BY <1>4
    <2> QED
        BY <2>1, <1>2, <1>3, <1>4 DEF CreatedInherit
<1> QED
    BY <1>7, <1>8, <1>9, <1>10, <1>11 DEF BuildersInv

LEMMA LowerLastKeeps ==
    ASSUME BuildersInv, NEW t \in Builders, Lower(t), guards[t] = <<>> PROVE BuildersInv'
<1> USE StepsDiffer
<1> DEFINE next == IF at[t] = <<"lowers">> THEN <<"done">> ELSE <<"failed">>
<1>1. /\ at[t] \in {<<"lowers">>, <<"throws">>} /\ Goes(t, next)
      /\ UNCHANGED <<began, flag, io, guards, has, alone, undone>>
    BY DEF Lower
<1>2. BuilderTypes /\ FlagsAreGuarded /\ AloneIsAlone /\ PassedAreUp /\ CreatedInherit
    BY DEF BuildersInv
<1>3. /\ next \in Steps /\ next \in {<<"done">>, <<"failed">>}
      /\ next = <<"done">> => at[t] = <<"lowers">>
    BY DEF Steps
<1> HIDE DEF next
<1>4. /\ at' \in [Builders -> Steps] /\ at'[t] = next
      /\ \A u \in Builders : u # t => at'[u] = at[u] /\ (Inside(u)' <=> Inside(u))
      /\ \A u \in Builders : Streams(u)' = Streams(u)
    BY <1>1, <1>2, <1>3, OneGoes
<1>5. BuilderTypes'
    BY <1>1, <1>2, <1>4 DEF BuilderTypes
<1>6. ~Inside(t)'
    BY <1>3, <1>4 DEF Inside
<1>7. \A u \in Builders : Guarded(u)' = Guarded(u)
    BY <1>1 DEF Guarded
<1>8. FlagsAreGuarded'
    <2>1. ASSUME NEW u \in Builders
          PROVE  /\ ~Inside(u)' => guards'[u] = <<>>
                 /\ \A j \in 1..3 : at'[u] = <<"raises", j>> => io[u][j] \notin began
        BY <1>1, <1>2, <1>3, <1>4 DEF FlagsAreGuarded
    <2> QED
        BY <2>1, <1>1, <1>2, <1>4, <1>7 DEF FlagsAreGuarded
<1>9. AloneIsAlone'
    BY <1>1, <1>2, <1>3, <1>4, <1>6 DEF AloneIsAlone, BuilderTypes
<1>10. PassedAreUp'
    BY <1>1, <1>2, <1>3, <1>4 DEF PassedAreUp
<1>11. CreatedInherit'
    <2>1. UNION {Streams(u)' : u \in Builders} = UNION {Streams(u) : u \in Builders}
        BY <1>4
    <2> QED
        BY <2>1, <1>1, <1>2, <1>3, <1>4 DEF CreatedInherit
<1> QED
    BY <1>5, <1>8, <1>9, <1>10, <1>11 DEF BuildersInv

LEMMA BuildersStep == BuildersInv /\ [ChildrenNext]_pVars => BuildersInv'
<1> SUFFICES ASSUME BuildersInv, [ChildrenNext]_pVars PROVE BuildersInv'
    OBVIOUS
<1>1. ASSUME NEW t \in Builders, Lower(t) PROVE BuildersInv'
    BY <1>1, LowerOneKeeps, LowerLastKeeps
<1>2. ASSUME NEW t \in Builders,
             \/ Begin(t) \/ Create(t) \/ Throws(t) \/ Lower(t)
             \/ \E i \in 1 .. 3 : Look(t, i) \/ Raise(t, i)
      PROVE  BuildersInv'
    BY <1>1, <1>2, BeginKeeps, CreateKeeps, ThrowsKeeps, LookKeeps, RaiseKeeps
<1>3. ASSUME NEW t \in Builders, ChildEnds(t) PROVE UNCHANGED buildVars
    BY <1>3 DEF ChildEnds
<1>4. ASSUME NEW p \in Holders,
             \/ Detach(p) \/ Join(p) \/ DestroyProcess(p)
             \/ \E r \in Holders : MoveProcess(p, r) \/ AssignProcess(p, r)
      PROVE  UNCHANGED buildVars
    BY <1>4 DEF Detach, Join, DestroyProcess, MoveProcess, AssignProcess
<1>5. CASE UNCHANGED pVars
    BY <1>5, BuildersRest DEF pVars, buildVars
<1> QED
    BY <1>2, <1>3, <1>4, <1>5, BuildersRest DEF ChildrenNext

LEMMA BuildersInOrder == BuildersInv => FlagsComeBack /\ ChildrenInherit
<1> SUFFICES ASSUME BuildersInv PROVE FlagsComeBack /\ ChildrenInherit
    OBVIOUS
<1>1. FlagsAreGuarded /\ CreatedInherit
    BY DEF BuildersInv
<1>2. ASSUME \A t \in Builders : ~Inside(t) PROVE flag = began
    BY <1>1, <1>2, NoneGuarded DEF FlagsAreGuarded
<1> QED
    BY <1>1, <1>2 DEF FlagsComeBack, FlagsAreGuarded, ChildrenInherit, CreatedInherit

\* The objects: each number stands for what one object has.
Infos == {NoProcess} \cup [process : Numbers \cup {0}, thread : Numbers \cup {0}]
Things == {Nothing} \cup [of : Builders, part : {"process", "thread"}]
PartsOf(pi, p) == {pi[p].process, pi[p].thread} \cap Numbers

Fits(pi, wh) ==
    /\ \A p \in Holders :
        /\ pi[p].process \in Numbers => wh[pi[p].process].part = "process"
        /\ pi[p].thread \in Numbers => wh[pi[p].thread].part = "thread"
    /\ \A n \in Numbers : wh[n] # Nothing => \E p \in Holders : n \in PartsOf(pi, p)
    /\ \A p, r \in Holders : p # r => PartsOf(pi, p) \cap PartsOf(pi, r) = {}

\* A child that nobody waited for and nobody detached is still somebody's.
LiveAreKept ==
    jn => \A t \in Builders : at[t] \in {<<"lowers">>, <<"done">>} /\ t \notin ended \cup left =>
              \E n \in Numbers : what[n] = [of |-> t, part |-> "process"]

ObjectsInv ==
    /\ at \in [Builders -> Steps]
    /\ pinfo \in [Holders -> Infos] /\ what \in [Numbers -> Things]
    /\ Fits(pinfo, what)
    /\ LiveAreKept

LEMMA NoNumbers == 0 \notin Numbers /\ -1 \notin Numbers
BY NumbersAssumption

LEMMA InfoParts ==
    /\ Nobody \in Infos /\ NoProcess \in Infos
    /\ Nobody.process = 0 /\ Nobody.thread = 0
    /\ NoProcess.process = -1 /\ NoProcess.thread = -1
    /\ Nothing \in Things /\ Nothing.part = "none"
BY DEF Infos, Things, Nobody, NoProcess, Nothing

LEMMA ThingParts == \A x \in Things : x # Nothing <=> x.part \in {"process", "thread"}
BY DEF Things, Nothing

LEMMA FitsNew ==
    ASSUME NEW pi \in [Holders -> Infos], NEW wh \in [Numbers -> Things], Fits(pi, wh),
           NEW p \in Holders, pi[p] = NoProcess, NEW t \in Builders,
           NEW n \in Numbers, NEW m \in Numbers, n # m, wh[n] = Nothing, wh[m] = Nothing
    PROVE  Fits([pi EXCEPT ![p] = [process |-> n, thread |-> m]],
                [wh EXCEPT ![n] = [of |-> t, part |-> "process"], ![m] = [of |-> t, part |-> "thread"]])
<1> DEFINE pn == [pi EXCEPT ![p] = [process |-> n, thread |-> m]]
           wn == [wh EXCEPT ![n] = [of |-> t, part |-> "process"], ![m] = [of |-> t, part |-> "thread"]]
<1>1. /\ pn[p].process = n /\ pn[p].thread = m
      /\ \A r \in Holders : r # p => pn[r] = pi[r]
    OBVIOUS
<1>2. /\ wn[n] = [of |-> t, part |-> "process"] /\ wn[m] = [of |-> t, part |-> "thread"]
      /\ \A k \in Numbers : k \notin {n, m} => wn[k] = wh[k]
    OBVIOUS
<1> HIDE DEF pn, wn
<1>3. PartsOf(pn, p) = {n, m} /\ PartsOf(pi, p) = {}
    BY <1>1, NoNumbers, InfoParts DEF PartsOf
<1>4. \A r \in Holders : r # p => PartsOf(pn, r) = PartsOf(pi, r)
    BY <1>1 DEF PartsOf
<1>5. \A r \in Holders, k \in Numbers : k \in PartsOf(pi, r) => k \notin {n, m}
    BY InfoParts DEF Fits, PartsOf
<1>6. ASSUME NEW r \in Holders
      PROVE  /\ pn[r].process \in Numbers => wn[pn[r].process].part = "process"
             /\ pn[r].thread \in Numbers => wn[pn[r].thread].part = "thread"
    <2>1. CASE r = p
        BY <2>1, <1>1, <1>2
    <2>2. CASE r # p
        BY <2>2, <1>1, <1>2, <1>5 DEF Fits, PartsOf
    <2> QED
        BY <2>1, <2>2
<1>7. ASSUME NEW k \in Numbers, wn[k] # Nothing PROVE \E r \in Holders : k \in PartsOf(pn, r)
    <2>1. CASE k \in {n, m}
        BY <2>1, <1>3
    <2>2. CASE k \notin {n, m}
        BY <2>2, <1>2, <1>3, <1>4, <1>7 DEF Fits
    <2> QED
        BY <2>1, <2>2
<1>8. ASSUME NEW q \in Holders, NEW r \in Holders, q # r
      PROVE  PartsOf(pn, q) \cap PartsOf(pn, r) = {}
    <2>1. \A s \in Holders : PartsOf(pi, s) \subseteq Numbers
        BY DEF PartsOf
    <2> QED
        BY <2>1, <1>3, <1>4, <1>5, <1>8 DEF Fits
<1> QED
    BY <1>6, <1>7, <1>8 DEF Fits, pn, wn

\* An object without a process: its numbers are closed.
LEMMA FitsClosed ==
    ASSUME NEW pi \in [Holders -> Infos], NEW wh \in [Numbers -> Things], Fits(pi, wh),
           NEW p \in Holders, NEW x \in {Nobody, NoProcess}
    PROVE  Fits([pi EXCEPT ![p] = x],
                [n \in Numbers |-> IF n \in {pi[p].process, pi[p].thread} THEN Nothing ELSE wh[n]])
<1> DEFINE pn == [pi EXCEPT ![p] = x]
           wn == [n \in Numbers |-> IF n \in {pi[p].process, pi[p].thread} THEN Nothing ELSE wh[n]]
<1>1. pn[p] = x /\ \A r \in Holders : r # p => pn[r] = pi[r]
    OBVIOUS
<1>2. \A k \in Numbers : IF k \in PartsOf(pi, p) THEN wn[k] = Nothing ELSE wn[k] = wh[k]
    BY DEF PartsOf
<1> HIDE DEF pn, wn
<1>3. PartsOf(pn, p) = {}
    BY <1>1, NoNumbers, InfoParts DEF PartsOf
<1>4. \A r \in Holders : r # p => PartsOf(pn, r) = PartsOf(pi, r)
    BY <1>1 DEF PartsOf
<1>5. \A r \in Holders : r # p => PartsOf(pi, r) \cap PartsOf(pi, p) = {}
    BY DEF Fits
<1>6. ASSUME NEW r \in Holders
      PROVE  /\ pn[r].process \in Numbers => wn[pn[r].process].part = "process"
             /\ pn[r].thread \in Numbers => wn[pn[r].thread].part = "thread"
    <2>1. CASE r = p
        BY <2>1, <1>1, NoNumbers, InfoParts
    <2>2. CASE r # p
        <3>1. pn[r].process \in Numbers => pn[r].process \in PartsOf(pi, r)
            BY <2>2, <1>1 DEF PartsOf
        <3>2. pn[r].thread \in Numbers => pn[r].thread \in PartsOf(pi, r)
            BY <2>2, <1>1 DEF PartsOf
        <3> QED
            BY <2>2, <3>1, <3>2, <1>1, <1>2, <1>5 DEF Fits
    <2> QED
        BY <2>1, <2>2
<1>7. ASSUME NEW k \in Numbers, wn[k] # Nothing PROVE \E r \in Holders : k \in PartsOf(pn, r)
    BY <1>2, <1>4, <1>7 DEF Fits
<1>8. ASSUME NEW q \in Holders, NEW r \in Holders, q # r
      PROVE  PartsOf(pn, q) \cap PartsOf(pn, r) = {}
    BY <1>3, <1>4, <1>8 DEF Fits
<1> QED
    BY <1>6, <1>7, <1>8 DEF Fits, pn, wn

\* join() closes the process and leaves the thread.
LEMMA FitsJoined ==
    ASSUME NEW pi \in [Holders -> Infos], NEW wh \in [Numbers -> Things], Fits(pi, wh),
           NEW p \in Holders, pi[p].process \in Numbers
    PROVE  Fits([pi EXCEPT ![p].process = 0], [wh EXCEPT ![pi[p].process] = Nothing])
<1> DEFINE pn == [pi EXCEPT ![p].process = 0]
           wn == [wh EXCEPT ![pi[p].process] = Nothing]
<1>0. pi[p] \in [process : Numbers \cup {0}, thread : Numbers \cup {0}]
    BY NoNumbers, InfoParts DEF Infos
<1>1. /\ pn[p].process = 0 /\ pn[p].thread = pi[p].thread
      /\ \A r \in Holders : r # p => pn[r] = pi[r]
    BY <1>0
<1>2. \A k \in Numbers : IF k = pi[p].process THEN wn[k] = Nothing ELSE wn[k] = wh[k]
    OBVIOUS
<1> HIDE DEF pn, wn
<1>3. /\ pi[p].thread # pi[p].process
      /\ PartsOf(pn, p) = PartsOf(pi, p) \ {pi[p].process}
    BY <1>1, NoNumbers DEF PartsOf, Fits
<1>4. \A r \in Holders : r # p => PartsOf(pn, r) = PartsOf(pi, r)
    BY <1>1 DEF PartsOf
<1>5. /\ pi[p].process \in PartsOf(pi, p)
      /\ \A r \in Holders : r # p => pi[p].process \notin PartsOf(pi, r)
    BY DEF Fits, PartsOf
<1>6. ASSUME NEW r \in Holders
      PROVE  /\ pn[r].process \in Numbers => wn[pn[r].process].part = "process"
             /\ pn[r].thread \in Numbers => wn[pn[r].thread].part = "thread"
    <2>1. CASE r = p
        BY <2>1, <1>1, <1>2, <1>3, NoNumbers DEF Fits
    <2>2. CASE r # p
        <3>1. pn[r].process \in Numbers => pn[r].process \in PartsOf(pi, r)
            BY <2>2, <1>1 DEF PartsOf
        <3>2. pn[r].thread \in Numbers => pn[r].thread \in PartsOf(pi, r)
            BY <2>2, <1>1 DEF PartsOf
        <3> QED
            BY <2>2, <3>1, <3>2, <1>1, <1>2, <1>5 DEF Fits
    <2> QED
        BY <2>1, <2>2
<1>7. ASSUME NEW k \in Numbers, wn[k] # Nothing PROVE \E r \in Holders : k \in PartsOf(pn, r)
    BY <1>2, <1>3, <1>4, <1>7 DEF Fits
<1>8. ASSUME NEW q \in Holders, NEW r \in Holders, q # r
      PROVE  PartsOf(pn, q) \cap PartsOf(pn, r) = {}
    BY <1>3, <1>4, <1>8 DEF Fits
<1> QED
    BY <1>6, <1>7, <1>8 DEF Fits, pn, wn

\* A move hands on what an object has to one that has nothing.
LEMMA FitsHanded ==
    ASSUME NEW pi \in [Holders -> Infos], NEW wh \in [Numbers -> Things], Fits(pi, wh),
           NEW p \in Holders, NEW r \in Holders, p # r, PartsOf(pi, p) = {}
    PROVE  Fits([pi EXCEPT ![p] = pi[r], ![r] = Nobody], wh)
<1> DEFINE pn == [pi EXCEPT ![p] = pi[r], ![r] = Nobody]
<1>1. pn[p] = pi[r] /\ pn[r] = Nobody /\ \A q \in Holders : q \notin {p, r} => pn[q] = pi[q]
    OBVIOUS
<1> HIDE DEF pn
<1>2. /\ PartsOf(pn, p) = PartsOf(pi, r) /\ PartsOf(pn, r) = {}
      /\ \A q \in Holders : q \notin {p, r} => PartsOf(pn, q) = PartsOf(pi, q)
    BY <1>1, NoNumbers, InfoParts DEF PartsOf
<1>3. ASSUME NEW q \in Holders
      PROVE  /\ pn[q].process \in Numbers => wh[pn[q].process].part = "process"
             /\ pn[q].thread \in Numbers => wh[pn[q].thread].part = "thread"
    BY <1>1, NoNumbers, InfoParts DEF Fits
<1>4. ASSUME NEW k \in Numbers, wh[k] # Nothing PROVE \E q \in Holders : k \in PartsOf(pn, q)
    <2>1. PICK q \in Holders : k \in PartsOf(pi, q)
        BY <1>4 DEF Fits
    <2> QED
        BY <2>1, <1>2
<1>5. ASSUME NEW q \in Holders, NEW s \in Holders, q # s
      PROVE  PartsOf(pn, q) \cap PartsOf(pn, s) = {}
    BY <1>2, <1>5 DEF Fits
<1> QED
    BY <1>3, <1>4, <1>5 DEF Fits, pn

LEMMA ObjectsStart == ChildrenInit => ObjectsInv
<1> SUFFICES ASSUME ChildrenInit PROVE ObjectsInv
    OBVIOUS
<1>1. /\ \A p \in Holders : pinfo[p] = NoProcess /\ PartsOf(pinfo, p) = {}
      /\ \A n \in Numbers : what[n] = Nothing
      /\ \A t \in Builders : at[t] = <<"idle">>
    BY NoNumbers, InfoParts DEF ChildrenInit, PartsOf
<1>2. Fits(pinfo, what)
    BY <1>1, NoNumbers, InfoParts DEF Fits
<1>3. LiveAreKept
    BY <1>1, StepsDiffer DEF LiveAreKept
<1>4. at \in [Builders -> Steps] /\ pinfo \in [Holders -> Infos] /\ what \in [Numbers -> Things]
    BY InfoParts DEF ChildrenInit, Steps, Infos, Things
<1> QED
    BY <1>2, <1>3, <1>4 DEF ObjectsInv

\* A number closed was nobody's process, or the child's that may be let go.
LEMMA KeptWithout ==
    ASSUME LiveAreKept, at' = at, jn' = jn, ended \subseteq ended', left \subseteq left',
           \A n \in Numbers : what'[n] = what[n] \/ what[n].part # "process"
                              \/ (jn => what[n].of \in ended' \cup left')
    PROVE  LiveAreKept'
<1> SUFFICES ASSUME jn, NEW t \in Builders, at[t] \in {<<"lowers">>, <<"done">>},
                    t \notin ended' \cup left'
             PROVE  \E n \in Numbers : what'[n] = [of |-> t, part |-> "process"]
    BY DEF LiveAreKept
<1>1. PICK n \in Numbers : what[n] = [of |-> t, part |-> "process"]
    BY DEF LiveAreKept
<1>2. what'[n] = what[n]
    BY <1>1
<1> QED
    BY <1>1, <1>2

LEMMA ProcessOf ==
    ASSUME ObjectsInv, NEW p \in Holders, IsProcess(p)
    PROVE  /\ pinfo[p].process \in Numbers \cup {0} /\ pinfo[p].thread \in Numbers \cup {0}
           /\ pinfo[p].thread \in Numbers => what[pinfo[p].thread].part = "thread"
BY DEF ObjectsInv, IsProcess, Infos, Fits

\* A step of a constructor that creates nothing.
LEMMA KeptOnTheWay ==
    ASSUME ObjectsInv, NEW t \in Builders, NEW step \in Steps, Goes(t, step),
           UNCHANGED objVars,
           step \in {<<"lowers">>, <<"done">>} => at[t] \in {<<"lowers">>, <<"done">>}
    PROVE  ObjectsInv'
<1>1. /\ at' \in [Builders -> Steps] /\ at'[t] = step
      /\ \A u \in Builders : u # t => at'[u] = at[u]
    BY DEF ObjectsInv, Goes
<1>2. UNCHANGED <<pinfo, what, jn, ended, left>>
    BY DEF objVars
<1>3. LiveAreKept'
    BY <1>1, <1>2 DEF ObjectsInv, LiveAreKept
<1>4. Fits(pinfo, what)'
    BY <1>2 DEF ObjectsInv, Fits, PartsOf
<1> QED
    BY <1>1, <1>2, <1>3, <1>4 DEF ObjectsInv

LEMMA ConstructorKeeps ==
    ASSUME ObjectsInv, NEW t \in Builders,
           \/ Begin(t) \/ Throws(t) \/ Lower(t)
           \/ \E i \in 1 .. 3 : Look(t, i) \/ Raise(t, i)
    PROVE  ObjectsInv'
<1> USE StepsDiffer
<1>1. CASE Begin(t)
    <2>1. Goes(t, <<"looks", 1>>) /\ UNCHANGED objVars
        BY <1>1 DEF Begin
    <2> QED
        BY <2>1, KeptOnTheWay DEF Steps
<1>2. CASE Throws(t)
    <2>1. Goes(t, <<"throws">>) /\ UNCHANGED objVars
        BY <1>2 DEF Throws
    <2> QED
        BY <2>1, KeptOnTheWay DEF Steps
<1>3. CASE Lower(t)
    <2>1. CASE guards[t] # <<>>
        <3>1. UNCHANGED <<at, pinfo, what, jn, ended, left>>
            BY <1>3, <2>1 DEF Lower, objVars
        <3> QED
            BY <3>1 DEF ObjectsInv, Fits, PartsOf, LiveAreKept
    <2>2. CASE guards[t] = <<>>
        <3> DEFINE next == IF at[t] = <<"lowers">> THEN <<"done">> ELSE <<"failed">>
        <3>1. Goes(t, next) /\ UNCHANGED objVars
            BY <1>3, <2>2 DEF Lower
        <3>2. next \in Steps /\ (next \in {<<"lowers">>, <<"done">>} => at[t] \in {<<"lowers">>, <<"done">>})
            BY DEF Steps
        <3> HIDE DEF next
        <3> QED
            BY <3>1, <3>2, KeptOnTheWay
    <2> QED
        BY <2>1, <2>2
<1>4. ASSUME NEW i \in 1..3 PROVE After(i) \in Steps \ {<<"lowers">>, <<"done">>}
    BY DEF After, Steps
<1>5. ASSUME NEW i \in 1..3, Look(t, i) PROVE ObjectsInv'
    <2> DEFINE next == IF io[t][i] \in flag THEN After(i) ELSE <<"raises", i>>
    <2>1. Goes(t, next) /\ UNCHANGED objVars
        BY <1>5 DEF Look
    <2>2. next \in Steps \ {<<"lowers">>, <<"done">>}
        BY <1>4 DEF Steps
    <2> HIDE DEF next
    <2> QED
        BY <2>1, <2>2, KeptOnTheWay
<1>6. ASSUME NEW i \in 1..3, Raise(t, i) PROVE ObjectsInv'
    <2>1. Goes(t, After(i)) /\ UNCHANGED objVars
        BY <1>6 DEF Raise
    <2> QED
        BY <2>1, <1>4, KeptOnTheWay
<1> QED
    BY <1>1, <1>2, <1>3, <1>5, <1>6

LEMMA CreateObject ==
    ASSUME ObjectsInv, NEW t \in Builders, Create(t) PROVE ObjectsInv'
<1> USE StepsDiffer
<1>1. PICK p \in Holders, n \in FirstFree, m \in FirstFree :
        /\ pinfo[p] = NoProcess /\ n < m
        /\ pinfo' = [pinfo EXCEPT ![p] = [process |-> n, thread |-> m]]
        /\ what' = [what EXCEPT ![n] = [of |-> t, part |-> "process"], ![m] = [of |-> t, part |-> "thread"]]
    BY DEF Create
<1>2. Goes(t, <<"lowers">>) /\ UNCHANGED <<jn, ended, left>>
    BY DEF Create
<1>3. n \in Numbers /\ m \in Numbers /\ what[n] = Nothing /\ what[m] = Nothing
    BY DEF FirstFree
<1>4. n # m
    BY <1>1, <1>3, NumbersAssumption
<1>5. Fits(pinfo', what')
    BY <1>1, <1>3, <1>4, FitsNew DEF ObjectsInv
<1>6. /\ at' \in [Builders -> Steps] /\ pinfo' \in [Holders -> Infos] /\ what' \in [Numbers -> Things]
      /\ \A u \in Builders : u # t => at'[u] = at[u]
    BY <1>1, <1>2, <1>3 DEF ObjectsInv, Goes, Steps, Infos, Things
<1>7. ASSUME jn', NEW u \in Builders, at'[u] \in {<<"lowers">>, <<"done">>}, u \notin ended' \cup left'
      PROVE  \E k \in Numbers : what'[k] = [of |-> u, part |-> "process"]
    <2>1. CASE u = t
        <3>1. what'[n] = [of |-> t, part |-> "process"]
            BY <1>1, <1>3, <1>4 DEF ObjectsInv
        <3> QED
            BY <2>1, <3>1, <1>3
    <2>2. CASE u # t
        <3>1. PICK k \in Numbers : what[k] = [of |-> u, part |-> "process"]
            BY <2>2, <1>2, <1>6, <1>7 DEF ObjectsInv, LiveAreKept
        <3>2. k \notin {n, m}
            BY <3>1, <1>3, InfoParts
        <3> QED
            BY <3>1, <3>2, <1>1 DEF ObjectsInv
    <2> QED
        BY <2>1, <2>2
<1>8. LiveAreKept'
    BY <1>7 DEF LiveAreKept
<1> QED
    BY <1>5, <1>6, <1>8 DEF ObjectsInv, Fits

\* The objects between constructors.
LEMMA ObjectKeeps ==
    ASSUME ObjectsInv, NEW p \in Holders,
           \/ Detach(p) \/ Join(p) \/ DestroyProcess(p)
           \/ \E r \in Holders : MoveProcess(p, r) \/ AssignProcess(p, r)
    PROVE  ObjectsInv'
<1>1. /\ at \in [Builders -> Steps] /\ pinfo \in [Holders -> Infos] /\ what \in [Numbers -> Things]
      /\ Fits(pinfo, what) /\ LiveAreKept
    BY DEF ObjectsInv
<1>2. ClosedBoth(p) \in [Numbers -> Things]
    BY <1>1, InfoParts DEF ClosedBoth
<1>3. ASSUME NEW x \in {Nobody, NoProcess}
      PROVE  Fits([pinfo EXCEPT ![p] = x], ClosedBoth(p))
    BY <1>1, FitsClosed DEF ClosedBoth
<1>4. ASSUME jn => WaitReturns(p), IsProcess(p)
      PROVE  \A n \in Numbers : ClosedBoth(p)[n] = what[n] \/ what[n].part # "process"
                                \/ (jn => what[n].of \in ended)
    BY <1>4, <1>1, ProcessOf DEF ClosedBoth, WaitReturns
<1>5. CASE Detach(p)
    <2>1. /\ IsProcess(p) /\ what' = ClosedBoth(p) /\ pinfo' = [pinfo EXCEPT ![p] = Nobody]
          /\ left' = left \cup {what[n].of : n \in {pinfo[p].process} \cap Numbers}
          /\ UNCHANGED <<at, jn, ended>>
        BY <1>5 DEF Detach, buildVars
    <2>2. \A n \in Numbers : what'[n] = what[n] \/ what[n].part # "process" \/ what[n].of \in left'
        BY <2>1, <1>1, ProcessOf DEF ClosedBoth
    <2>3. LiveAreKept'
        BY <2>1, <2>2, <1>1, KeptWithout
    <2>4. Fits(pinfo', what') /\ pinfo' \in [Holders -> Infos]
        BY <2>1, <1>1, <1>3, InfoParts
    <2> QED
        BY <2>1, <2>3, <2>4, <1>1, <1>2 DEF ObjectsInv, Fits
<1>6. CASE Join(p)
    <2>1. /\ IsProcess(p) /\ pinfo[p].process # 0 /\ WaitReturns(p)
          /\ what' = [what EXCEPT ![pinfo[p].process] = Nothing]
          /\ pinfo' = [pinfo EXCEPT ![p].process = 0]
          /\ UNCHANGED <<at, jn, ended, left>>
        BY <1>6 DEF Join, buildVars
    <2>2. pinfo[p].process \in Numbers /\ what[pinfo[p].process].of \in ended
        BY <2>1, ProcessOf DEF WaitReturns
    <2>3. \A n \in Numbers : what'[n] = what[n] \/ what[n].of \in ended'
        BY <2>1, <2>2, <1>1
    <2>4. LiveAreKept'
        BY <2>1, <2>3, <1>1, KeptWithout
    <2>5. Fits(pinfo', what')
        BY <2>1, <2>2, <1>1, FitsJoined
    <2>6. pinfo' \in [Holders -> Infos] /\ what' \in [Numbers -> Things]
        <3>1. pinfo[p] \in [process : Numbers \cup {0}, thread : Numbers \cup {0}]
            BY <2>2, <1>1, NoNumbers, InfoParts DEF Infos
        <3>2. [pinfo[p] EXCEPT !.process = 0] \in Infos
            BY <3>1 DEF Infos
        <3> QED
            BY <2>1, <3>2, <1>1, InfoParts
    <2> QED
        BY <2>1, <2>4, <2>5, <2>6, <1>1 DEF ObjectsInv, Fits
<1>7. CASE DestroyProcess(p)
    <2>1. /\ IsProcess(p) /\ (jn => WaitReturns(p))
          /\ what' = ClosedBoth(p) /\ pinfo' = [pinfo EXCEPT ![p] = NoProcess]
          /\ UNCHANGED <<at, jn, ended, left>>
        BY <1>7 DEF DestroyProcess, buildVars
    <2>2. LiveAreKept'
        BY <2>1, <1>1, <1>4, KeptWithout
    <2>3. Fits(pinfo', what') /\ pinfo' \in [Holders -> Infos]
        BY <2>1, <1>1, <1>3, InfoParts
    <2> QED
        BY <2>1, <2>2, <2>3, <1>1, <1>2 DEF ObjectsInv, Fits
<1>8. ASSUME NEW r \in Holders, MoveProcess(p, r) PROVE ObjectsInv'
    <2>1. /\ pinfo[p] = NoProcess /\ pinfo[r] # NoProcess
          /\ pinfo' = [pinfo EXCEPT ![p] = pinfo[r], ![r] = Nobody]
          /\ UNCHANGED <<at, what, jn, ended, left>>
        BY <1>8 DEF MoveProcess, IsProcess, buildVars
    <2>2. p # r /\ PartsOf(pinfo, p) = {}
        BY <2>1, NoNumbers, InfoParts DEF PartsOf
    <2>3. Fits(pinfo', what') /\ pinfo' \in [Holders -> Infos]
        BY <2>1, <2>2, <1>1, FitsHanded, InfoParts
    <2>4. LiveAreKept'
        BY <2>1, <1>1 DEF LiveAreKept
    <2> QED
        BY <2>1, <2>3, <2>4, <1>1 DEF ObjectsInv, Fits
<1>9. ASSUME NEW r \in Holders, AssignProcess(p, r) PROVE ObjectsInv'
    <2>1. /\ p # r /\ IsProcess(p) /\ (jn => WaitReturns(p)) /\ what' = ClosedBoth(p)
          /\ pinfo' = [pinfo EXCEPT ![p] = pinfo[r], ![r] = Nobody]
          /\ UNCHANGED <<at, jn, ended, left>>
        BY <1>9 DEF AssignProcess, buildVars
    <2> DEFINE pi == [pinfo EXCEPT ![p] = Nobody]
    <2>2. pi \in [Holders -> Infos] /\ Fits(pi, ClosedBoth(p)) /\ pi[r] = pinfo[r]
        BY <2>1, <1>1, <1>3, InfoParts
    <2>3. PartsOf(pi, p) = {}
        BY <1>1, NoNumbers, InfoParts DEF PartsOf
    <2>4. pinfo' = [pi EXCEPT ![p] = pi[r], ![r] = Nobody]
        BY <2>1, <1>1
    <2> HIDE DEF pi
    <2>5. pinfo' \in [Holders -> Infos]
        BY <2>1, <1>1, InfoParts
    <2>6. PICK wh \in [Numbers -> Things] : wh = ClosedBoth(p)
        BY <1>2
    <2>7. Fits([pi EXCEPT ![p] = pi[r], ![r] = Nobody], wh)
        BY <2>1, <2>2, <2>3, <2>6, FitsHanded
    <2>8. Fits(pinfo', what')
        BY <2>1, <2>4, <2>6, <2>7
    <2>9. LiveAreKept'
        BY <2>1, <1>1, <1>4, KeptWithout
    <2> QED
        BY <2>1, <2>5, <2>8, <2>9, <1>1, <1>2 DEF ObjectsInv, Fits
<1> QED
    BY <1>5, <1>6, <1>7, <1>8, <1>9

LEMMA ObjectsStep == ObjectsInv /\ [ChildrenNext]_pVars => ObjectsInv'
<1> SUFFICES ASSUME ObjectsInv, [ChildrenNext]_pVars PROVE ObjectsInv'
    OBVIOUS
<1>1. ASSUME NEW t \in Builders, ChildEnds(t) PROVE ObjectsInv'
    <2>1. ended \subseteq ended' /\ UNCHANGED <<at, pinfo, what, jn, left>>
        BY <1>1 DEF ChildEnds, buildVars
    <2>2. LiveAreKept'
        BY <2>1, KeptWithout DEF ObjectsInv
    <2> QED
        BY <2>1, <2>2 DEF ObjectsInv, Fits, PartsOf
<1>2. CASE UNCHANGED pVars
    BY <1>2 DEF pVars, ObjectsInv, Fits, PartsOf, LiveAreKept
<1> QED
    BY <1>1, <1>2, ConstructorKeeps, CreateObject, ObjectKeeps DEF ChildrenNext

LEMMA ObjectsInOrder == ObjectsInv => ProcessesAreOwned
<1> SUFFICES ASSUME ObjectsInv PROVE ProcessesAreOwned
    OBVIOUS
<1>1. Fits(pinfo, what) /\ LiveAreKept /\ what \in [Numbers -> Things]
    BY DEF ObjectsInv
<1>2. ASSUME NEW n \in Numbers, NEW p \in Holders, n \in PartsOf(pinfo, p) PROVE what[n] # Nothing
    BY <1>1, <1>2, InfoParts DEF Fits, PartsOf
<1>3. /\ \A n \in Numbers : what[n] # Nothing <=> \E p \in Holders : n \in PartsOf(pinfo, p)
      /\ \A p, r \in Holders : p # r => PartsOf(pinfo, p) \cap PartsOf(pinfo, r) = {}
    BY <1>1, <1>2 DEF Fits
<1> QED
    BY <1>1, <1>3 DEF ProcessesAreOwned, LiveAreKept, PartsOf

\* Each child inherits what it should, but for the race of two guards, the flags
\* come back, and the handles of children have one owner, for any threads.
THEOREM ChildrenKept == Spec => []ChildrenAreInOrder
<1>1. Init => BuildersInv /\ ObjectsInv
    BY BuildersStart, ObjectsStart DEF Init
<1>2. [Next]_vars => [ChildrenNext]_pVars
    BY DEF Next, vars, pVars
<1>3. BuildersInv /\ ObjectsInv => ChildrenAreInOrder
    BY BuildersInOrder, ObjectsInOrder DEF ChildrenAreInOrder
<1> QED
    BY <1>1, <1>2, <1>3, BuildersStep, ObjectsStep, PTL DEF Spec

-------------------------------------------------------------------------------
(* How files are opened *)

LEMMA NamesOfModes ==
    ASSUME NEW m \in SUBSET Flags
    PROVE  LET b == m \cap {"in", "out", "app", "trunc"} IN
           /\ b = {"in"} <=> "in" \in m /\ "out" \notin m /\ "app" \notin m /\ "trunc" \notin m
           /\ b = {"out"} <=> "in" \notin m /\ "out" \in m /\ "app" \notin m /\ "trunc" \notin m
           /\ b = {"app"} <=> "in" \notin m /\ "out" \notin m /\ "app" \in m /\ "trunc" \notin m
           /\ b = {"out", "trunc"} <=> "in" \notin m /\ "out" \in m /\ "app" \notin m /\ "trunc" \in m
           /\ b = {"out", "app"} <=> "in" \notin m /\ "out" \in m /\ "app" \in m /\ "trunc" \notin m
           /\ b = {"in", "out"} <=> "in" \in m /\ "out" \in m /\ "app" \notin m /\ "trunc" \notin m
           /\ b = {"in", "app"} <=> "in" \in m /\ "out" \notin m /\ "app" \in m /\ "trunc" \notin m
           /\ b = {"in", "out", "trunc"} <=> "in" \in m /\ "out" \in m /\ "app" \notin m /\ "trunc" \in m
           /\ b = {"in", "out", "app"} <=> "in" \in m /\ "out" \in m /\ "app" \in m /\ "trunc" \notin m
BY SMTT(30)

LEMMA BasesOfModes ==
    ASSUME NEW m \in SUBSET Flags
    PROVE  LET b == m \cap {"in", "out", "app"} IN
           /\ b = {} <=> "in" \notin m /\ "out" \notin m /\ "app" \notin m
           /\ b = {"in"} <=> "in" \in m /\ "out" \notin m /\ "app" \notin m
           /\ b = {"out"} <=> "in" \notin m /\ "out" \in m /\ "app" \notin m
           /\ b = {"app"} <=> "in" \notin m /\ "out" \notin m /\ "app" \in m
           /\ b = {"out", "app"} <=> "in" \notin m /\ "out" \in m /\ "app" \in m
           /\ b = {"in", "out"} <=> "in" \in m /\ "out" \in m /\ "app" \notin m
           /\ b = {"in", "app"} <=> "in" \in m /\ "out" \notin m /\ "app" \in m
           /\ b = {"in", "out", "app"} <=> "in" \in m /\ "out" \in m /\ "app" \in m
BY SMTT(30)
\* The name of a mode in C, flag by flag.
LEMMA NameIs ==
    ASSUME NEW m \in SUBSET Flags, NEW c \in to_c_mode(m)
    PROVE  /\ to_c_mode(m) = {c}
           /\ c.letter \in {"r", "w", "a"} /\ c.plus \in BOOLEAN /\ c.x \in BOOLEAN
           /\ c.x <=> "excl" \in m
           /\ c.letter = "r" =>
                /\ "in" \in m /\ "app" \notin m /\ "trunc" \notin m /\ "excl" \notin m
                /\ c.plus <=> "out" \in m
           /\ c.letter = "w" =>
                /\ "out" \in m /\ "app" \notin m
                /\ c.plus <=> "in" \in m
                /\ "in" \in m => "trunc" \in m
           /\ c.letter = "a" =>
                /\ "app" \in m /\ "trunc" \notin m
                /\ c.plus <=> "in" \in m
<1> DEFINE b == m \cap {"in", "out", "app", "trunc"}
           x == "excl" \in m
           Spelt(letter, plus) == {[letter |-> letter, plus |-> plus, x |-> x]}
<1>1. \/ b = {"in"} /\ ~x /\ to_c_mode(m) = Spelt("r", FALSE)
      \/ b \in {{"out"}, {"out", "trunc"}} /\ to_c_mode(m) = Spelt("w", FALSE)
      \/ b \in {{"app"}, {"out", "app"}} /\ to_c_mode(m) = Spelt("a", FALSE)
      \/ b = {"in", "out"} /\ ~x /\ to_c_mode(m) = Spelt("r", TRUE)
      \/ b = {"in", "out", "trunc"} /\ to_c_mode(m) = Spelt("w", TRUE)
      \/ b \in {{"in", "out", "app"}, {"in", "app"}} /\ to_c_mode(m) = Spelt("a", TRUE)
  <2>1. to_c_mode(m) # {}
    OBVIOUS
  <2>2. /\ b = {"in"} => b \notin {{"out"}, {"out", "trunc"}, {"app"}, {"out", "app"}, {"in", "out"}}
        /\ b = {"in"} => b \notin {{"in", "out", "trunc"}, {"in", "out", "app"}, {"in", "app"}}
    BY NamesOfModes
  <2> HIDE DEF b, x
  <2>3. to_c_mode(m) =
            CASE b = {"in"} /\ ~x -> Spelt("r", FALSE)
              [] b \in {{"out"}, {"out", "trunc"}} -> Spelt("w", FALSE)
              [] b \in {{"app"}, {"out", "app"}} -> Spelt("a", FALSE)
              [] b = {"in", "out"} /\ ~x -> Spelt("r", TRUE)
              [] b = {"in", "out", "trunc"} -> Spelt("w", TRUE)
              [] b \in {{"in", "out", "app"}, {"in", "app"}} -> Spelt("a", TRUE)
              [] OTHER -> {}
    BY DEF to_c_mode, b, x
  <2> HIDE DEF Spelt
  <2> QED
    BY <2>1, <2>3
<1>2. \A l, p : to_c_mode(m) = Spelt(l, p) => c = [letter |-> l, plus |-> p, x |-> x]
    OBVIOUS
<1>3. to_c_mode(m) = {c}
    BY <1>1, <1>2
<1>4. \A l, p : to_c_mode(m) = Spelt(l, p) => c.letter = l /\ c.plus = p /\ c.x = x
    BY <1>2
<1> HIDE DEF Spelt
<1>5. \/ b = {"in"} /\ ~x /\ c.letter = "r" /\ c.plus = FALSE
      \/ b \in {{"out"}, {"out", "trunc"}} /\ c.letter = "w" /\ c.plus = FALSE
      \/ b \in {{"app"}, {"out", "app"}} /\ c.letter = "a" /\ c.plus = FALSE
      \/ b = {"in", "out"} /\ ~x /\ c.letter = "r" /\ c.plus = TRUE
      \/ b = {"in", "out", "trunc"} /\ c.letter = "w" /\ c.plus = TRUE
      \/ b \in {{"in", "out", "app"}, {"in", "app"}} /\ c.letter = "a" /\ c.plus = TRUE
  <2> HIDE DEF b, x
  <2> QED
    BY <1>1, <1>4
<1>6. c.x = x
  <2> HIDE DEF b, x
  <2> QED
    BY <1>1, <1>4
<1>7. c.x \in BOOLEAN /\ (c.x <=> "excl" \in m)
  <2>1. CASE "excl" \in m
    <3>1. x = TRUE
      BY <2>1
    <3> HIDE DEF x
    <3> QED
      BY <3>1, <2>1, <1>6
  <2>2. CASE "excl" \notin m
    <3>1. x = FALSE
      BY <2>2
    <3> HIDE DEF x
    <3> QED
      BY <3>1, <2>2, <1>6
  <2> QED
    BY <2>1, <2>2
<1>8. /\ b = {"in"} <=> "in" \in m /\ "out" \notin m /\ "app" \notin m /\ "trunc" \notin m
      /\ b \in {{"out"}, {"out", "trunc"}} <=> "in" \notin m /\ "out" \in m /\ "app" \notin m
      /\ b \in {{"app"}, {"out", "app"}} <=> "in" \notin m /\ "app" \in m /\ "trunc" \notin m
      /\ b = {"in", "out"} <=> "in" \in m /\ "out" \in m /\ "app" \notin m /\ "trunc" \notin m
      /\ b = {"in", "out", "trunc"} <=> "in" \in m /\ "out" \in m /\ "app" \notin m /\ "trunc" \in m
      /\ b \in {{"in", "out", "app"}, {"in", "app"}} <=> "in" \in m /\ "app" \in m /\ "trunc" \notin m
    BY NamesOfModes
<1>9. c.letter \in {"r", "w", "a"} /\ c.plus \in BOOLEAN
  <2> HIDE DEF b, x
  <2> QED
    BY <1>5
<1> HIDE DEF b
<1> QED
    BY <1>3, <1>5, <1>7, <1>8, <1>9, SMTT(30)

\* The flags for open(2), one by one.
LEMMA PosixFlags ==
    ASSUME NEW m \in SUBSET Flags
    PROVE  LET f == calculate_posix_open_mode(m) IN
           /\ "O_EXCL" \in f <=> "excl" \in m
           /\ "O_TRUNC" \in f <=>
                "trunc" \in m \/ ("out" \in m /\ "in" \notin m /\ "app" \notin m)
           /\ "O_CREAT" \in f <=>
                "excl" \in m \/ "app" \in m \/ ("out" \in m /\ "in" \notin m)
<1> DEFINE b == m \cap {"in", "out", "app"}
           last == CASE b = {"out"} -> {"O_CREAT", "O_TRUNC"}
                     [] b \in {{"app"}, {"out", "app"}, {"in", "app"}, {"in", "out", "app"}} ->
                          {"O_CREAT", "O_APPEND"}
                     [] OTHER -> {}
<1>1. calculate_posix_open_mode(m) =
        (IF "excl" \in m THEN {"O_CREAT", "O_EXCL"} ELSE {})
        \cup (IF "trunc" \in m THEN {"O_TRUNC"} ELSE {}) \cup last
    BY DEF calculate_posix_open_mode
<1>2. /\ "O_EXCL" \notin last
      /\ "O_TRUNC" \in last <=> b = {"out"}
      /\ "O_CREAT" \in last <=> b \in {{"out"}, {"app"}, {"out", "app"}, {"in", "app"}, {"in", "out", "app"}}
  <2> HIDE DEF b
  <2> QED
    OBVIOUS
<1> HIDE DEF last
<1> QED
    BY <1>1, <1>2, BasesOfModes

\* open(2) does the same for two modes that give the same of its flags.
LEMMA PosixIs ==
    ASSUME NEW m \in SUBSET Flags, NEW e \in BOOLEAN,
           "in" \in m \/ "out" \in m \/ "app" \in m
    PROVE  Posix(m, e) =
             Acting(IF "excl" \in m THEN "fail"
                    ELSE IF "trunc" \in m \/ ("out" \in m /\ "in" \notin m /\ "app" \notin m)
                         THEN "empty" ELSE "keep",
                    IF "excl" \in m \/ "app" \in m \/ ("out" \in m /\ "in" \notin m)
                    THEN "create" ELSE "fail",
                    e, Rights(m))
BY PosixFlags, BasesOfModes DEF Posix, PosixRefuses

LEMMA FromIs ==
    ASSUME NEW m \in SUBSET Flags, NEW c \in to_c_mode(m)
    PROVE  LET n == from_c_mode(c) IN
           /\ n \in SUBSET Flags
           /\ "in" \in n <=> c.letter = "r" \/ c.plus
           /\ "out" \in n <=> c.letter = "w" \/ c.plus
           /\ "app" \in n <=> c.letter = "a"
           /\ "trunc" \in n <=> c.letter = "w" /\ c.plus
           /\ "excl" \in n <=> c.x
<1> DEFINE first == CASE c.letter = "a" -> {"app"} \cup (IF c.plus THEN {"in", "out"} ELSE {})
                      [] c.letter = "r" -> {"in"} \cup (IF c.plus THEN {"out"} ELSE {})
                      [] c.letter = "w" -> {"out"} \cup (IF c.plus THEN {"in", "trunc"} ELSE {})
<1>1. c.letter \in {"r", "w", "a"} /\ c.plus \in BOOLEAN /\ c.x \in BOOLEAN
    BY NameIs
<1>2. from_c_mode(c) = first \cup (IF c.x THEN {"excl"} ELSE {})
    BY DEF from_c_mode
<1>3. /\ c.letter = "a" => first = {"app"} \cup (IF c.plus THEN {"in", "out"} ELSE {})
      /\ c.letter = "r" => first = {"in"} \cup (IF c.plus THEN {"out"} ELSE {})
      /\ c.letter = "w" => first = {"out"} \cup (IF c.plus THEN {"in", "trunc"} ELSE {})
    BY <1>1
<1> HIDE DEF first
<1>4. /\ first \in SUBSET Flags /\ "excl" \notin first
      /\ "in" \in first <=> c.letter = "r" \/ c.plus
      /\ "out" \in first <=> c.letter = "w" \/ c.plus
      /\ "app" \in first <=> c.letter = "a"
      /\ "trunc" \in first <=> c.letter = "w" /\ c.plus
    BY <1>1, <1>3 DEF Flags
<1> QED
    BY <1>1, <1>2, <1>4 DEF Flags

\* A FILE opened by the name of a mode is opened as by the mode.
LEMMA NameOpensAlike ==
    ASSUME NEW m \in SUBSET Flags, NEW c \in to_c_mode(m), NEW e \in BOOLEAN
    PROVE  Posix(from_c_mode(c), e) = Posix(m, e)
<1> DEFINE n == from_c_mode(c)
<1>1. /\ c.letter \in {"r", "w", "a"} /\ c.plus \in BOOLEAN /\ c.x \in BOOLEAN
      /\ c.x <=> "excl" \in m
      /\ c.letter = "r" =>
           /\ "in" \in m /\ "app" \notin m /\ "trunc" \notin m /\ "excl" \notin m
           /\ c.plus <=> "out" \in m
      /\ c.letter = "w" =>
           /\ "out" \in m /\ "app" \notin m
           /\ c.plus <=> "in" \in m
           /\ "in" \in m => "trunc" \in m
      /\ c.letter = "a" =>
           /\ "app" \in m /\ "trunc" \notin m
           /\ c.plus <=> "in" \in m
    BY NameIs
<1>2. /\ n \in SUBSET Flags
      /\ "in" \in n <=> c.letter = "r" \/ c.plus
      /\ "out" \in n <=> c.letter = "w" \/ c.plus
      /\ "app" \in n <=> c.letter = "a"
      /\ "trunc" \in n <=> c.letter = "w" /\ c.plus
      /\ "excl" \in n <=> c.x
    BY FromIs
<1> HIDE DEF n
<1>3. /\ "in" \in n <=> "in" \in m
      /\ "app" \in n <=> "app" \in m
      /\ "app" \notin m => ("out" \in n <=> "out" \in m)
      /\ "excl" \in n <=> "excl" \in m
      /\ "in" \in m \/ "out" \in m \/ "app" \in m
      /\ ("trunc" \in n \/ ("out" \in n /\ "in" \notin n /\ "app" \notin n))
            <=> ("trunc" \in m \/ ("out" \in m /\ "in" \notin m /\ "app" \notin m))
    BY <1>1, <1>2, SMTT(30)
<1>4. Rights(n) = Rights(m)
    BY <1>2, <1>3 DEF Rights
<1>5. /\ ("excl" \in n \/ "app" \in n \/ ("out" \in n /\ "in" \notin n))
            <=> ("excl" \in m \/ "app" \in m \/ ("out" \in m /\ "in" \notin m))
      /\ "in" \in n \/ "out" \in n \/ "app" \in n
    BY <1>3
<1>6. /\ (IF "excl" \in n THEN "fail"
          ELSE IF "trunc" \in n \/ ("out" \in n /\ "in" \notin n /\ "app" \notin n)
               THEN "empty" ELSE "keep")
         = (IF "excl" \in m THEN "fail"
            ELSE IF "trunc" \in m \/ ("out" \in m /\ "in" \notin m /\ "app" \notin m)
                 THEN "empty" ELSE "keep")
      /\ (IF "excl" \in n \/ "app" \in n \/ ("out" \in n /\ "in" \notin n) THEN "create" ELSE "fail")
         = (IF "excl" \in m \/ "app" \in m \/ ("out" \in m /\ "in" \notin m) THEN "create" ELSE "fail")
    BY <1>3, <1>5
<1> QED
    BY <1>2, <1>3, <1>4, <1>5, <1>6, PosixIs DEF n


LEMMA AskedIs ==
    ASSUME NEW m \in SUBSET Flags, NEW c \in to_c_mode(m), NEW e \in BOOLEAN
    PROVE  Asked(m, e) =
             Acting(IF c.x THEN "fail" ELSE IF c.letter = "w" THEN "empty" ELSE "keep",
                    IF c.letter = "r" THEN "fail" ELSE "create", e, Rights(m))
<1>1. to_c_mode(m) = {c} /\ c.x \in BOOLEAN
    BY NameIs
<1>2. (CHOOSE d \in to_c_mode(m) : TRUE) = c
    BY <1>1
<1> QED
    BY <1>1, <1>2 DEF Asked

\* Two ways of opening differ when what they do with a file that is there, or with
\* one that is not, differs.
LEMMA ActingDiffers ==
    ASSUME NEW a \in {"keep", "empty", "fail"}, NEW b \in {"create", "fail"},
           NEW c \in {"keep", "empty", "fail"}, NEW d \in {"create", "fail"},
           NEW e \in BOOLEAN, NEW k
    PROVE  Acting(a, b, e, k) # Acting(c, d, e, k) <=> IF e THEN a # c ELSE b # d
<1>1. \A x \in {"keep", "empty", "create"} : [opens |-> TRUE, empty |-> x # "keep", can |-> k] # Fails
    BY DEF Fails
<1>2. \A x, y \in {"keep", "empty", "create"} :
        [opens |-> TRUE, empty |-> x # "keep", can |-> k] = [opens |-> TRUE, empty |-> y # "keep", can |-> k]
            => (x = "keep" <=> y = "keep")
    OBVIOUS
<1> QED
    BY <1>1, <1>2 DEF Acting

LEMMA FailsIs == \A e \in BOOLEAN : \A k : Fails = Acting("fail", "fail", e, k)
BY DEF Acting

\* The disposition of Windows, condition by condition.
LEMMA DispositionIs ==
    ASSUME NEW m \in SUBSET Flags,
           NEW excl, NEW both, NEW trunc, NEW append, NEW write, NEW read
    PROVE  LET d == Disposition(m, excl, both, trunc, append, write, read) IN
           /\ "excl" \in m /\ "trunc" \in m => d = "EINVAL"
           /\ "excl" \in m /\ "trunc" \notin m => d = excl
           /\ "excl" \notin m /\ "trunc" \in m /\ "creat" \in m => d = both
           /\ "excl" \notin m /\ "trunc" \in m /\ "creat" \notin m /\ "in" \in m => d = trunc
           /\ "excl" \notin m /\ "trunc" \in m /\ "creat" \notin m /\ "in" \notin m => d = "EINVAL"
           /\ "excl" \notin m /\ "trunc" \notin m /\ "in" \in m => d = read
           /\ "excl" \notin m /\ "trunc" \notin m /\ "in" \notin m /\ "app" \in m => d = append
           /\ "excl" \notin m /\ "trunc" \notin m /\ "in" \notin m /\ "app" \notin m => d = write
BY DEF Disposition

\* What a system does with a file that is there and with one that is not.
Does(did, m, e, a, b) == did = Acting(a, b, e, Rights(m))

LEMMA Win32Is ==
    ASSUME NEW m \in SUBSET Flags, NEW e \in BOOLEAN
    PROVE  /\ "excl" \in m /\ "trunc" \in m => Does(Win32(m, e), m, e, "fail", "fail")
           /\ "excl" \in m /\ "trunc" \notin m => Does(Win32(m, e), m, e, "fail", "create")
           /\ "excl" \notin m /\ "trunc" \in m /\ "creat" \in m =>
                Does(Win32(m, e), m, e, "empty", "create")
           /\ "excl" \notin m /\ "trunc" \in m /\ "creat" \notin m /\ "in" \in m =>
                IF "out" \in m /\ "app" \notin m
                THEN Does(Win32(m, e), m, e, "empty", "fail") ELSE Does(Win32(m, e), m, e, "fail", "fail")
           /\ "excl" \notin m /\ "trunc" \in m /\ "creat" \notin m /\ "in" \notin m =>
                Does(Win32(m, e), m, e, "fail", "fail")
           /\ "excl" \notin m /\ "trunc" \notin m /\ "in" \in m => Does(Win32(m, e), m, e, "keep", "fail")
           /\ "excl" \notin m /\ "trunc" \notin m /\ "in" \notin m /\ "app" \in m =>
                Does(Win32(m, e), m, e, "keep", "create")
           /\ "excl" \notin m /\ "trunc" \notin m /\ "in" \notin m /\ "app" \notin m =>
                Does(Win32(m, e), m, e, "empty", "create")
<1> DEFINE d == calculate_win32_open_mode(m)
<1>1. /\ "excl" \in m /\ "trunc" \in m => d = "EINVAL"
      /\ "excl" \in m /\ "trunc" \notin m => d = "CREATE_NEW"
      /\ "excl" \notin m /\ "trunc" \in m /\ "creat" \in m => d = "CREATE_ALWAYS"
      /\ "excl" \notin m /\ "trunc" \in m /\ "creat" \notin m /\ "in" \in m => d = "TRUNCATE_EXISTING"
      /\ "excl" \notin m /\ "trunc" \in m /\ "creat" \notin m /\ "in" \notin m => d = "EINVAL"
      /\ "excl" \notin m /\ "trunc" \notin m /\ "in" \in m => d = "OPEN_EXISTING"
      /\ "excl" \notin m /\ "trunc" \notin m /\ "in" \notin m /\ "app" \in m => d = "OPEN_ALWAYS"
      /\ "excl" \notin m /\ "trunc" \notin m /\ "in" \notin m /\ "app" \notin m => d = "CREATE_ALWAYS"
    BY DispositionIs DEF calculate_win32_open_mode
<1>2. /\ d = "EINVAL" => Win32(m, e) = Fails
      /\ d = "CREATE_NEW" => Does(Win32(m, e), m, e, "fail", "create")
      /\ d = "CREATE_ALWAYS" => Does(Win32(m, e), m, e, "empty", "create")
      /\ d = "OPEN_EXISTING" => Does(Win32(m, e), m, e, "keep", "fail")
      /\ d = "OPEN_ALWAYS" => Does(Win32(m, e), m, e, "keep", "create")
      /\ d = "TRUNCATE_EXISTING" =>
            IF "out" \in m /\ "app" \notin m
            THEN Does(Win32(m, e), m, e, "empty", "fail") ELSE Win32(m, e) = Fails
    BY DEF Win32, Does
<1>3. Win32(m, e) = Fails => Does(Win32(m, e), m, e, "fail", "fail")
    BY FailsIs DEF Does
<1> HIDE DEF d
<1> QED
    BY <1>1, <1>2, <1>3

LEMMA NtIs ==
    ASSUME NEW m \in SUBSET Flags, NEW e \in BOOLEAN
    PROVE  /\ "excl" \in m /\ "trunc" \in m => Does(Nt(m, e), m, e, "fail", "fail")
           /\ "excl" \in m /\ "trunc" \notin m => Does(Nt(m, e), m, e, "keep", "fail")
           /\ "excl" \notin m /\ "trunc" \in m /\ "creat" \in m => Does(Nt(m, e), m, e, "fail", "create")
           /\ "excl" \notin m /\ "trunc" \in m /\ "creat" \notin m /\ "in" \in m =>
                Does(Nt(m, e), m, e, "empty", "create")
           /\ "excl" \notin m /\ "trunc" \in m /\ "creat" \notin m /\ "in" \notin m =>
                Does(Nt(m, e), m, e, "fail", "fail")
           /\ "excl" \notin m /\ "trunc" \notin m /\ "in" \in m => Does(Nt(m, e), m, e, "keep", "fail")
           /\ "excl" \notin m /\ "trunc" \notin m /\ "in" \notin m /\ "app" \in m =>
                Does(Nt(m, e), m, e, "keep", "create")
           /\ "excl" \notin m /\ "trunc" \notin m /\ "in" \notin m /\ "app" \notin m =>
                Does(Nt(m, e), m, e, "empty", "create")
<1> DEFINE d == calculate_nt_open_mode(m)
<1>1. /\ "excl" \in m /\ "trunc" \in m => d = "EINVAL"
      /\ "excl" \in m /\ "trunc" \notin m => d = "FILE_OPEN"
      /\ "excl" \notin m /\ "trunc" \in m /\ "creat" \in m => d = "FILE_CREATE"
      /\ "excl" \notin m /\ "trunc" \in m /\ "creat" \notin m /\ "in" \in m => d = "FILE_SUPERSEDE"
      /\ "excl" \notin m /\ "trunc" \in m /\ "creat" \notin m /\ "in" \notin m => d = "EINVAL"
      /\ "excl" \notin m /\ "trunc" \notin m /\ "in" \in m => d = "FILE_OPEN"
      /\ "excl" \notin m /\ "trunc" \notin m /\ "in" \notin m /\ "app" \in m => d = "FILE_OPEN_IF"
      /\ "excl" \notin m /\ "trunc" \notin m /\ "in" \notin m /\ "app" \notin m => d = "FILE_OVERWRITE_IF"
    BY DispositionIs DEF calculate_nt_open_mode
<1>2. /\ d = "EINVAL" => Nt(m, e) = Fails
      /\ d = "FILE_CREATE" => Does(Nt(m, e), m, e, "fail", "create")
      /\ d \in {"FILE_SUPERSEDE", "FILE_OVERWRITE_IF"} => Does(Nt(m, e), m, e, "empty", "create")
      /\ d = "FILE_OPEN" => Does(Nt(m, e), m, e, "keep", "fail")
      /\ d = "FILE_OPEN_IF" => Does(Nt(m, e), m, e, "keep", "create")
    BY DEF Nt, Does
<1>3. Nt(m, e) = Fails => Does(Nt(m, e), m, e, "fail", "fail")
    BY FailsIs DEF Does
<1> HIDE DEF d
<1> QED
    BY <1>1, <1>2, <1>3

\* A system does something else than the name of a mode asks for, for the modes Departs
\* lists and no other.
LEMMA DepartsSometimes ==
    ASSUME NEW m \in SUBSET Flags, NEW e \in BOOLEAN, to_c_mode(m) # {}, NEW s \in Systems
    PROVE  Opening(s, m, e) # Asked(m, e) <=> Departs(s, m, e)
<1>1. PICK c \in to_c_mode(m) : TRUE
    OBVIOUS
<1>2. /\ c.letter \in {"r", "w", "a"} /\ c.plus \in BOOLEAN /\ c.x \in BOOLEAN
      /\ c.x <=> "excl" \in m
      /\ c.letter = "r" =>
           /\ "in" \in m /\ "app" \notin m /\ "trunc" \notin m /\ "excl" \notin m
           /\ c.plus <=> "out" \in m
      /\ c.letter = "w" =>
           /\ "out" \in m /\ "app" \notin m
           /\ c.plus <=> "in" \in m
           /\ "in" \in m => "trunc" \in m
      /\ c.letter = "a" =>
           /\ "app" \in m /\ "trunc" \notin m
           /\ c.plus <=> "in" \in m
    BY NameIs
<1>3. PICK a \in {"keep", "empty", "fail"}, b \in {"create", "fail"} :
        /\ a = IF c.x THEN "fail" ELSE IF c.letter = "w" THEN "empty" ELSE "keep"
        /\ b = IF c.letter = "r" THEN "fail" ELSE "create"
    OBVIOUS
<1>4. Asked(m, e) = Acting(a, b, e, Rights(m))
    BY <1>3, AskedIs
<1>5. ASSUME NEW did, NEW u \in {"keep", "empty", "fail"}, NEW v \in {"create", "fail"},
             Does(did, m, e, u, v)
      PROVE  did # Asked(m, e) <=> IF e THEN u # a ELSE v # b
    BY <1>4, <1>5, ActingDiffers DEF Does
<1>6. CASE s = "posix"
  <2>1. PICK u \in {"keep", "empty", "fail"}, v \in {"create", "fail"} :
          /\ u = IF "excl" \in m THEN "fail"
                 ELSE IF "trunc" \in m \/ ("out" \in m /\ "in" \notin m /\ "app" \notin m)
                      THEN "empty" ELSE "keep"
          /\ v = IF "excl" \in m \/ "app" \in m \/ ("out" \in m /\ "in" \notin m)
                 THEN "create" ELSE "fail"
    OBVIOUS
  <2>2. Does(Posix(m, e), m, e, u, v)
    BY <2>1, <1>2, PosixIs DEF Does
  <2>3. Opening(s, m, e) # Asked(m, e) <=> IF e THEN u # a ELSE v # b
    BY <2>2, <1>5, <1>6 DEF Opening
  <2>4. Departs(s, m, e) <=> ~e /\ "in" \in m /\ "out" \in m /\ "trunc" \in m /\ "excl" \notin m
    BY <1>6 DEF Departs
  <2> QED
    BY <2>1, <2>3, <2>4, <1>2, <1>3
<1>7. CASE s = "win32"
  <2>1. Opening(s, m, e) = Win32(m, e)
    BY <1>7 DEF Opening
  <2>2. Departs(s, m, e) <=>
            \/ "trunc" \in m /\ "excl" \in m /\ ~e
            \/ "trunc" \in m /\ "excl" \notin m /\ "creat" \notin m /\ ("in" \in m => ~e)
            \/ "app" \in m /\ "in" \in m /\ "excl" \notin m /\ ~e
    BY <1>7 DEF Departs
  <2>3. \A u \in {"keep", "empty", "fail"}, v \in {"create", "fail"} :
            Does(Win32(m, e), m, e, u, v) =>
                (Opening(s, m, e) # Asked(m, e) <=> IF e THEN u # a ELSE v # b)
    BY <2>1, <1>5
  <2> QED
    BY <2>2, <2>3, <1>2, <1>3, Win32Is, SMTT(30)
<1>8. CASE s = "nt"
  <2>1. Opening(s, m, e) = Nt(m, e)
    BY <1>8 DEF Opening
  <2>2. Departs(s, m, e) <=>
            \/ "excl" \in m /\ ("trunc" \in m => ~e)
            \/ "trunc" \in m /\ "excl" \notin m /\ "creat" \in m /\ e
            \/ "trunc" \in m /\ "excl" \notin m /\ "creat" \notin m /\ "in" \notin m
            \/ "app" \in m /\ "in" \in m /\ "excl" \notin m /\ ~e
    BY <1>8 DEF Departs
  <2>3. \A u \in {"keep", "empty", "fail"}, v \in {"create", "fail"} :
            Does(Nt(m, e), m, e, u, v) =>
                (Opening(s, m, e) # Asked(m, e) <=> IF e THEN u # a ELSE v # b)
    BY <2>1, <1>5
  <2> QED
    BY <2>2, <2>3, <1>2, <1>3, NtIs, SMTT(30)
<1> QED
    BY <1>6, <1>7, <1>8 DEF Systems

\* How the file was opened stays what its mode made it.
Ways ==
    opened # <<>> =>
        /\ opened.mode \in SUBSET Flags /\ opened.exists \in BOOLEAN
        /\ opened.by \in Systems \cup {"c"}
        /\ opened.did = Opening(IF opened.by = "c" THEN "posix" ELSE opened.by,
                                opened.mode, opened.exists)
        /\ opened.string \subseteq to_c_mode(opened.mode)
        /\ opened.string # {} => opened.by = "c"

LEMMA WaysStep == Ways /\ [CStreamNext]_cVars => Ways'
<1> SUFFICES ASSUME Ways, [CStreamNext]_cVars PROVE Ways'
    OBVIOUS
<1>1. CASE OpenFile
  <2>1. PICK s \in Systems, m \in SUBSET Flags, x \in BOOLEAN :
          opened' = [by |-> s, mode |-> m, exists |-> x, did |-> Opening(s, m, x), string |-> {}]
    BY <1>1 DEF OpenFile
  <2> QED
    BY <2>1 DEF Ways, Systems
<1>2. CASE OpenC
  <2>1. PICK m \in SUBSET Flags, x \in BOOLEAN :
          opened' = [by |-> "c", mode |-> m, exists |-> x, did |-> Posix(m, x),
                     string |-> IF Posix(m, x).opens THEN to_c_mode(m) ELSE {}]
    BY <1>2 DEF OpenC
  <2> QED
    BY <2>1 DEF Ways, Opening
<1>3. CASE opened' = opened
    BY <1>3 DEF Ways
<1>4. \/ OpenFile \/ OpenC
      \/ opened' = opened
    BY DEF CStreamNext, cVars, Put, Write, PrintNumber, Stdio, Flush, Seek, Close
<1> QED
    BY <1>1, <1>2, <1>3, <1>4

LEMMA WaysAgree == Ways => ModesAgree
<1> SUFFICES ASSUME Ways, opened # <<>> PROVE ModesAgree
    BY DEF ModesAgree, OpensAsAsked, NamesKeepTheMode
<1> DEFINE s == IF opened.by = "c" THEN "posix" ELSE opened.by
<1>1. /\ opened.mode \in SUBSET Flags /\ opened.exists \in BOOLEAN /\ s \in Systems
      /\ opened.did = Opening(s, opened.mode, opened.exists)
      /\ opened.string \subseteq to_c_mode(opened.mode)
      /\ opened.string # {} => s = "posix"
    BY DEF Ways, Systems
<1>2. OpensAsAsked
    BY <1>1, DepartsSometimes DEF OpensAsAsked
<1> HIDE DEF s
<1>3. NamesKeepTheMode
    BY <1>1, NameOpensAlike DEF NamesKeepTheMode, Opening
<1> QED
    BY <1>2, <1>3 DEF ModesAgree

\* A file is opened as its mode and as the C name of the mode say, but for the modes
\* that the tables of the systems treat otherwise, and a name keeps its mode's meaning.
THEOREM ModesKept == Spec => []ModesAgree
<1>1. Init => Ways
    BY DEF Init, CStreamInit, Ways
<1>2. [Next]_vars => [CStreamNext]_cVars
    BY DEF Next, vars, cVars
<1> QED
    BY <1>1, <1>2, WaysStep, WaysAgree, PTL DEF Spec

-------------------------------------------------------------------------------
(* A FILE shared with stdio *)

Letters == -MaxChars .. MaxChars
Lines == Seq(Letters)

\* What a write at offset i, or at the end when app, makes of the file d.
Written(app, d, i, t) == Over(d, IF app THEN Len(d) ELSE i, t)

LEMMA LinesOfLength ==
    \A n \in Nat : \A q \in [1..n -> Letters] : q \in Lines /\ Len(q) = n
BY DEF Lines

LEMMA SameLine ==
    ASSUME NEW s \in Lines, NEW t \in Lines, Len(s) = Len(t),
           \A j \in 1..Len(s) : s[j] = t[j]
    PROVE  s = t
<1>1. Len(s) \in Nat /\ s = [j \in 1..Len(s) |-> s[j]] /\ t = [j \in 1..Len(s) |-> t[j]]
    BY DEF Lines
<1> QED
    BY <1>1

LEMMA OverParts ==
    ASSUME NEW d \in Lines, NEW t \in Lines, NEW i \in 0..Len(d)
    PROVE  LET o == Over(d, i, t) IN
           /\ o \in Lines
           /\ Len(o) = IF i + Len(t) > Len(d) THEN i + Len(t) ELSE Len(d)
           /\ \A j \in 1..Len(o) : o[j] = IF j \in i + 1..i + Len(t) THEN t[j - i] ELSE d[j]
<1> DEFINE m == IF i + Len(t) > Len(d) THEN i + Len(t) ELSE Len(d)
           e(j) == IF j \in i + 1..i + Len(t) THEN t[j - i] ELSE d[j]
<1>1. Len(d) \in Nat /\ Len(t) \in Nat /\ m \in Nat /\ i \in Nat
    BY DEF Lines
<1>2. \A j \in 1..m : e(j) \in Letters
  <2> TAKE j \in 1..m
  <2>1. CASE j \in i + 1..i + Len(t)
    <3>1. j - i \in 1..Len(t)
      BY <2>1, <1>1
    <3> QED
      BY <2>1, <3>1 DEF Lines
  <2>2. CASE j \notin i + 1..i + Len(t)
    <3>1. j \in 1..Len(d)
      BY <2>2, <1>1
    <3> QED
      BY <2>2, <3>1 DEF Lines
  <2> QED
    BY <2>1, <2>2
<1>3. Over(d, i, t) = [j \in 1..m |-> e(j)]
    BY DEF Over
<1> HIDE DEF m, e
<1>4. Over(d, i, t) \in [1..m -> Letters] /\ \A j \in 1..m : Over(d, i, t)[j] = e(j)
    BY <1>2, <1>3
<1>5. Over(d, i, t) \in Lines /\ Len(Over(d, i, t)) = m
    BY <1>1, <1>4, LinesOfLength
<1> QED
    BY <1>4, <1>5 DEF m, e

LEMMA Joint ==
    ASSUME NEW s \in Lines, NEW t \in Lines
    PROVE  /\ s \o t \in Lines /\ Len(s \o t) = Len(s) + Len(t)
           /\ \A j \in 1..Len(s) + Len(t) :
                (s \o t)[j] = IF j <= Len(s) THEN s[j] ELSE t[j - Len(s)]
BY DEF Lines

\* Two texts written one behind the other are one text.
LEMMA OverTwice ==
    ASSUME NEW d \in Lines, NEW s \in Lines, NEW t \in Lines, NEW i \in 0..Len(d)
    PROVE  Over(Over(d, i, s), i + Len(s), t) = Over(d, i, s \o t)
<1> DEFINE o == Over(d, i, s)
           p == Over(o, i + Len(s), t)
           q == Over(d, i, s \o t)
<1>1. Len(d) \in Nat /\ Len(t) \in Nat /\ Len(s) \in Nat /\ i \in Nat
    BY DEF Lines
<1>2. /\ o \in Lines
      /\ Len(o) = IF i + Len(s) > Len(d) THEN i + Len(s) ELSE Len(d)
      /\ \A j \in 1..Len(o) : o[j] = IF j \in i + 1..i + Len(s) THEN s[j - i] ELSE d[j]
    BY OverParts
<1>3. i + Len(s) \in 0..Len(o)
    BY <1>1, <1>2
<1>4. /\ p \in Lines
      /\ Len(p) = IF i + Len(s) + Len(t) > Len(o) THEN i + Len(s) + Len(t) ELSE Len(o)
      /\ \A j \in 1..Len(p) :
            p[j] = IF j \in i + Len(s) + 1..i + Len(s) + Len(t) THEN t[j - (i + Len(s))] ELSE o[j]
    BY <1>2, <1>3, OverParts
<1>5. /\ s \o t \in Lines /\ Len(s \o t) = Len(s) + Len(t)
      /\ \A j \in 1..Len(s) + Len(t) :
            (s \o t)[j] = IF j <= Len(s) THEN s[j] ELSE t[j - Len(s)]
    BY Joint
<1>6. /\ q \in Lines
      /\ Len(q) = IF i + (Len(s) + Len(t)) > Len(d) THEN i + (Len(s) + Len(t)) ELSE Len(d)
      /\ \A j \in 1..Len(q) :
            q[j] = IF j \in i + 1..i + (Len(s) + Len(t)) THEN (s \o t)[j - i] ELSE d[j]
  <2> DEFINE u == s \o t
  <2>1. u \in Lines /\ Len(u) = Len(s) + Len(t)
    BY <1>5
  <2> HIDE DEF u
  <2>2. LET r == Over(d, i, u) IN
        /\ r \in Lines
        /\ Len(r) = IF i + Len(u) > Len(d) THEN i + Len(u) ELSE Len(d)
        /\ \A j \in 1..Len(r) : r[j] = IF j \in i + 1..i + Len(u) THEN u[j - i] ELSE d[j]
    BY <2>1, OverParts
  <2> QED
    BY <2>1, <2>2 DEF u
<1> HIDE DEF o, p, q
<1>7. Len(p) = Len(q)
    BY <1>1, <1>2, <1>4, <1>6, SMTT(30)
<1>8. ASSUME NEW j \in 1..Len(p) PROVE p[j] = q[j]
  <2>1. CASE j \in i + Len(s) + 1..i + Len(s) + Len(t)
    <3>1. j - i \in 1..Len(s) + Len(t) /\ j - i > Len(s) /\ j - i - Len(s) = j - (i + Len(s))
          /\ j \in i + 1..i + (Len(s) + Len(t))
      BY <2>1, <1>1
    <3>2. (s \o t)[j - i] = t[j - (i + Len(s))]
      BY <3>1, <1>1, <1>5
    <3> QED
      BY <2>1, <3>1, <3>2, <1>4, <1>6, <1>7
  <2>2. CASE j \in i + 1..i + Len(s)
    <3>1. /\ j - i \in 1..Len(s) + Len(t) /\ j - i <= Len(s) /\ j \in 1..Len(o)
          /\ j \in i + 1..i + (Len(s) + Len(t)) /\ j \notin i + Len(s) + 1..i + Len(s) + Len(t)
      BY <2>2, <1>1, <1>2
    <3> QED
      BY <2>2, <3>1, <1>2, <1>4, <1>5, <1>6, <1>7
  <2>3. CASE j \notin i + 1..i + (Len(s) + Len(t))
    <3>1. /\ j \in 1..Len(o) /\ j \notin i + 1..i + Len(s)
          /\ j \notin i + Len(s) + 1..i + Len(s) + Len(t)
      BY <2>3, <1>1, <1>2, <1>4, <1>8
    <3> QED
      BY <2>3, <3>1, <1>2, <1>4, <1>6, <1>7
  <2> QED
    BY <2>1, <2>2, <2>3, <1>1
<1>9. p = q
    BY <1>4, <1>6, <1>7, <1>8, SameLine
<1> QED
    BY <1>9 DEF o, p, q

LEMMA OverNone ==
    ASSUME NEW d \in Lines, NEW i \in 0..Len(d) PROVE Over(d, i, <<>>) = d
<1>1. Len(d) \in Nat /\ i \in Nat /\ <<>> \in Lines /\ Len(<<>>) = 0
    BY DEF Lines
<1>2. /\ Over(d, i, <<>>) \in Lines
      /\ Len(Over(d, i, <<>>)) = Len(d)
      /\ \A j \in 1..Len(d) : Over(d, i, <<>>)[j] = d[j]
    BY <1>1, OverParts
<1> QED
    BY <1>2, SameLine

LEMMA WrittenParts ==
    ASSUME NEW app \in BOOLEAN, NEW d \in Lines, NEW i \in 0..Len(d), NEW s \in Lines
    PROVE  /\ Written(app, d, i, s) \in Lines
           /\ Len(Written(app, d, i, s)) >= Len(d)
           /\ Len(Written(app, d, i, s)) >= i + Len(s)
           /\ Written(app, d, i, <<>>) = d
           /\ \A t \in Lines :
                Written(app, Written(app, d, i, s), i + Len(s), t) = Written(app, d, i, s \o t)
<1>1. Len(d) \in Nat /\ Len(s) \in Nat /\ i \in Nat /\ Len(d) \in 0..Len(d)
    BY DEF Lines
<1> DEFINE k == IF app THEN Len(d) ELSE i
<1>2. k \in 0..Len(d) /\ k >= i
    BY <1>1
<1>3. /\ Over(d, k, s) \in Lines
      /\ Len(Over(d, k, s)) = IF k + Len(s) > Len(d) THEN k + Len(s) ELSE Len(d)
    BY <1>2, OverParts
<1>4. Over(d, k, <<>>) = d
    BY <1>2, OverNone
<1>5. ASSUME NEW t \in Lines
      PROVE  Written(app, Written(app, d, i, s), i + Len(s), t) = Written(app, d, i, s \o t)
  <2>1. Over(Over(d, k, s), k + Len(s), t) = Over(d, k, s \o t)
    BY <1>2, OverTwice
  <2>2. app => k + Len(s) = Len(Over(d, k, s))
    BY <1>1, <1>3
  <2> QED
    BY <2>1, <2>2 DEF Written
<1> QED
    BY <1>1, <1>2, <1>3, <1>4, <1>5 DEF Written

CTypes ==
    /\ fp \in [state : {"none", "open", "closed"}, buffering : {"full", "line", "none"},
               room : BOOLEAN, pend : Lines, at : Nat]
    /\ disk \in Lines /\ want \in Lines
    /\ count \in 0..MaxChars
    /\ slid \in BOOLEAN /\ trouble \in {"none", "device", "wild"}

\* A FILE that was not made yet has nothing.
Unmade ==
    /\ opened = <<>> => fp.state = "none"
    /\ fp.state = "none" =>
        fp.at = 0 /\ fp.pend = <<>> /\ ~fp.room /\ ~slid /\ trouble = "none"

\* What is pending was counted and wanted, and goes to a place the file has.
Counted ==
    /\ fp.at + Len(fp.pend) <= count
    /\ fp.at + Len(fp.pend) <= Len(want)
    /\ fp.at <= Len(disk)

\* Nothing waits beyond the buffer, nor where nothing may wait.
Buffered ==
    /\ trouble # "wild" => Len(fp.pend) <= BufferSize
    /\ fp.buffering = "none" => fp.pend = <<>>
    /\ fp.buffering = "full" /\ ~fp.room => fp.pend = <<>>

CInv == CTypes /\ Unmade /\ Counted /\ Buffered /\ StdioAgrees /\ InsideTheBuffer /\ LinesGoOut

LEMMA NoLetters == <<>> \in Lines /\ Len(<<>>) = 0 /\ ~EndsLine(<<>>)
BY DEF Lines, EndsLine

LEMMA Sizes == MaxChars \in Nat /\ Reserve \in Nat /\ OldLength \in Nat /\ BufferSize \in Nat \ {0}
BY SizesAssumption

LEMMA CStart == CStreamInit => CInv
<1> SUFFICES ASSUME CStreamInit PROVE CInv
    OBVIOUS
<1>1. CTypes
  <2>1. fp \in [state : {"none", "open", "closed"}, buffering : {"full", "line", "none"},
                room : BOOLEAN, pend : Lines, at : Nat]
    BY NoLetters DEF CStreamInit
  <2>2. disk \in Lines /\ want \in Lines /\ slid \in BOOLEAN /\ trouble \in {"none", "device", "wild"}
    BY NoLetters DEF CStreamInit
  <2>3. count \in 0..MaxChars
    BY Sizes DEF CStreamInit
  <2> QED
    BY <2>1, <2>2, <2>3 DEF CTypes
<1>2. Unmade /\ Counted /\ Buffered
    BY NoLetters, Sizes DEF CStreamInit, Unmade, Counted, Buffered
<1> QED
    BY <1>1, <1>2, NoLetters DEF CInv, CStreamInit, StdioAgrees, InsideTheBuffer, LinesGoOut

LEMMA PlacedAt ==
    \A d, i, t : Placed(d, i, t) = Written(Appends, d, i, t)
BY DEF Placed, Written

LEMMA PlacedNext ==
    ASSUME opened' = opened
    PROVE  Placed(disk, fp.at, fp.pend)' = Written(Appends, disk', fp'.at, fp'.pend)
BY DEF Placed, Written, Appends

LEMMA AppendsIs == Appends \in BOOLEAN
BY DEF Appends

\* What the client wrote is wanted behind what is pending.
LEMMA WantedParts ==
    ASSUME CInv, Usable, NEW t \in Lines, Wanted(t), count + Len(t) <= MaxChars
    PROVE  /\ want' \in Lines /\ count' \in 0..MaxChars
           /\ fp.pend \o t \in Lines /\ Len(fp.pend \o t) = Len(fp.pend) + Len(t)
           /\ fp.at + Len(fp.pend) + Len(t) <= count'
           /\ fp.at + Len(fp.pend) + Len(t) <= Len(want')
           /\ trouble = "none" => want' = Written(Appends, disk, fp.at, fp.pend \o t)
<1>1. /\ fp.pend \in Lines /\ fp.at \in Nat /\ disk \in Lines /\ want \in Lines
      /\ count \in 0..MaxChars /\ fp.state = "open"
      /\ Len(fp.pend) \in Nat /\ Len(t) \in Nat /\ Len(disk) \in Nat /\ Len(want) \in Nat
    BY DEF CInv, CTypes, Usable, Lines
<1>2. /\ count' = count + Len(t)
      /\ want' = Written(Appends, want, fp.at + Len(fp.pend), t)
    BY PlacedAt DEF Wanted
<1>3. fp.at + Len(fp.pend) \in 0..Len(want) /\ fp.at \in 0..Len(disk) /\ fp.at + Len(fp.pend) <= count
    BY <1>1 DEF CInv, Counted
<1>4. want' \in Lines /\ Len(want') >= fp.at + Len(fp.pend) + Len(t)
    BY <1>1, <1>2, <1>3, AppendsIs, WrittenParts
<1>5. fp.pend \o t \in Lines /\ Len(fp.pend \o t) = Len(fp.pend) + Len(t)
    BY <1>1, Joint
<1>6. ASSUME trouble = "none" PROVE want' = Written(Appends, disk, fp.at, fp.pend \o t)
  <2>1. want = Written(Appends, disk, fp.at, fp.pend)
    BY <1>1, <1>6, PlacedAt DEF CInv, StdioAgrees
  <2>2. Written(Appends, Written(Appends, disk, fp.at, fp.pend), fp.at + Len(fp.pend), t)
            = Written(Appends, disk, fp.at, fp.pend \o t)
    BY <1>1, <1>3, AppendsIs, WrittenParts
  <2> QED
    BY <2>1, <2>2, <1>2
<1>7. Len(want') \in Nat
    BY <1>4 DEF Lines
<1> QED
    BY <1>1, <1>2, <1>3, <1>4, <1>5, <1>6, <1>7, SizesAssumption, SMTT(30)

LEMMA Halves ==
    ASSUME NEW q \in Lines, NEW n \in 0..Len(q)
    PROVE  LET a == SubSeq(q, 1, n)
               b == SubSeq(q, n + 1, Len(q))
           IN  /\ a \in Lines /\ Len(a) = n
               /\ b \in Lines /\ Len(b) = Len(q) - n
               /\ \A i \in 1..Len(b) : b[i] = q[n + i]
               /\ q = a \o b
<1> DEFINE a == SubSeq(q, 1, n)
           b == SubSeq(q, n + 1, Len(q))
<1>1. Len(q) \in Nat /\ n \in Nat /\ n <= Len(q)
    BY DEF Lines
<1>2. a \in Lines /\ Len(a) = n /\ \A i \in 1..n : a[i] = q[i]
    BY <1>1 DEF Lines
<1>3. b \in Lines /\ Len(b) = Len(q) - n /\ \A i \in 1..Len(b) : b[i] = q[n + i]
    BY <1>1 DEF Lines
<1> HIDE DEF a, b
<1>4. /\ a \o b \in Lines /\ Len(a \o b) = Len(q)
      /\ \A j \in 1..Len(q) : (a \o b)[j] = IF j <= n THEN a[j] ELSE b[j - n]
    BY <1>1, <1>2, <1>3, Joint
<1>5. ASSUME NEW j \in 1..Len(q) PROVE (a \o b)[j] = q[j]
  <2>1. CASE j <= n
    BY <2>1, <1>1, <1>2, <1>4
  <2>2. CASE ~(j <= n)
    <3>1. j - n \in 1..Len(b) /\ n + (j - n) = j
      BY <2>2, <1>1, <1>3
    <3> QED
      BY <2>2, <3>1, <1>3, <1>4
  <2> QED
    BY <2>1, <2>2
<1>6. a \o b = q
    BY <1>4, <1>5, SameLine
<1> QED
    BY <1>2, <1>3, <1>6 DEF a, b

\* What is delivered is in the file, in front of what stays.
LEMMA DeliverKeeps ==
    ASSUME CInv, Usable, opened' = opened, trouble' = trouble,
           NEW all \in Lines, NEW n \in 0..Len(all), Deliver(all, n),
           want' \in Lines, count' \in 0..MaxChars,
           fp.at + Len(all) <= count', fp.at + Len(all) <= Len(want'),
           trouble = "none" => want' = Written(Appends, disk, fp.at, all),
           Len(all) - n <= BufferSize,
           fp.buffering = "none" => n = Len(all),
           fp.buffering = "line" /\ ~(slid /\ n < Len(fp.pend)) =>
                \A i \in 1..Len(all) : i > n => ~(all[i] < 0)
    PROVE  CInv'
<1> DEFINE a == SubSeq(all, 1, n)
           b == SubSeq(all, n + 1, Len(all))
<1>1. /\ a \in Lines /\ Len(a) = n
      /\ b \in Lines /\ Len(b) = Len(all) - n
      /\ \A i \in 1..Len(b) : b[i] = all[n + i]
      /\ all = a \o b
    BY Halves
<1>2. /\ disk' = Written(Appends, disk, fp.at, a)
      /\ fp' = [fp EXCEPT !.room = TRUE, !.pend = b, !.at = @ + n]
      /\ slid' = (slid /\ n < Len(fp.pend))
    BY PlacedAt DEF Deliver
<1> HIDE DEF a, b
<1>3. /\ fp.pend \in Lines /\ fp.at \in Nat /\ disk \in Lines /\ want \in Lines
      /\ fp.state = "open" /\ opened # <<>> /\ trouble # "wild" /\ fp.at \in 0..Len(disk)
      /\ Len(fp.pend) \in Nat /\ Len(all) \in Nat /\ Len(disk) \in Nat
  <2>1. fp.pend \in Lines /\ fp.at \in Nat /\ disk \in Lines /\ want \in Lines
    BY DEF CInv, CTypes
  <2>2. fp.state = "open" /\ trouble # "wild" /\ fp.at <= Len(disk)
    BY DEF CInv, Counted, Usable
  <2>3. opened # <<>>
    BY <2>2 DEF CInv, Unmade
  <2> QED
    BY <2>1, <2>2, <2>3 DEF Lines
<1>4. /\ fp'.state = "open" /\ fp'.buffering = fp.buffering /\ fp'.room
      /\ fp'.pend = b /\ fp'.at = fp.at + n
    BY <1>2, <1>3 DEF CInv, CTypes
<1>5. /\ disk' \in Lines /\ fp.at + n <= Len(disk')
      /\ Written(Appends, disk', fp.at + n, b) = Written(Appends, disk, fp.at, all)
    BY <1>1, <1>2, <1>3, AppendsIs, WrittenParts
<1>6. CTypes'
  <2>1. fp.at + n \in Nat
    BY <1>3
  <2>2. fp' \in [state : {"none", "open", "closed"}, buffering : {"full", "line", "none"},
                 room : BOOLEAN, pend : Lines, at : Nat]
    BY <2>1, <1>1, <1>2, <1>3 DEF CInv, CTypes
  <2> QED
    BY <2>2, <1>2, <1>3, <1>5 DEF CInv, CTypes
<1>7. Unmade' /\ Counted'
    BY <1>1, <1>3, <1>4, <1>5 DEF Unmade, Counted
<1>8. Buffered'
  <2>1. fp.buffering = "none" => b = <<>>
    BY <1>1, NoLetters, SameLine
  <2> QED
    BY <2>1, <1>1, <1>4 DEF Buffered
<1>9. StdioAgrees'
    BY <1>4, <1>5, PlacedNext DEF StdioAgrees
<1>10. InsideTheBuffer'
    BY <1>3 DEF InsideTheBuffer
<1>11. LinesGoOut'
  <2> SUFFICES ASSUME fp'.buffering = "line", ~slid', EndsLine(b) PROVE FALSE
    BY <1>4 DEF LinesGoOut, EndsLine
  <2>1. PICK i \in 1..Len(b) : b[i] < 0
    BY <1>1 DEF EndsLine, Lines
  <2>2. n + i \in 1..Len(all) /\ n + i > n
    BY <1>1, <1>3
  <2>3. ~(all[n + i] < 0)
    BY <2>2, <1>2, <1>4
  <2> QED
    BY <2>1, <2>3, <1>1
<1> QED
    BY <1>6, <1>7, <1>9, <1>10, <1>11, <1>8 DEF CInv

LEMMA StdioFailsKeeps ==
    ASSUME CInv, Usable, opened' = opened, StdioFails,
           want' \in Lines, count' \in 0..MaxChars,
           fp.at + Len(fp.pend) <= count', fp.at + Len(fp.pend) <= Len(want')
    PROVE  CInv'
<1>1. PICK q \in {<<>>, fp.pend} : fp' = [fp EXCEPT !.room = TRUE, !.pend = q]
    BY DEF StdioFails
<1>2. trouble' = "device" /\ disk' = disk /\ slid' = slid
    BY DEF StdioFails
<1>3. /\ fp.pend \in Lines /\ fp.at \in Nat /\ fp.state = "open" /\ opened # <<>>
      /\ Len(fp.pend) \in Nat /\ q \in Lines /\ Len(q) <= Len(fp.pend) /\ Len(q) \in Nat
      /\ count' \in Nat /\ Len(want') \in Nat /\ fp.at <= Len(disk)
      /\ Len(fp.pend) <= BufferSize
  <2>1. fp.pend \in Lines /\ fp.at \in Nat
    BY DEF CInv, CTypes
  <2>2. fp.state = "open" /\ fp.at <= Len(disk) /\ Len(fp.pend) <= BufferSize
    BY DEF CInv, Usable, Counted, Buffered
  <2>3. opened # <<>>
    BY <2>2 DEF CInv, Unmade
  <2>4. q \in Lines /\ (q = <<>> \/ q = fp.pend)
    BY <2>1, NoLetters
  <2>5. Len(q) \in Nat /\ Len(fp.pend) \in Nat /\ Len(want') \in Nat
    BY <2>1, <2>4 DEF Lines
  <2>6. count' \in Nat
    OBVIOUS
  <2>7. Len(q) <= Len(fp.pend)
    BY <2>4, <2>5, NoLetters
  <2> QED
    BY <2>1, <2>2, <2>3, <2>4, <2>5, <2>6, <2>7
<1>4. /\ fp'.state = "open" /\ fp'.buffering = fp.buffering /\ fp'.room
      /\ fp'.pend = q /\ fp'.at = fp.at
    BY <1>1, <1>3 DEF CInv, CTypes
<1>5. CTypes'
    BY <1>1, <1>2, <1>3 DEF CInv, CTypes
<1>6. Unmade' /\ Counted'
    BY <1>2, <1>3, <1>4 DEF Unmade, Counted
<1>7. Buffered'
    BY <1>2, <1>3, <1>4, SizesAssumption DEF CInv, Buffered
<1>8. StdioAgrees' /\ InsideTheBuffer'
    BY <1>2 DEF StdioAgrees, InsideTheBuffer
<1>9. LinesGoOut'
    BY <1>1, <1>2, <1>4, NoLetters DEF CInv, LinesGoOut, EndsLine
<1> QED
    BY <1>5, <1>6, <1>7, <1>8, <1>9 DEF CInv

LEMMA FwriteKeeps ==
    ASSUME CInv, Usable, opened' = opened, NEW t \in Lines, Wanted(t), count + Len(t) <= MaxChars,
           Fwrite(t)
    PROVE  CInv'
<1>1. /\ want' \in Lines /\ count' \in 0..MaxChars
      /\ fp.pend \o t \in Lines /\ Len(fp.pend \o t) = Len(fp.pend) + Len(t)
      /\ fp.at + Len(fp.pend) + Len(t) <= count'
      /\ fp.at + Len(fp.pend) + Len(t) <= Len(want')
      /\ trouble = "none" => want' = Written(Appends, disk, fp.at, fp.pend \o t)
    BY WantedParts
<1>2. /\ fp.pend \in Lines /\ fp.at \in Nat
      /\ Len(fp.pend) \in Nat /\ Len(t) \in Nat /\ count' \in Nat /\ Len(want') \in Nat
    BY <1>1 DEF CInv, CTypes, Lines
<1>3. CASE StdioFails
    BY <1>1, <1>2, <1>3, StdioFailsKeeps
<1>4. ASSUME NEW all \in Lines, all = fp.pend \o t, NEW n \in 0..Len(all),
             Len(all) - n <= BufferSize, fp.buffering = "none" => n = Len(all),
             fp.buffering = "line" => \A i \in DOMAIN t : t[i] < 0 => Len(fp.pend) + i <= n,
             Deliver(all, n), trouble' = trouble
      PROVE  CInv'
  <2>1. ASSUME fp.buffering = "line", ~(slid /\ n < Len(fp.pend)), NEW i \in 1..Len(all), i > n
        PROVE  ~(all[i] < 0)
    <3>1. CASE i <= Len(fp.pend)
      <4>1. i \in 1..Len(fp.pend) /\ all[i] = fp.pend[i]
        BY <3>1, <1>2, <1>4, <1>1, Joint
      <4>2. ~slid
        BY <3>1, <2>1, <1>2, <1>1, <1>4
      <4>3. ~EndsLine(fp.pend)
        BY <4>2, <2>1 DEF CInv, LinesGoOut
      <4> QED
        BY <4>1, <4>3, <1>2 DEF EndsLine, Lines
    <3>2. CASE ~(i <= Len(fp.pend))
      <4>1. i - Len(fp.pend) \in 1..Len(t) /\ all[i] = t[i - Len(fp.pend)]
        BY <3>2, <1>2, <1>4, <1>1, Joint
      <4>2. i - Len(fp.pend) \in DOMAIN t /\ ~(Len(fp.pend) + (i - Len(fp.pend)) <= n)
        BY <4>1, <2>1, <1>1, <1>2, <1>4 DEF Lines
      <4> QED
        BY <4>1, <4>2, <2>1, <1>4
    <3> QED
      BY <3>1, <3>2
  <2>2. /\ fp.at + Len(all) <= count' /\ fp.at + Len(all) <= Len(want')
        /\ trouble = "none" => want' = Written(Appends, disk, fp.at, all)
    BY <1>1, <1>2, <1>4
  <2> QED
    BY <2>1, <2>2, <1>1, <1>4, DeliverKeeps
<1> QED
    BY <1>1, <1>3, <1>4 DEF Fwrite

LEMMA OverflowKeeps ==
    ASSUME CInv, Usable, opened' = opened, NEW c \in Letters, Wanted(<<c>>), count + 1 <= MaxChars,
           Overflow(c)
    PROVE  CInv'
<1>1. <<c>> \in Lines /\ Len(<<c>>) = 1 /\ <<c>>[1] = c
    BY DEF Lines
<1>2. /\ want' \in Lines /\ count' \in 0..MaxChars
      /\ fp.pend \o <<c>> \in Lines /\ Len(fp.pend \o <<c>>) = Len(fp.pend) + 1
      /\ fp.at + Len(fp.pend) + 1 <= count'
      /\ fp.at + Len(fp.pend) + 1 <= Len(want')
      /\ trouble = "none" => want' = Written(Appends, disk, fp.at, fp.pend \o <<c>>)
    BY <1>1, WantedParts
<1>3. /\ fp.pend \in Lines /\ fp.at \in Nat
      /\ Len(fp.pend) \in Nat /\ count' \in Nat /\ Len(want') \in Nat
    BY <1>2 DEF CInv, CTypes, Lines
<1>4. Append(fp.pend, c) = fp.pend \o <<c>>
    BY <1>3 DEF Lines
<1>5. CASE StdioFails
    BY <1>2, <1>3, <1>5, StdioFailsKeeps
<1>6. ASSUME NEW all \in Lines, all = fp.pend \o <<c>>, NEW n,
             n = IF fp.buffering = "none" \/ (fp.buffering = "line" /\ c < 0)
                 THEN Len(all)
                 ELSE IF Len(fp.pend) = BufferSize THEN BufferSize ELSE 0,
             Deliver(all, n), trouble' = trouble
      PROVE  CInv'
  <2>1. /\ Len(all) = Len(fp.pend) + 1 /\ all[Len(all)] = c
        /\ \A i \in 1..Len(fp.pend) : all[i] = fp.pend[i]
    BY <1>1, <1>2, <1>3, <1>6, Joint
  <2>2. Len(fp.pend) <= BufferSize
    BY DEF CInv, Buffered, Usable
  <2>3. n \in 0..Len(all) /\ Len(all) - n <= BufferSize /\ (fp.buffering = "none" => n = Len(all))
    BY <2>1, <2>2, <1>3, <1>6, Sizes
  <2>4. ASSUME fp.buffering = "line", ~(slid /\ n < Len(fp.pend)), NEW i \in 1..Len(all), i > n
        PROVE  ~(all[i] < 0)
    <3>1. n # Len(all) /\ ~(c < 0)
      BY <2>4, <2>1, <1>3, <1>6
    <3>2. CASE i = Len(all)
      BY <3>1, <3>2, <2>1
    <3>3. CASE i # Len(all)
      <4>1. i \in 1..Len(fp.pend) /\ all[i] = fp.pend[i]
        BY <3>3, <2>1, <1>3
      <4>2. ~slid
        BY <4>1, <3>1, <2>4, <2>1, <1>3, <1>6, Sizes
      <4>3. ~EndsLine(fp.pend)
        BY <4>2, <2>4 DEF CInv, LinesGoOut
      <4> QED
        BY <4>1, <4>3, <1>3 DEF EndsLine, Lines
    <3> QED
      BY <3>2, <3>3
  <2>5. /\ fp.at + Len(all) <= count' /\ fp.at + Len(all) <= Len(want')
        /\ trouble = "none" => want' = Written(Appends, disk, fp.at, all)
    BY <1>2, <1>3, <1>6
  <2> QED
    BY <2>3, <2>4, <2>5, <1>2, <1>6, DeliverKeeps
<1> QED
    BY <1>2, <1>4, <1>5, <1>6 DEF Overflow

\* A store is behind what is pending, and inside the buffer where it may be.
LEMMA StoreKeeps ==
    ASSUME CInv, Usable, opened' = opened, NEW t \in Lines, Wanted(t), count + Len(t) <= MaxChars,
           Store(t), fp.buffering # "none", slid' \in BOOLEAN,
           fp.buffering = "line" => slid',
           fp.buffering = "full" => fp.room /\ Len(fp.pend) + Len(t) <= BufferSize
    PROVE  CInv'
<1>1. /\ want' \in Lines /\ count' \in 0..MaxChars
      /\ fp.pend \o t \in Lines /\ Len(fp.pend \o t) = Len(fp.pend) + Len(t)
      /\ fp.at + Len(fp.pend) + Len(t) <= count'
      /\ fp.at + Len(fp.pend) + Len(t) <= Len(want')
      /\ trouble = "none" => want' = Written(Appends, disk, fp.at, fp.pend \o t)
    BY WantedParts
<1>2. /\ fp.pend \in Lines /\ fp.at \in Nat /\ fp.buffering \in {"full", "line"}
      /\ Len(fp.pend) \in Nat /\ Len(t) \in Nat /\ trouble # "wild" /\ fp.state = "open"
    BY DEF CInv, CTypes, Lines, Usable
<1>3. opened # <<>> /\ fp.at <= Len(disk)
    BY <1>2 DEF CInv, Unmade, Counted
<1>4. /\ fp' = [fp EXCEPT !.pend = fp.pend \o t] /\ disk' = disk
      /\ trouble' = IF Len(fp.pend) + Len(t) > BufferSize THEN "wild" ELSE trouble
    BY DEF Store
<1>5. /\ fp'.state = "open" /\ fp'.buffering = fp.buffering /\ fp'.room = fp.room
      /\ fp'.pend = fp.pend \o t /\ fp'.at = fp.at
    BY <1>2, <1>4 DEF CInv, CTypes
<1>6. CTypes'
  <2>1. fp' \in [state : {"none", "open", "closed"}, buffering : {"full", "line", "none"},
                 room : BOOLEAN, pend : Lines, at : Nat]
    BY <1>1, <1>4 DEF CInv, CTypes
  <2> QED
    BY <2>1, <1>1, <1>4 DEF CInv, CTypes
<1>7. Unmade' /\ Counted'
    BY <1>1, <1>2, <1>3, <1>4, <1>5 DEF Unmade, Counted
<1>8. Buffered' /\ InsideTheBuffer' /\ LinesGoOut'
    BY <1>1, <1>2, <1>4, <1>5, Sizes DEF Buffered, InsideTheBuffer, LinesGoOut
<1>9. StdioAgrees'
    BY <1>1, <1>4, <1>5, PlacedNext DEF StdioAgrees
<1> QED
    BY <1>6, <1>7, <1>8, <1>9 DEF CInv

LEMMA WriteEndIs ==
    ASSUME CInv, Usable
    PROVE  /\ WriteEnd # 0 => fp.buffering = "full" /\ fp.room /\ WriteEnd = BufferSize
           /\ WriteEnd \in Nat
           /\ Len(fp.pend) # WriteEnd => 
                \/ fp.buffering = "line"
                \/ fp.buffering = "full" /\ fp.room /\ Len(fp.pend) < BufferSize
<1>1. fp.pend \in Lines /\ fp.buffering \in {"full", "line", "none"} /\ Len(fp.pend) \in Nat
    BY DEF CInv, CTypes, Lines
<1> QED
    BY <1>1, NoLetters, Sizes DEF CInv, Buffered, WriteEnd, Usable

LEMMA PutKeeps ==
    ASSUME CInv, NEW c \in Letters, count + 1 <= MaxChars, Put(c) PROVE CInv'
<1>1. Usable /\ Wanted(<<c>>) /\ opened' = opened
    BY DEF Put
<1>2. <<c>> \in Lines /\ Len(<<c>>) = 1 /\ fp.pend \in Lines /\ Len(fp.pend) \in Nat
    BY DEF CInv, CTypes, Lines
<1>3. CASE Len(fp.pend) = WriteEnd
  <2>1. Overflow(c)
    BY <1>3 DEF Put
  <2> QED
    BY <2>1, <1>1, OverflowKeeps
<1>4. CASE Len(fp.pend) # WriteEnd
  <2>1. Store(<<c>>) /\ slid' = (slid \/ fp.buffering = "line")
    BY <1>4 DEF Put
  <2>2. \/ fp.buffering = "line"
        \/ fp.buffering = "full" /\ fp.room /\ Len(fp.pend) < BufferSize
    BY <1>1, <1>4, WriteEndIs
  <2>3. slid' \in BOOLEAN
    BY <2>1 DEF CInv, CTypes
  <2>4. /\ fp.buffering # "none" /\ (fp.buffering = "line" => slid')
        /\ fp.buffering = "full" => fp.room /\ Len(fp.pend) + Len(<<c>>) <= BufferSize
    <3>1. fp.buffering = "line" => slid'
      BY <2>1, Zenon
    <3> QED
      BY <3>1, <2>2, <1>2, Sizes
  <2>5. count + Len(<<c>>) <= MaxChars
    BY <1>2
  <2> QED
    BY <2>1, <2>3, <2>4, <2>5, <1>1, <1>2, StoreKeeps
<1> QED
    BY <1>3, <1>4

\* A text that is stored where there is room for it.
LEMMA RoomKeeps ==
    ASSUME CInv, Usable, opened' = opened, NEW t \in Lines, Wanted(t), count + Len(t) <= MaxChars,
           Store(t), slid' = slid, Len(fp.pend) + Len(t) <= WriteEnd, 0 < WriteEnd
    PROVE  CInv'
<1>1. fp.buffering = "full" /\ fp.room /\ WriteEnd = BufferSize
    BY WriteEndIs
<1>2. slid' \in BOOLEAN
    BY DEF CInv, CTypes
<1> QED
    BY <1>1, <1>2, StoreKeeps

LEMMA WriteFileKeeps ==
    ASSUME CInv, NEW t \in Lines, count + Len(t) <= MaxChars, Write(t) PROVE CInv'
<1>1. Usable /\ Wanted(t) /\ opened' = opened /\ Len(t) \in Nat /\ Len(fp.pend) \in Nat
    BY DEF Write, CInv, CTypes, Lines
<1>2. CASE Len(fp.pend) + Len(t) < WriteEnd
  <2>1. Store(t) /\ slid' = slid
    BY <1>2 DEF Write
  <2>2. Len(fp.pend) + Len(t) <= WriteEnd /\ 0 < WriteEnd
    BY <1>1, <1>2, WriteEndIs
  <2> QED
    BY <2>1, <2>2, <1>1, RoomKeeps
<1>3. CASE ~(Len(fp.pend) + Len(t) < WriteEnd)
    BY <1>1, <1>3, FwriteKeeps DEF Write
<1> QED
    BY <1>2, <1>3

LEMMA PrintKeeps ==
    ASSUME CInv, NEW t \in Lines, count + Len(t) <= MaxChars, Len(t) <= Reserve, PrintNumber(t)
    PROVE  CInv'
<1>1. Usable /\ Wanted(t) /\ opened' = opened /\ Len(t) \in Nat /\ Len(fp.pend) \in Nat
    BY DEF PrintNumber, CInv, CTypes, Lines
<1>2. CASE WriteEnd > Len(fp.pend) + Reserve
  <2>1. Store(t) /\ slid' = slid
    BY <1>2 DEF PrintNumber
  <2>2. Len(fp.pend) + Len(t) <= WriteEnd /\ 0 < WriteEnd
    BY <1>1, <1>2, WriteEndIs, Sizes
  <2> QED
    BY <2>1, <2>2, <1>1, RoomKeeps
<1>3. CASE ~(WriteEnd > Len(fp.pend) + Reserve)
  <2>1. Write(t)
    BY <1>3 DEF PrintNumber, Write
  <2> QED
    BY <2>1, WriteFileKeeps
<1> QED
    BY <1>2, <1>3

\* What is pending goes to the file, and nothing is pending then.
LEMMA GoesOut ==
    ASSUME CInv, Usable, opened' = opened, want' = want, count' = count, trouble' = trouble,
           disk' = Written(Appends, disk, fp.at, fp.pend), slid' \in BOOLEAN,
           fp' \in [state : {"open", "closed"}, buffering : {"full", "line", "none"},
                    room : BOOLEAN, pend : {<<>>}, at : {0, fp.at}]
    PROVE  CInv'
<1>1. /\ fp.pend \in Lines /\ fp.at \in Nat /\ disk \in Lines /\ want \in Lines
      /\ count \in 0..MaxChars
      /\ fp.state = "open" /\ trouble # "wild" /\ fp.at \in 0..Len(disk)
      /\ Len(fp.pend) \in Nat /\ Len(disk) \in Nat
  <2>1. fp.pend \in Lines /\ fp.at \in Nat /\ disk \in Lines /\ want \in Lines /\ count \in 0..MaxChars
    BY DEF CInv, CTypes
  <2>2. fp.state = "open" /\ trouble # "wild" /\ fp.at <= Len(disk)
    BY DEF CInv, Counted, Usable
  <2> QED
    BY <2>1, <2>2 DEF Lines
<1>2. /\ fp'.state # "none" /\ fp'.pend = <<>> /\ fp'.at \in Nat /\ fp'.at <= fp.at
    BY <1>1
<1>3. /\ disk' \in Lines /\ Len(disk') >= Len(disk) /\ Len(disk') \in Nat
      /\ trouble = "none" => disk' = want
  <2>1. disk' \in Lines /\ Len(disk') >= Len(disk)
    BY <1>1, AppendsIs, WrittenParts
  <2>2. trouble = "none" => want = Written(Appends, disk, fp.at, fp.pend)
    BY <1>1, PlacedAt DEF CInv, StdioAgrees
  <2> QED
    BY <2>1, <2>2 DEF Lines
<1>4. Written(Appends, disk', fp'.at, <<>>) = disk'
  <2>1. fp'.at \in 0..Len(disk')
    BY <1>1, <1>2, <1>3
  <2> QED
    BY <2>1, <1>3, AppendsIs, NoLetters, WrittenParts
<1>5. CTypes'
  <2>1. fp' \in [state : {"none", "open", "closed"}, buffering : {"full", "line", "none"},
                 room : BOOLEAN, pend : Lines, at : Nat]
    BY <1>1, NoLetters
  <2> QED
    BY <2>1, <1>1, <1>3 DEF CInv, CTypes
<1>6. Unmade'
  <2>1. opened # <<>>
    BY <1>1 DEF CInv, Unmade
  <2> QED
    BY <2>1, <1>2 DEF Unmade
<1>7. Counted'
    BY <1>1, <1>2, <1>3, NoLetters DEF CInv, Counted
<1>8. Buffered' /\ InsideTheBuffer' /\ LinesGoOut'
    BY <1>1, <1>2, NoLetters, Sizes DEF Buffered, InsideTheBuffer, LinesGoOut, EndsLine
<1>9. StdioAgrees'
    BY <1>2, <1>3, <1>4, PlacedNext DEF StdioAgrees
<1> QED
    BY <1>5, <1>6, <1>7, <1>8, <1>9 DEF CInv

\* The device fails: nothing is promised of the text any more.
LEMMA FailsKeeps ==
    ASSUME CInv, Usable, opened' = opened, want' = want, count' = count, StdioFails PROVE CInv'
<1>1. /\ want \in Lines /\ count \in 0..MaxChars
      /\ fp.at + Len(fp.pend) <= count /\ fp.at + Len(fp.pend) <= Len(want)
    BY DEF CInv, CTypes, Counted
<1> QED
    BY <1>1, StdioFailsKeeps

LEMMA FlushKeeps == ASSUME CInv, Flush PROVE CInv'
<1>1. Usable /\ opened' = opened /\ want' = want /\ count' = count
    BY DEF Flush
<1>2. CASE StdioFails
    BY <1>1, <1>2, FailsKeeps
<1>3. CASE Deliver(fp.pend, Len(fp.pend)) /\ trouble' = trouble
  <2>1. /\ fp.pend \in Lines /\ Len(fp.pend) \in Nat /\ want \in Lines /\ count \in 0..MaxChars
        /\ fp.at + Len(fp.pend) <= count /\ fp.at + Len(fp.pend) <= Len(want)
        /\ fp.state = "open"
    BY <1>1 DEF CInv, CTypes, Counted, Lines, Usable
  <2>2. trouble = "none" => want = Written(Appends, disk, fp.at, fp.pend)
    BY <2>1, PlacedAt DEF CInv, StdioAgrees
  <2>3. Len(fp.pend) \in 0..Len(fp.pend) /\ Len(fp.pend) - Len(fp.pend) <= BufferSize
        /\ \A i \in 1..Len(fp.pend) : ~(i > Len(fp.pend))
    BY <2>1, Sizes
  <2> QED
    BY <2>1, <2>2, <2>3, <1>1, <1>3, DeliverKeeps
<1> QED
    BY <1>2, <1>3 DEF Flush

LEMMA SeekKeeps == ASSUME CInv, Seek PROVE CInv'
<1>1. Usable /\ opened' = opened /\ want' = want /\ count' = count
    BY DEF Seek
<1>2. CASE StdioFails
    BY <1>1, <1>2, FailsKeeps
<1>3. CASE /\ disk' = Placed(disk, fp.at, fp.pend)
           /\ fp' = [fp EXCEPT !.room = FALSE, !.pend = <<>>, !.at = 0]
           /\ slid' = FALSE /\ trouble' = trouble
  <2>1. disk' = Written(Appends, disk, fp.at, fp.pend)
    BY <1>3, PlacedAt
  <2>2. fp' \in [state : {"open", "closed"}, buffering : {"full", "line", "none"},
                 room : BOOLEAN, pend : {<<>>}, at : {0, fp.at}]
    BY <1>1, <1>3 DEF CInv, CTypes, Usable
  <2> QED
    BY <2>1, <2>2, <1>1, <1>3, GoesOut
<1> QED
    BY <1>2, <1>3 DEF Seek

LEMMA CloseKeeps == ASSUME CInv, Close PROVE CInv'
<1>1. /\ Usable /\ opened' = opened /\ want' = want /\ count' = count /\ slid' = slid
      /\ fp' = [fp EXCEPT !.state = "closed", !.pend = <<>>]
    BY DEF Close
<1>2. fp' \in [state : {"open", "closed"}, buffering : {"full", "line", "none"},
               room : BOOLEAN, pend : {<<>>}, at : {0, fp.at}]
    BY <1>1 DEF CInv, CTypes, Usable
<1>3. CASE disk' = Placed(disk, fp.at, fp.pend) /\ trouble' = trouble
  <2>1. disk' = Written(Appends, disk, fp.at, fp.pend)
    BY <1>3, PlacedAt
  <2>2. slid' \in BOOLEAN
    BY <1>1 DEF CInv, CTypes
  <2> QED
    BY <2>1, <2>2, <1>1, <1>2, <1>3, GoesOut
<1>4. CASE trouble' = "device" /\ disk' = disk
  <2>1. /\ fp.pend \in Lines /\ fp.at \in Nat /\ fp.state = "open" /\ Len(fp.pend) \in Nat
        /\ count \in 0..MaxChars
        /\ want \in Lines /\ disk \in Lines /\ slid \in BOOLEAN
    BY <1>1 DEF CInv, CTypes, Usable, Lines
  <2>2. fp'.state = "closed" /\ fp'.pend = <<>> /\ fp'.at = fp.at
    BY <1>1, <2>1 DEF CInv, CTypes
  <2>3. opened # <<>> /\ fp.at <= Len(disk) /\ fp.at + Len(fp.pend) <= count
        /\ fp.at + Len(fp.pend) <= Len(want) /\ Len(want) \in Nat /\ count \in Nat
    BY <2>1 DEF CInv, Unmade, Counted, Lines
  <2>4. CTypes'
    <3>1. fp' \in [state : {"none", "open", "closed"}, buffering : {"full", "line", "none"},
                   room : BOOLEAN, pend : Lines, at : Nat]
      BY <1>2, <2>1, NoLetters
    <3> QED
      BY <3>1, <2>1, <1>1, <1>4 DEF CTypes
  <2>5. Unmade' /\ Counted'
    BY <2>1, <2>2, <2>3, <1>1, <1>4, NoLetters DEF Unmade, Counted
  <2>6. Buffered' /\ InsideTheBuffer' /\ LinesGoOut' /\ StdioAgrees'
    BY <2>2, <1>4, NoLetters, Sizes DEF Buffered, InsideTheBuffer, LinesGoOut, StdioAgrees
  <2> QED
    BY <2>4, <2>5, <2>6 DEF CInv
<1> QED
    BY <1>3, <1>4 DEF Close

LEMMA Old == OldText \in Lines /\ Len(OldText) = OldLength
<1>1. OldText \in [1..OldLength -> Letters]
    BY Sizes DEF OldText, Letters
<1> QED
    BY <1>1, Sizes, LinesOfLength

LEMMA OpenFileKeeps == ASSUME CInv, OpenFile PROVE CInv'
<1>1. fp.state = "none" /\ trouble = "none" /\ fp.pend = <<>>
    BY DEF OpenFile, CInv, Unmade
<1>2. UNCHANGED <<fp, disk, want, count, slid, trouble>>
    BY DEF OpenFile
<1>3. CTypes' /\ Unmade' /\ Counted' /\ Buffered'
    BY <1>1, <1>2 DEF CInv, CTypes, Unmade, Counted, Buffered
<1>4. StdioAgrees' /\ InsideTheBuffer' /\ LinesGoOut'
    BY <1>1, <1>2, NoLetters DEF StdioAgrees, InsideTheBuffer, LinesGoOut
<1> QED
    BY <1>3, <1>4 DEF CInv

LEMMA OpenCKeeps == ASSUME CInv, OpenC PROVE CInv'
<1>1. /\ fp.state = "none" /\ fp.pend = <<>> /\ fp.at = 0 /\ ~fp.room /\ ~slid /\ trouble = "none"
      /\ count \in 0..MaxChars
    BY DEF OpenC, CInv, CTypes, Unmade
<1>2. PICK text \in Lines, b \in {"full", "line", "none"}, is \in BOOLEAN :
        /\ disk' = text /\ want' = text
        /\ fp' = IF is THEN [fp EXCEPT !.state = "open", !.buffering = b] ELSE fp
  <2>1. PICK m \in SUBSET Flags, e \in BOOLEAN, b \in {"full", "line", "none"}, made \in BOOLEAN :
          /\ disk' = (IF e /\ ~Posix(m, e).empty THEN OldText ELSE <<>>)
          /\ want' = (IF e /\ ~Posix(m, e).empty THEN OldText ELSE <<>>)
          /\ fp' = IF Posix(m, e).opens /\ to_c_mode(m) # {} /\ made
                   THEN [fp EXCEPT !.state = "open", !.buffering = b] ELSE fp
    BY ZenonT(60) DEF OpenC
  <2>2. OldText \in Lines /\ <<>> \in Lines
    BY Old, NoLetters
  <2>3. disk' \in Lines /\ want' = disk'
    BY <2>1, <2>2
  <2>4. fp' = [fp EXCEPT !.state = "open", !.buffering = b] \/ fp' = fp
    BY <2>1
  <2> QED
    BY <2>3, <2>4
<1>3. UNCHANGED <<count, slid, trouble>> /\ opened' # <<>>
  <2>1. UNCHANGED <<count, slid, trouble>>
    BY DEF OpenC
  <2>2. \E m, x, d, c : opened' = [by |-> "c", mode |-> m, exists |-> x, did |-> d, string |-> c]
    BY DEF OpenC
  <2>3. "by" \in DOMAIN opened'
    BY <2>2
  <2> QED
    BY <2>1, <2>3
<1>4. /\ fp'.state \in {"open", "none"} /\ fp'.pend = <<>> /\ fp'.at = 0 /\ ~fp'.room
      /\ fp' \in [state : {"none", "open", "closed"}, buffering : {"full", "line", "none"},
                  room : BOOLEAN, pend : Lines, at : Nat]
    BY <1>1, <1>2 DEF CInv, CTypes
<1>5. /\ disk' \in Lines /\ want' = disk' /\ Len(disk') \in Nat
      /\ 0 \in 0..Len(disk') /\ Len(disk') \in 0..Len(disk')
    BY <1>2 DEF Lines
<1>6. CTypes'
    BY <1>3, <1>4, <1>5 DEF CInv, CTypes
<1>7. Unmade' /\ Counted' /\ Buffered'
    BY <1>1, <1>3, <1>4, <1>5, NoLetters, Sizes DEF Unmade, Counted, Buffered
<1>8. StdioAgrees'
  <2>1. Placed(disk, fp.at, fp.pend)' = Over(disk', IF Appends' THEN Len(disk') ELSE 0, <<>>)
    BY <1>4 DEF Placed
  <2>2. Placed(disk, fp.at, fp.pend)' = disk'
    BY <2>1, <1>5, OverNone
  <2> QED
    BY <2>2, <1>5 DEF StdioAgrees
<1>9. InsideTheBuffer' /\ LinesGoOut'
    BY <1>1, <1>3, <1>4, NoLetters DEF InsideTheBuffer, LinesGoOut
<1> QED
    BY <1>6, <1>7, <1>8, <1>9 DEF CInv

LEMMA CStep == CInv /\ [CStreamNext]_cVars => CInv'
<1> SUFFICES ASSUME CInv, [CStreamNext]_cVars PROVE CInv'
    OBVIOUS
<1>1. CASE OpenFile
    BY <1>1, OpenFileKeeps
<1>2. CASE OpenC
    BY <1>2, OpenCKeeps
<1>3. ASSUME NEW n \in 1..2, NEW ends \in BOOLEAN, NEW t, count + n <= MaxChars,
             t = [i \in 1..n |-> IF i = n /\ ends THEN -(count + i) ELSE count + i],
             \/ n = 1 /\ Put(t[1])
             \/ Write(t)
             \/ ~ends /\ n <= Reserve /\ PrintNumber(t)
             \/ Stdio(t)
      PROVE  CInv'
  <2>1. count \in Nat /\ n \in Nat
    BY DEF CInv, CTypes
  <2>2. \A i \in 1..n : (IF i = n /\ ends THEN -(count + i) ELSE count + i) \in Letters
    BY <2>1, <1>3, Sizes DEF Letters
  <2>3. t \in [1..n -> Letters]
    BY <2>2, <1>3
  <2>4. t \in Lines /\ Len(t) = n
    BY <2>1, <2>3, LinesOfLength
  <2>5. CASE n = 1 /\ Put(t[1])
    <3>1. t[1] \in Letters
      BY <2>3, <2>5
    <3> QED
      BY <3>1, <2>5, <1>3, PutKeeps
  <2>6. CASE Write(t)
    BY <2>4, <2>6, <1>3, WriteFileKeeps
  <2>7. CASE n <= Reserve /\ PrintNumber(t)
    BY <2>4, <2>7, <1>3, PrintKeeps
  <2>8. CASE Stdio(t)
    BY <2>4, <2>8, <1>3, FwriteKeeps DEF Stdio
  <2> QED
    BY <2>5, <2>6, <2>7, <2>8, <1>3
<1>4. CASE Flush
    BY <1>4, FlushKeeps
<1>5. CASE Seek
    BY <1>5, SeekKeeps
<1>6. CASE Close
    BY <1>6, CloseKeeps
<1>7. CASE UNCHANGED cVars
  <2>1. StdioAgrees' /\ CTypes' /\ Unmade' /\ Counted'
    BY <1>7 DEF cVars, CInv, CTypes, Unmade, Counted, StdioAgrees, Placed, Appends
  <2>2. Buffered' /\ InsideTheBuffer' /\ LinesGoOut'
    BY <1>7 DEF cVars, CInv, Buffered, InsideTheBuffer, LinesGoOut
  <2> QED
    BY <2>1, <2>2 DEF CInv
<1> QED
    BY <1>1, <1>2, <1>3, <1>4, <1>5, <1>6, <1>7 DEF CStreamNext

\* A FILE that stdio and fast_io share has the text of both in order, no store leaves
\* its buffer and no line waits in it, but for what put does to a line-buffered one.
THEOREM FileShared == Spec => []SharedFileAgrees
<1>1. Init => CInv
    BY CStart DEF Init
<1>2. [Next]_vars => [CStreamNext]_cVars
    BY DEF Next, vars, cVars
<1>3. CInv => SharedFileAgrees
    BY DEF CInv, SharedFileAgrees
<1> QED
    BY <1>1, <1>2, <1>3, CStep, PTL DEF Spec

-------------------------------------------------------------------------------
(* A file that is mapped *)

\* What IsPrefix says, place by place.
Begins(s, t) == Len(s) <= Len(t) /\ \A i \in 1..Len(s) : s[i] = t[i]

States == {"shut", "open", "cut", "left", "lost"}

Maplike == [live : BOOLEAN, of : Named \cup {NoFile}, len : Nat, pos : Nat, moved : BOOLEAN]

MappedTypes ==
    /\ omap \in [Maps -> Maplike]
    /\ file \in [Named -> Text] /\ typed \in [Named -> Text]
    /\ state \in [Named -> States]
    /\ chars \in Nat
    /\ \A o \in Maps : omap[o].live <=> omap[o].of \in Named

\* Object o of om writes the file f.
IsWriter(om, o, f) == om[o].of = f /\ ~om[o].moved

\* A file in the state st, with the text fl, of which ty was written, and the objects om.
InOrder(om, f, fl, ty, st) ==
    \* The writer is the only one, and the file is open, or was cut by an object moved from.
    /\ \A o, p \in Maps : IsWriter(om, o, f) /\ IsWriter(om, p, f) => o = p
    /\ \A o \in Maps : IsWriter(om, o, f) => st \in {"open", "lost"}
    /\ st = "open" => \E o \in Maps : IsWriter(om, o, f)
    \* It is at the end of what was written, and the mapping is inside the file.
    /\ \A o \in Maps : IsWriter(om, o, f) /\ st = "open" =>
            om[o].pos = Len(ty) /\ om[o].pos <= om[o].len /\ om[o].len <= Len(fl)
    \* The file begins with what was written, and ends with it once it was cut.
    /\ st \in {"open", "left"} => Begins(ty, fl)
    /\ st = "cut" => fl = ty

MappedInv ==
    /\ MappedTypes
    /\ \A f \in Named : InOrder(omap, f, file[f], typed[f], state[f])

LEMMA BeginsPrefix ==
    ASSUME NEW s \in Text, NEW t \in Text, Begins(s, t) PROVE IsPrefix(s, t)
<1>1. Len(s) \in Nat /\ Len(t) \in Nat /\ Len(s) <= Len(t)
    BY DEF Text, Begins
<1>2. SubSeq(s, 1, Len(s)) = [i \in 1..Len(s) |-> s[i]]
    BY <1>1 DEF Text
<1>3. SubSeq(t, 1, Len(s)) = [i \in 1..Len(s) |-> t[i]]
    BY <1>1 DEF Text
<1>4. SubSeq(s, 1, Len(s)) = SubSeq(t, 1, Len(s))
    BY <1>1, <1>2, <1>3 DEF Begins
<1> QED
    BY <1>1, <1>4 DEF IsPrefix

LEMMA MoreZeros ==
    ASSUME NEW t \in Text, NEW n \in Nat
    PROVE  /\ Extended(t, n) \in Text
           /\ Len(Extended(t, n)) >= n /\ Len(Extended(t, n)) >= Len(t)
           /\ n <= Len(t) => Len(Extended(t, n)) = Len(t)
           /\ \A i \in 1..Len(t) : Extended(t, n)[i] = t[i]
<1> DEFINE k == IF n > Len(t) THEN n - Len(t) ELSE 0
           z == Zeros(k)
<1>1. k \in Nat /\ Len(t) \in Nat /\ k + Len(t) >= n
    BY DEF Text
<1>2. z \in Text /\ Len(z) = k
    BY <1>1 DEF Zeros, Text
<1>3. Extended(t, n) = t \o z
    BY DEF Extended
<1>4. n <= Len(t) => k = 0
    BY DEF Text
<1> HIDE DEF k, z
<1>5. t \o z \in Text /\ Len(t \o z) = Len(t) + k /\ \A i \in 1..Len(t) : (t \o z)[i] = t[i]
    BY <1>1, <1>2, SMTT(30) DEF Text
<1> QED
    BY <1>1, <1>3, <1>4, <1>5

LEMMA CutShort ==
    ASSUME NEW t \in Text, NEW s \in Text, Begins(s, t)
    PROVE  Truncated(t, Len(s)) = s
<1> DEFINE e == Extended(t, Len(s))
<1>1. Len(s) \in Nat /\ Len(t) \in Nat /\ Len(s) <= Len(t)
    BY DEF Text, Begins
<1>2. e \in Text /\ Len(e) = Len(t) /\ \A i \in 1..Len(s) : e[i] = s[i]
    BY <1>1, MoreZeros DEF Begins
<1>3. Truncated(t, Len(s)) = SubSeq(e, 1, Len(s))
    BY DEF Truncated
<1> HIDE DEF e
<1>4. SubSeq(e, 1, Len(s)) = [i \in 1..Len(s) |-> e[i]]
    BY <1>1, <1>2 DEF Text
<1>5. s = [i \in 1..Len(s) |-> s[i]]
    BY <1>1 DEF Text
<1> QED
    BY <1>2, <1>3, <1>4, <1>5

LEMMA CutType == ASSUME NEW t \in Text, NEW n \in Nat PROVE Truncated(t, n) \in Text
<1> DEFINE e == Extended(t, n)
<1>1. e \in Text /\ Len(e) >= n
    BY MoreZeros
<1>2. Truncated(t, n) = SubSeq(e, 1, n)
    BY DEF Truncated
<1> HIDE DEF e
<1> QED
    BY <1>1, <1>2 DEF Text

\* A file over which a text is stored.
Stored(r, i, t) == [j \in DOMAIN r |-> IF j \in i + 1..i + Len(t) THEN t[j - i] ELSE r[j]]

LEMMA OfLength == \A n \in Nat : \A q \in [1..n -> Nat] : q \in Seq(Nat) /\ Len(q) = n
OBVIOUS

LEMMA StoredType ==
    ASSUME NEW r \in Text, NEW i \in Nat, NEW t \in Text, i + Len(t) <= Len(r)
    PROVE  Stored(r, i, t) \in Text /\ Len(Stored(r, i, t)) = Len(r)
<1>1. DOMAIN r = 1..Len(r) /\ Len(r) \in Nat /\ Len(t) \in Nat
    BY DEF Text
<1>2. \A j \in 1..Len(r) : (IF j \in i + 1..i + Len(t) THEN t[j - i] ELSE r[j]) \in Nat
    <2> TAKE j \in 1..Len(r)
    <2>1. CASE j \in i + 1..i + Len(t)
        <3>1. j - i \in 1..Len(t)
            BY <2>1, <1>1
        <3> QED
            BY <2>1, <3>1 DEF Text
    <2> QED
        BY <2>1 DEF Text
<1>3. Stored(r, i, t) = [j \in 1..Len(r) |-> IF j \in i + 1..i + Len(t) THEN t[j - i] ELSE r[j]]
    BY <1>1 DEF Stored
<1>4. Stored(r, i, t) \in [1..Len(r) -> Nat]
    BY <1>2, <1>3
<1> QED
    BY <1>1, <1>4, OfLength DEF Text

LEMMA StoredBegins ==
    ASSUME NEW r \in Text, NEW s \in Text, NEW t \in Text, Begins(s, r),
           Len(s) + Len(t) <= Len(r)
    PROVE  s \o t \in Text /\ Len(s \o t) = Len(s) + Len(t) /\ Begins(s \o t, Stored(r, Len(s), t))
<1>1. DOMAIN r = 1..Len(r) /\ Len(r) \in Nat /\ Len(t) \in Nat /\ Len(s) \in Nat
    BY DEF Text
<1>2. /\ s \o t \in Text /\ Len(s \o t) = Len(s) + Len(t)
      /\ \A j \in 1..Len(s) + Len(t) : (s \o t)[j] = IF j <= Len(s) THEN s[j] ELSE t[j - Len(s)]
    BY DEF Text
<1>3. \A j \in 1..Len(s) + Len(t) :
        Stored(r, Len(s), t)[j] = IF j <= Len(s) THEN s[j] ELSE t[j - Len(s)]
    BY <1>1 DEF Stored, Begins
<1> QED
    BY <1>1, <1>2, <1>3, StoredType DEF Begins

LEMMA BeginsMore ==
    ASSUME NEW s \in Text, NEW t \in Text, NEW n \in Nat, Begins(s, t)
    PROVE  Begins(s, Extended(t, n))
<1>1. Len(s) \in Nat /\ Len(t) \in Nat
    BY DEF Text
<1> QED
    BY <1>1, MoreZeros DEF Begins

LEMMA BeginsShorter ==
    ASSUME NEW s \in Text, NEW t \in Text, NEW n \in 0..Len(s), Begins(s, t)
    PROVE  SubSeq(s, 1, n) \in Text /\ Len(SubSeq(s, 1, n)) = n /\ Begins(SubSeq(s, 1, n), t)
<1>1. Len(s) \in Nat /\ Len(t) \in Nat
    BY DEF Text
<1>2. /\ SubSeq(s, 1, n) \in Text /\ Len(SubSeq(s, 1, n)) = n
      /\ \A i \in 1..n : SubSeq(s, 1, n)[i] = s[i]
    BY <1>1 DEF Text
<1> QED
    BY <1>1, <1>2 DEF Begins

LEMMA MappedStart == MappedInit => MappedInv
<1> SUFFICES ASSUME MappedInit PROVE MappedInv
    OBVIOUS
<1>1. NoMap \in Maplike /\ <<>> \in Text
    BY DEF NoMap, Text, Maplike
<1>2. MappedTypes
    BY <1>1, NoFileAssumption DEF MappedInit, MappedTypes, Maplike, NoMap, States
<1> QED
    BY <1>2, NoFileAssumption DEF MappedInit, MappedInv, InOrder, IsWriter, NoMap

\* A file is in order as long as its writer is where it was.
LEMMA WriterStays ==
    ASSUME NEW om, NEW on, NEW f, NEW fl, NEW ty, NEW st, InOrder(om, f, fl, ty, st),
           \A o \in Maps : IsWriter(on, o, f) <=> IsWriter(om, o, f),
           \A o \in Maps : IsWriter(om, o, f) => on[o].pos = om[o].pos /\ on[o].len = om[o].len
    PROVE  InOrder(on, f, fl, ty, st)
BY DEF InOrder

\* Or when another takes its place.
LEMMA WriterMoves ==
    ASSUME NEW om, NEW on, NEW f, NEW fl, NEW ty, NEW st, InOrder(om, f, fl, ty, st),
           NEW o \in Maps, NEW p \in Maps, o # p,
           IsWriter(om, p, f), IsWriter(on, o, f), on[o].pos = om[p].pos, on[o].len = om[p].len,
           \A q \in Maps : q # o => ~IsWriter(on, q, f)
    PROVE  InOrder(on, f, fl, ty, st)
BY DEF InOrder

\* Without a writer a file is in order when it is not open.
LEMMA WriterGoes ==
    ASSUME NEW on, NEW f, NEW fl, NEW ty, NEW st,
           \A o \in Maps : ~IsWriter(on, o, f), st # "open",
           st = "left" => Begins(ty, fl), st = "cut" => fl = ty
    PROVE  InOrder(on, f, fl, ty, st)
BY DEF InOrder

LEMMA OpenMapKeeps ==
    ASSUME MappedInv, NEW o \in Maps, NEW f \in Named, OpenMap(o, f) PROVE MappedInv'
<1>1. /\ Extended(<<>>, InitSize) \in Text /\ Len(Extended(<<>>, InitSize)) >= InitSize
      /\ <<>> \in Text /\ InitSize \in Nat
  <2>1. <<>> \in Text /\ InitSize \in Nat
    BY InitSizeAssumption DEF Text
  <2> QED
    BY <2>1, MoreZeros
<1>2. ~omap[o].live /\ omap[o].of \notin Named /\ \A p \in Maps : omap[p].of # f
    BY DEF OpenMap, MappedInv, MappedTypes, Maplike
<1> DEFINE new == [live |-> TRUE, of |-> f, len |-> InitSize, pos |-> 0, moved |-> FALSE]
<1>3. /\ file' = [file EXCEPT ![f] = Extended(<<>>, InitSize)]
      /\ typed' = [typed EXCEPT ![f] = <<>>] /\ chars' = chars
      /\ \/ omap' = [omap EXCEPT ![o] = new] /\ state' = [state EXCEPT ![f] = "open"]
         \/ omap' = omap /\ state' = [state EXCEPT ![f] = "left"]
    BY DEF OpenMap
<1>4. /\ new.live /\ new.of = f /\ ~new.moved /\ new.pos = 0 /\ new.len = InitSize
      /\ new \in Maplike
    BY <1>1 DEF Maplike
<1> HIDE DEF new
<1>5. /\ \A p \in Maps : p # o => omap'[p] = omap[p]
      /\ omap'[o] = new \/ omap'[o] = omap[o]
      /\ omap' \in [Maps -> Maplike]
  <2>1. CASE omap' = [omap EXCEPT ![o] = new]
    BY <2>1, <1>4 DEF MappedInv, MappedTypes, Maplike
  <2>2. CASE omap' = omap
    BY <2>2 DEF MappedInv, MappedTypes, Maplike
  <2> QED
    BY <1>3, <2>1, <2>2
<1>6. MappedTypes'
  <2>1. file' \in [Named -> Text] /\ typed' \in [Named -> Text]
    BY <1>1, <1>3 DEF MappedInv, MappedTypes, Maplike
  <2>2. state' \in [Named -> States]
    BY <1>3 DEF MappedInv, MappedTypes, Maplike, States
  <2>3. \A p \in Maps : omap'[p].live <=> omap'[p].of \in Named
    BY <1>4, <1>5 DEF MappedInv, MappedTypes, Maplike
  <2> QED
    BY <1>3, <1>5, <2>1, <2>2, <2>3 DEF MappedInv, MappedTypes, Maplike
<1>7. ASSUME NEW g \in Named, g # f
      PROVE  InOrder(omap, g, file[g], typed[g], state[g])'
  <2>1. file'[g] = file[g] /\ typed'[g] = typed[g] /\ state'[g] = state[g]
    BY <1>3, <1>7 DEF MappedInv, MappedTypes, Maplike
  <2>2. \A p \in Maps : IsWriter(omap', p, g) <=> IsWriter(omap, p, g)
    BY <1>2, <1>4, <1>7, <1>5 DEF IsWriter
  <2>3. \A p \in Maps : IsWriter(omap, p, g) => omap'[p].pos = omap[p].pos /\ omap'[p].len = omap[p].len
    BY <1>2, <1>7, <1>5 DEF IsWriter
  <2> QED
    BY <2>1, <2>2, <2>3, WriterStays DEF MappedInv
<1>8. InOrder(omap, f, file[f], typed[f], state[f])'
  <2>1. file'[f] = Extended(<<>>, InitSize) /\ typed'[f] = <<>>
    BY <1>3 DEF MappedInv, MappedTypes, Maplike
  <2>2. Begins(typed'[f], file'[f]) /\ Len(typed'[f]) = 0
    BY <2>1, <1>1 DEF Begins, Text
  <2>3. CASE omap' = [omap EXCEPT ![o] = new] /\ state' = [state EXCEPT ![f] = "open"]
    <3>1. state'[f] = "open" /\ \A p \in Maps : IsWriter(omap', p, f) <=> p = o
      BY <2>3, <1>2, <1>4 DEF IsWriter, MappedInv, MappedTypes, Maplike
    <3>2. omap'[o].pos = 0 /\ omap'[o].len = InitSize
      BY <2>3, <1>4 DEF MappedInv, MappedTypes, Maplike
    <3> QED
      BY <3>1, <3>2, <2>1, <2>2, <1>1 DEF InOrder
  <2>4. CASE omap' = omap /\ state' = [state EXCEPT ![f] = "left"]
    <3>1. state'[f] = "left" /\ \A p \in Maps : ~IsWriter(omap', p, f)
      BY <2>4, <1>2 DEF IsWriter, MappedInv, MappedTypes, Maplike
    <3> QED
      BY <3>1, <2>2, WriterGoes
  <2> QED
    BY <1>3, <2>3, <2>4
<1> QED
    BY <1>6, <1>7, <1>8 DEF MappedInv

\* What Writes says of an object.
LEMMA WriterParts ==
    ASSUME MappedInv, NEW o \in Maps, Writes(o)
    PROVE  /\ omap[o].of \in Named /\ IsWriter(omap, o, omap[o].of)
           /\ state[omap[o].of] = "open"
           /\ omap[o].pos = Len(typed[omap[o].of])
           /\ omap[o].pos \in Nat /\ omap[o].len \in Nat
           /\ omap[o].pos <= omap[o].len /\ omap[o].len <= Len(file[omap[o].of])
           /\ Begins(typed[omap[o].of], file[omap[o].of])
           /\ \A p \in Maps : IsWriter(omap, p, omap[o].of) => p = o
<1>1. omap[o].of \in Named /\ IsWriter(omap, o, omap[o].of) /\ state[omap[o].of] = "open"
      /\ omap[o].pos \in Nat /\ omap[o].len \in Nat
    BY DEF Writes, IsWriter, MappedInv, MappedTypes, Maplike
<1> QED
    BY <1>1 DEF MappedInv, InOrder

\* A call of the writer that leaves it, and what was written, at the beginning of the file.
LEMMA WriterCalls ==
    ASSUME MappedInv, NEW o \in Maps, Writes(o), NEW f \in Named, f = omap[o].of,
           NEW n \in Nat, NEW i \in Nat, NEW fl \in Text, NEW ty \in Text,
           omap' = [omap EXCEPT ![o].len = n, ![o].pos = i],
           file' = [file EXCEPT ![f] = fl], typed' = [typed EXCEPT ![f] = ty],
           state' = state, chars' \in Nat,
           i = Len(ty), i <= n, n <= Len(fl), Begins(ty, fl)
    PROVE  MappedInv'
<1>1. ASSUME NEW p \in Maps
      PROVE  /\ omap'[p].of = omap[p].of /\ omap'[p].moved = omap[p].moved
             /\ omap'[p].live = omap[p].live
             /\ p # o => omap'[p] = omap[p]
             /\ omap'[o].pos = i /\ omap'[o].len = n
    BY DEF MappedInv, MappedTypes, Maplike
<1>2. MappedTypes'
  <2>1. omap' \in [Maps -> Maplike]
    <3>1. [omap[o] EXCEPT !.len = n, !.pos = i] \in Maplike
      BY DEF MappedInv, MappedTypes, Maplike
    <3>2. omap' = [omap EXCEPT ![o] = [omap[o] EXCEPT !.len = n, !.pos = i]] /\ omap \in [Maps -> Maplike]
      BY DEF MappedInv, MappedTypes
    <3> QED
      BY <3>1, <3>2
  <2>2. file' \in [Named -> Text] /\ typed' \in [Named -> Text] /\ state' \in [Named -> States]
    BY DEF MappedInv, MappedTypes, Maplike
  <2> QED
    BY <2>1, <2>2, <1>1 DEF MappedInv, MappedTypes, Maplike
<1>3. \A p \in Maps, g \in Named : IsWriter(omap', p, g) <=> IsWriter(omap, p, g)
    BY <1>1 DEF IsWriter
<1>4. ASSUME NEW g \in Named, g # f
      PROVE  InOrder(omap, g, file[g], typed[g], state[g])'
  <2>1. file'[g] = file[g] /\ typed'[g] = typed[g] /\ state'[g] = state[g]
    BY <1>4 DEF MappedInv, MappedTypes, Maplike
  <2>2. \A p \in Maps : IsWriter(omap, p, g) => p # o
    BY <1>4 DEF IsWriter
  <2>3. /\ InOrder(omap, g, file[g], typed[g], state[g])
        /\ \A p \in Maps : IsWriter(omap', p, g) <=> IsWriter(omap, p, g)
        /\ \A p \in Maps : IsWriter(omap, p, g) => omap'[p].pos = omap[p].pos /\ omap'[p].len = omap[p].len
    BY <2>2, <1>1, <1>3 DEF MappedInv
  <2>4. InOrder(omap', g, file[g], typed[g], state[g])
    BY <2>3, WriterStays
  <2> QED
    BY <2>1, <2>4
<1>5. InOrder(omap, f, file[f], typed[f], state[f])'
  <2>1. file'[f] = fl /\ typed'[f] = ty /\ state'[f] = "open"
    BY WriterParts DEF MappedInv, MappedTypes, Maplike
  <2>2. \A p \in Maps : IsWriter(omap, p, f) <=> p = o
    BY WriterParts
  <2>3. \A p \in Maps : IsWriter(omap', p, f) <=> p = o
    BY <1>3, <2>2
  <2> QED
    BY <2>1, <2>3, <1>1 DEF InOrder
<1> QED
    BY <1>2, <1>4, <1>5 DEF MappedInv

LEMMA StoreTextKeeps ==
    ASSUME MappedInv, NEW o \in Maps, Writes(o), NEW t \in Text, NEW n \in Nat,
           omap[o].pos + Len(t) <= n, StoreText(o, t, n)
    PROVE  MappedInv'
<1> DEFINE f == omap[o].of
           i == omap[o].pos
           room == Extended(file[f], n)
<1>1. f \in Named /\ file[f] \in Text /\ typed[f] \in Text /\ chars \in Nat
    BY WriterParts DEF MappedInv, MappedTypes, Maplike
<1>2. i \in Nat /\ i = Len(typed[f]) /\ Begins(typed[f], file[f]) /\ Len(t) \in Nat
    BY WriterParts DEF Text
<1>3. room \in Text /\ Len(room) >= n /\ Begins(typed[f], room)
    BY <1>1, <1>2, MoreZeros, BeginsMore
<1>4. /\ omap' = [omap EXCEPT ![o].len = n, ![o].pos = i + Len(t)]
      /\ file' = [file EXCEPT ![f] = Stored(room, i, t)]
      /\ typed' = [typed EXCEPT ![f] = typed[f] \o t]
      /\ state' = state /\ chars' = chars + Len(t)
    BY DEF StoreText, Stored
<1> HIDE DEF f, i, room
<1>5. /\ Stored(room, i, t) \in Text /\ Len(Stored(room, i, t)) = Len(room)
      /\ typed[f] \o t \in Text /\ Len(typed[f] \o t) = i + Len(t)
      /\ Begins(typed[f] \o t, Stored(room, i, t))
  <2>1. Len(typed[f]) + Len(t) <= Len(room) /\ Len(room) \in Nat
    BY <1>1, <1>2, <1>3 DEF i, f, Text
  <2> QED
    BY <2>1, <1>1, <1>2, <1>3, StoredType, StoredBegins
<1>6. i + Len(t) <= n /\ n <= Len(Stored(room, i, t)) /\ i + Len(t) \in Nat /\ chars' \in Nat
    BY <1>1, <1>2, <1>3, <1>4, <1>5 DEF i
<1> QED
    BY <1>1, <1>4, <1>5, <1>6, WriterCalls DEF f

LEMMA WriteMapKeeps ==
    ASSUME MappedInv, NEW o \in Maps, NEW t \in Text, WriteMap(o, t) PROVE MappedInv'
<1> DEFINE after == omap[o].pos + Len(t)
           n == IF omap[o].len <= after THEN Grown(o, after) ELSE omap[o].len
<1>1. Writes(o) /\ StoreText(o, t, n)
    BY DEF WriteMap
<1>2. omap[o].pos \in Nat /\ omap[o].len \in Nat /\ Len(t) \in Nat
    BY <1>1, WriterParts DEF Text
<1>3. n \in Nat /\ after <= n
    BY <1>2 DEF Grown
<1> HIDE DEF n
<1> QED
    BY <1>1, <1>3, StoreTextKeeps

LEMMA PutMapKeeps ==
    ASSUME MappedInv, NEW o \in Maps, NEW c \in Nat, PutMap(o, c) PROVE MappedInv'
<1> DEFINE n == IF omap[o].len = omap[o].pos THEN Grown(o, omap[o].len + 1) ELSE omap[o].len
<1>1. Writes(o) /\ StoreText(o, <<c>>, n)
    BY DEF PutMap
<1>2. omap[o].pos \in Nat /\ omap[o].len \in Nat /\ omap[o].pos <= omap[o].len
    BY <1>1, WriterParts
<1>3. n \in Nat /\ omap[o].pos + 1 <= n
    BY <1>2 DEF Grown
<1>4. <<c>> \in Text /\ Len(<<c>>) = 1
    BY DEF Text
<1> HIDE DEF n
<1> QED
    BY <1>1, <1>3, <1>4, StoreTextKeeps

LEMMA ReserveMapKeeps ==
    ASSUME MappedInv, NEW o \in Maps, NEW n \in Nat, ReserveMap(o, n) PROVE MappedInv'
<1> DEFINE f == omap[o].of
           i == IF n < omap[o].pos THEN n ELSE omap[o].pos
<1>1. /\ Writes(o) /\ state' = state /\ chars' = chars
      /\ omap' = [omap EXCEPT ![o].len = n, ![o].pos = i]
      /\ file' = [file EXCEPT ![f] = Extended(file[f], n)]
      /\ typed' = [typed EXCEPT ![f] = SubSeq(typed[f], 1, i)]
    BY DEF ReserveMap
<1>2. f \in Named /\ file[f] \in Text /\ typed[f] \in Text /\ chars \in Nat
    BY <1>1, WriterParts DEF MappedInv, MappedTypes, Maplike
<1>3. i \in 0..Len(typed[f]) /\ i <= n /\ i \in Nat /\ Begins(typed[f], file[f])
    BY <1>1, WriterParts
<1> HIDE DEF f, i
<1>4. Extended(file[f], n) \in Text /\ Len(Extended(file[f], n)) >= n
      /\ Begins(typed[f], Extended(file[f], n))
    BY <1>2, <1>3, MoreZeros, BeginsMore
<1>5. /\ SubSeq(typed[f], 1, i) \in Text /\ Len(SubSeq(typed[f], 1, i)) = i
      /\ Begins(SubSeq(typed[f], 1, i), Extended(file[f], n))
    BY <1>2, <1>3, <1>4, BeginsShorter
<1>6. Len(Extended(file[f], n)) \in Nat
    BY <1>4 DEF Text
<1> QED
    BY <1>1, <1>2, <1>3, <1>4, <1>5, <1>6, WriterCalls DEF f

LEMMA MapThrowsKeeps ==
    ASSUME MappedInv, NEW o \in Maps, NEW n \in Nat, MapThrows(o, n) PROVE MappedInv'
<1>1. Writes(o)
    BY DEF MapThrows
<1>2. PICK f \in Named : f = omap[o].of
    BY <1>1, WriterParts
<1>3. /\ UNCHANGED <<omap, typed, state, chars>>
      /\ file' = [file EXCEPT ![f] = Extended(file[f], n)]
      /\ file[f] \in Text /\ typed[f] \in Text /\ chars \in Nat
    BY <1>2 DEF MapThrows, MappedInv, MappedTypes, Maplike
<1>4. /\ omap[o].pos = Len(typed[f]) /\ omap[o].pos <= omap[o].len
      /\ omap[o].len <= Len(file[f]) /\ Begins(typed[f], file[f])
      /\ omap[o].len \in Nat /\ omap[o].pos \in Nat
    BY <1>1, <1>2, WriterParts
<1>5. /\ Extended(file[f], n) \in Text /\ Len(Extended(file[f], n)) >= Len(file[f])
      /\ Begins(typed[f], Extended(file[f], n))
    BY <1>3, <1>4, MoreZeros, BeginsMore
<1>6. PICK l \in Nat, i \in Nat, ty \in Text, fl \in Text :
        /\ l = omap[o].len /\ i = omap[o].pos /\ ty = typed[f] /\ fl = Extended(file[f], n)
    BY <1>3, <1>4, <1>5
<1>7. omap' = [omap EXCEPT ![o].len = l, ![o].pos = i]
    BY <1>3, <1>6 DEF MappedInv, MappedTypes, Maplike
<1>8. /\ file' = [file EXCEPT ![f] = fl] /\ typed' = [typed EXCEPT ![f] = ty]
      /\ state' = state /\ chars' \in Nat
    BY <1>3, <1>6 DEF MappedInv, MappedTypes, Maplike
<1>9. i = Len(ty) /\ i <= l /\ l <= Len(fl) /\ Begins(ty, fl)
    BY <1>3, <1>4, <1>5, <1>6 DEF Text
<1> QED
    BY <1>1, <1>2, <1>7, <1>8, <1>9, WriterCalls

LEMMA CutParts ==
    ASSUME MappedInv, NEW o \in Maps, NEW f \in Named, Cut(o, f)
    PROVE  /\ file' \in [Named -> Text] /\ state' \in [Named -> States]
           /\ \A g \in Named : g # f => file'[g] = file[g] /\ state'[g] = state[g]
           /\ \/ /\ file'[f] = Truncated(file[f], omap[o].pos)
                 /\ state'[f] = IF omap[o].moved \/ state[f] = "lost" THEN "lost" ELSE "cut"
              \/ /\ file'[f] = file[f]
                 /\ state'[f] = IF omap[o].moved \/ state[f] = "lost" THEN state[f] ELSE "left"
<1>1. /\ file \in [Named -> Text] /\ state \in [Named -> States] /\ omap[o].pos \in Nat
    BY DEF MappedInv, MappedTypes, Maplike
<1>2. Truncated(file[f], omap[o].pos) \in Text
    BY <1>1, CutType
<1>3. CASE /\ file' = [file EXCEPT ![f] = Truncated(@, omap[o].pos)]
           /\ state' = [state EXCEPT ![f] = IF omap[o].moved \/ @ = "lost" THEN "lost" ELSE "cut"]
    BY <1>1, <1>2, <1>3 DEF States
<1>4. CASE /\ state' = [state EXCEPT ![f] = IF omap[o].moved \/ @ = "lost" THEN @ ELSE "left"]
           /\ file' = file
    BY <1>1, <1>4 DEF States
<1> QED
    BY <1>3, <1>4 DEF Cut

\* When an object goes away its file stays in order: without a writer, if it was the writer.
LEMMA CutKeeps ==
    ASSUME MappedInv, NEW o \in Maps, NEW f \in Named, f = omap[o].of, Cut(o, f),
           NEW on,
           \A q \in Maps : IsWriter(on, q, f) <=> q # o /\ IsWriter(omap, q, f),
           \A q \in Maps : q # o /\ IsWriter(omap, q, f) =>
                on[q].pos = omap[q].pos /\ on[q].len = omap[q].len
    PROVE  InOrder(on, f, file'[f], typed[f], state'[f])
<1>1. /\ InOrder(omap, f, file[f], typed[f], state[f])
      /\ file[f] \in Text /\ typed[f] \in Text
    BY DEF MappedInv, MappedTypes, Maplike
<1>2. CASE ~omap[o].moved
  <2>1. IsWriter(omap, o, f) /\ \A q \in Maps : ~IsWriter(on, q, f)
    BY <1>1, <1>2 DEF InOrder, IsWriter
  <2>2. state[f] \in {"open", "lost"}
    BY <1>1, <2>1 DEF InOrder
  <2>3. state[f] = "open" => omap[o].pos = Len(typed[f]) /\ Begins(typed[f], file[f])
    BY <1>1, <2>1 DEF InOrder
  <2>4. CASE /\ file'[f] = Truncated(file[f], omap[o].pos)
             /\ state'[f] = IF omap[o].moved \/ state[f] = "lost" THEN "lost" ELSE "cut"
    <3>1. state[f] = "open" => file'[f] = typed[f]
      BY <2>3, <2>4, <1>1, CutShort
    <3>2. state'[f] # "open" /\ state'[f] # "left" /\ (state'[f] = "cut" => file'[f] = typed[f])
      BY <3>1, <2>2, <2>4
    <3> QED
      BY <3>2, <2>1, WriterGoes
  <2>5. CASE /\ file'[f] = file[f]
             /\ state'[f] = IF omap[o].moved \/ state[f] = "lost" THEN state[f] ELSE "left"
    <3>1. state'[f] # "open" /\ state'[f] # "cut" /\ (state'[f] = "left" => Begins(typed[f], file'[f]))
      BY <1>2, <2>2, <2>3, <2>5
    <3> QED
      BY <3>1, <2>1, WriterGoes
  <2> QED
    BY <2>4, <2>5, CutParts
<1>3. CASE omap[o].moved
  <2>1. \A q \in Maps : IsWriter(on, q, f) <=> IsWriter(omap, q, f)
    BY <1>3 DEF IsWriter
  <2>2. \A q \in Maps : IsWriter(omap, q, f) => on[q].pos = omap[q].pos /\ on[q].len = omap[q].len
    BY <1>3 DEF IsWriter
  <2>3. CASE state'[f] = "lost"
    BY <1>1, <2>1, <2>3 DEF InOrder
  <2>4. CASE file'[f] = file[f] /\ state'[f] = state[f]
    BY <1>1, <2>1, <2>2, <2>4, WriterStays
  <2> QED
    BY <2>3, <2>4, <1>3, CutParts
<1> QED
    BY <1>2, <1>3

LEMMA DestroyMapKeeps == ASSUME MappedInv, NEW o \in Maps, DestroyMap(o) PROVE MappedInv'
<1>1. PICK f \in Named : f = omap[o].of
    BY DEF DestroyMap, MappedInv, MappedTypes, Maplike
<1>2. Cut(o, f) /\ typed' = typed /\ chars' = chars /\ omap' = [omap EXCEPT ![o] = NoMap]
    BY <1>1 DEF DestroyMap
<1>3. /\ NoMap \in Maplike
      /\ NoMap.of \notin Named /\ ~NoMap.live
    BY NoFileAssumption DEF NoMap, Maplike
<1>4. omap'[o] = NoMap /\ \A q \in Maps : q # o => omap'[q] = omap[q]
    BY <1>2 DEF MappedInv, MappedTypes, Maplike
<1>5. MappedTypes'
    BY <1>2, <1>3, <1>4, CutParts DEF MappedInv, MappedTypes, Maplike
<1>6. ASSUME NEW g \in Named PROVE InOrder(omap, g, file[g], typed[g], state[g])'
  <2>1. \A q \in Maps : IsWriter(omap', q, g) <=> q # o /\ IsWriter(omap, q, g)
    BY <1>3, <1>4 DEF IsWriter
  <2>2. \A q \in Maps : q # o => omap'[q].pos = omap[q].pos /\ omap'[q].len = omap[q].len
    BY <1>4
  <2>3. CASE g = f
    BY <2>1, <2>2, <2>3, <1>1, <1>2, CutKeeps
  <2>4. CASE g # f
    <3>1. file'[g] = file[g] /\ state'[g] = state[g] /\ typed'[g] = typed[g]
      BY <2>4, <1>2, CutParts
    <3>2. ~IsWriter(omap, o, g)
      BY <2>4, <1>1 DEF IsWriter
    <3>3. /\ \A q \in Maps : IsWriter(omap', q, g) <=> IsWriter(omap, q, g)
          /\ \A q \in Maps : IsWriter(omap, q, g) => omap'[q].pos = omap[q].pos /\ omap'[q].len = omap[q].len
      BY <2>1, <2>2, <3>2
    <3> QED
      BY <3>1, <3>3, WriterStays DEF MappedInv
  <2> QED
    BY <2>3, <2>4
<1> QED
    BY <1>5, <1>6 DEF MappedInv

MovedMap(m, i) == [live |-> m.live, of |-> m.of, len |-> 0, pos |-> i, moved |-> TRUE]

\* When o takes the mapping of p, places hold objects as before.
LEMMA TakenOver ==
    ASSUME MappedTypes, NEW o \in Maps, NEW p \in Maps, o # p, NEW i \in Nat, NEW on,
           DOMAIN on = Maps, on = [q \in Maps |-> on[q]],
           on[o] = omap[p], on[p] = MovedMap(omap[p], i),
           \A q \in Maps : q \notin {o, p} => on[q] = omap[q]
    PROVE  /\ on \in [Maps -> Maplike]
           /\ on[p].live = omap[p].live /\ on[p].of = omap[p].of /\ on[p].moved
           /\ \A q \in Maps : on[q].live <=> on[q].of \in Named
<1>1. \A q \in Maps : omap[q] \in Maplike /\ (omap[q].live <=> omap[q].of \in Named)
    BY DEF MappedTypes, Maplike
<1>2. MovedMap(omap[p], i) \in Maplike
    BY <1>1 DEF MovedMap, Maplike
<1>3. on[p].live = omap[p].live /\ on[p].of = omap[p].of /\ on[p].moved
    BY DEF MovedMap
<1>4. \A q \in Maps : on[q] \in Maplike
    BY <1>1, <1>2
<1>5. \A q \in Maps : on[q].live <=> on[q].of \in Named
    BY <1>1, <1>3
<1> QED
    BY <1>3, <1>4, <1>5

LEMMA MoveMapKeeps ==
    ASSUME MappedInv, NEW o \in Maps, NEW p \in Maps, MoveMap(o, p) PROVE MappedInv'
<1>1. /\ o # p /\ ~omap[o].live /\ omap[p].live /\ ~omap[p].moved
      /\ omap' = [omap EXCEPT ![o] = omap[p], ![p].len = 0, ![p].pos = 0, ![p].moved = TRUE]
      /\ UNCHANGED <<file, typed, state, chars>>
    BY DEF MoveMap
<1>2. /\ DOMAIN omap' = Maps /\ omap' = [q \in Maps |-> omap'[q]]
      /\ omap'[o] = omap[p]
      /\ omap'[p] = MovedMap(omap[p], 0)
      /\ \A q \in Maps : q \notin {o, p} => omap'[q] = omap[q]
    BY <1>1 DEF MappedInv, MappedTypes, Maplike, MovedMap
<1>3. /\ omap' \in [Maps -> Maplike]
      /\ omap'[o] = omap[p]
      /\ omap'[p].of = omap[p].of /\ omap'[p].moved
      /\ \A q \in Maps : q \notin {o, p} => omap'[q] = omap[q]
      /\ \A q \in Maps : omap'[q].live <=> omap'[q].of \in Named
    BY <1>1, <1>2, TakenOver DEF MappedInv
<1>4. omap[o].of \notin Named
    BY <1>1 DEF MappedInv, MappedTypes, Maplike
<1>5. ASSUME NEW g \in Named PROVE InOrder(omap, g, file[g], typed[g], state[g])'
  <2>1. InOrder(omap, g, file[g], typed[g], state[g])
    BY DEF MappedInv
  <2>2. CASE g = omap[p].of
    <3>1. IsWriter(omap, p, g) /\ IsWriter(omap', o, g)
      BY <2>2, <1>1, <1>3 DEF IsWriter
    <3>2. \A q \in Maps : q # o => ~IsWriter(omap', q, g)
      BY <3>1, <2>1, <1>3 DEF IsWriter, InOrder
    <3>3. InOrder(omap', g, file[g], typed[g], state[g])
      <4> omap'[o].pos = omap[p].pos /\ omap'[o].len = omap[p].len
        BY <1>3
      <4> QED
        BY <3>1, <3>2, <2>1, <1>1, WriterMoves
    <3> QED
      BY <3>3, <1>1
  <2>3. CASE g # omap[p].of
    <3>1. \A q \in Maps : IsWriter(omap', q, g) <=> IsWriter(omap, q, g)
      BY <2>3, <1>3, <1>4 DEF IsWriter
    <3>2. \A q \in Maps : IsWriter(omap, q, g) => omap'[q] = omap[q]
      BY <2>3, <1>3, <1>4 DEF IsWriter
    <3>3. InOrder(omap', g, file[g], typed[g], state[g])
      BY <3>1, <3>2, <2>1, WriterStays
    <3> QED
      BY <3>3, <1>1
  <2> QED
    BY <2>2, <2>3
<1> QED
    BY <1>1, <1>3, <1>5 DEF MappedInv, MappedTypes, Maplike

LEMMA AssignMapKeeps ==
    ASSUME MappedInv, NEW o \in Maps, NEW p \in Maps, AssignMap(o, p) PROVE MappedInv'
<1>1. PICK f \in Named, g \in Named, i \in Nat :
        f = omap[o].of /\ g = omap[p].of /\ i = omap[p].pos
    BY DEF AssignMap, MappedInv, MappedTypes, Maplike
<1>2. /\ o # p /\ omap[o].live /\ omap[p].live /\ ~omap[p].moved
      /\ Cut(o, f) /\ typed' = typed /\ chars' = chars
      /\ omap' = [omap EXCEPT ![o] = omap[p], ![p].len = 0, ![p].moved = TRUE]
    BY <1>1 DEF AssignMap
<1>3. /\ DOMAIN omap' = Maps /\ omap' = [q \in Maps |-> omap'[q]]
      /\ omap'[o] = omap[p]
      /\ omap'[p] = MovedMap(omap[p], i)
      /\ \A q \in Maps : q \notin {o, p} => omap'[q] = omap[q]
    BY <1>1, <1>2 DEF MappedInv, MappedTypes, Maplike, MovedMap
<1>4. /\ omap' \in [Maps -> Maplike]
      /\ omap'[o] = omap[p]
      /\ omap'[p].of = g /\ omap'[p].moved
      /\ \A q \in Maps : q \notin {o, p} => omap'[q] = omap[q]
      /\ \A q \in Maps : omap'[q].live <=> omap'[q].of \in Named
    BY <1>1, <1>2, <1>3, TakenOver DEF MappedInv
<1>5. /\ IsWriter(omap, p, g) /\ IsWriter(omap', o, g)
      /\ \A q \in Maps : q # o => ~IsWriter(omap', q, g)
      /\ f = g => omap[o].moved
  <2>1. InOrder(omap, g, file[g], typed[g], state[g])
    BY DEF MappedInv
  <2>2. IsWriter(omap, p, g) /\ IsWriter(omap', o, g)
    BY <1>1, <1>2, <1>4 DEF IsWriter
  <2>3. \A q \in Maps : IsWriter(omap, q, g) => q = p
    BY <2>1, <2>2 DEF InOrder
  <2> QED
    BY <2>2, <2>3, <1>1, <1>2, <1>4 DEF IsWriter
\* The file of p, whose object has gone only if that was not its writer.
<1>6. InOrder(omap, g, file'[g], typed[g], state'[g])
  <2>1. CASE g = f
    <3>1. \A q \in Maps : IsWriter(omap, q, f) <=> q # o /\ IsWriter(omap, q, f)
      BY <2>1, <1>5 DEF IsWriter
    <3> QED
      BY <3>1, <2>1, <1>1, <1>2, CutKeeps
  <2>2. CASE g # f
    BY <2>2, <1>2, CutParts DEF MappedInv
  <2> QED
    BY <2>1, <2>2
<1>7. InOrder(omap, g, file[g], typed[g], state[g])'
  <2>1. InOrder(omap', g, file'[g], typed[g], state'[g])
    <3> omap'[o].pos = omap[p].pos /\ omap'[o].len = omap[p].len
      BY <1>4
    <3> QED
      BY <1>2, <1>5, <1>6, WriterMoves
  <2> QED
    BY <2>1, <1>2
<1>8. ASSUME NEW h \in Named, h # g PROVE InOrder(omap, h, file[h], typed[h], state[h])'
  <2>1. \A q \in Maps : IsWriter(omap', q, h) <=> q # o /\ IsWriter(omap, q, h)
    BY <1>8, <1>1, <1>4 DEF IsWriter
  <2>2. \A q \in Maps : q # o /\ IsWriter(omap, q, h) => omap'[q] = omap[q]
    BY <1>8, <1>1, <1>4 DEF IsWriter
  <2>3. CASE h = f
    <3>1. InOrder(omap', h, file'[h], typed[h], state'[h])
      BY <2>1, <2>2, <2>3, <1>1, <1>2, CutKeeps
    <3> QED
      BY <3>1, <1>2
  <2>4. CASE h # f
    <3>1. ~IsWriter(omap, o, h)
      BY <2>4, <1>1 DEF IsWriter
    <3>2. \A q \in Maps : IsWriter(omap', q, h) <=> IsWriter(omap, q, h)
      BY <2>1, <3>1
    <3>3. \A q \in Maps : IsWriter(omap, q, h) => omap'[q].pos = omap[q].pos /\ omap'[q].len = omap[q].len
      BY <2>2, <3>1
    <3>4. file'[h] = file[h] /\ state'[h] = state[h] /\ typed'[h] = typed[h]
      BY <2>4, <1>2, CutParts
    <3>5. InOrder(omap, h, file[h], typed[h], state[h])
      BY DEF MappedInv
    <3> QED
      BY <3>2, <3>3, <3>4, <3>5, WriterStays
  <2> QED
    BY <2>3, <2>4
<1>9. MappedTypes'
    BY <1>2, <1>4, CutParts DEF MappedInv, MappedTypes, Maplike
<1> QED
    BY <1>7, <1>8, <1>9 DEF MappedInv

LEMMA MappedStep == MappedInv /\ [MappedNext]_mVars => MappedInv'
<1> SUFFICES ASSUME MappedInv, [MappedNext]_mVars PROVE MappedInv'
    OBVIOUS
<1>1. ASSUME NEW o \in Maps, NEW n \in 0..3,
             LET t == [i \in 1..n |-> chars + i] IN WriteMap(o, t) \/ (n = 1 /\ PutMap(o, t[1]))
      PROVE  MappedInv'
  <2> DEFINE t == [i \in 1..n |-> chars + i]
  <2>1. t \in [1..n -> Nat] /\ (n = 1 => t[1] \in Nat) /\ n \in Nat
    BY DEF MappedInv, MappedTypes, Maplike
  <2>2. t \in Text
    BY <2>1, OfLength DEF Text
  <2> HIDE DEF t
  <2>3. WriteMap(o, t) \/ (n = 1 /\ PutMap(o, t[1]))
    BY <1>1 DEF t
  <2> QED
    BY <2>1, <2>2, <2>3, WriteMapKeeps, PutMapKeeps
<1>2. ASSUME NEW o \in Maps, NEW n \in 1..MaxSize, ReserveMap(o, n) \/ MapThrows(o, n)
      PROVE  MappedInv'
  <2>1. n \in Nat
    BY InitSizeAssumption
  <2> QED
    BY <2>1, <1>2, ReserveMapKeeps, MapThrowsKeeps
<1>3. CASE UNCHANGED mVars
    BY <1>3 DEF mVars, MappedInv, MappedTypes, Maplike, InOrder, IsWriter
<1> QED
    BY <1>1, <1>2, <1>3, OpenMapKeeps, DestroyMapKeeps, MoveMapKeeps, AssignMapKeeps DEF MappedNext

\* The part of MapIsText that is about mapped files.
LEMMA MappedIsText ==
    ASSUME MappedInv
    PROVE  /\ MappedText
           /\ \A o \in Maps :
                /\ omap[o].live <=> omap[o].of \in Named
                /\ Writes(o) => omap[o].pos <= omap[o].len /\ omap[o].len <= Len(file[omap[o].of])
<1>1. ASSUME NEW f \in Named
      PROVE  /\ state[f] \in {"open", "left"} => IsPrefix(typed[f], file[f])
             /\ state[f] = "open" =>
                  \E o \in Maps : omap[o].of = f /\ ~omap[o].moved /\ omap[o].pos = Len(typed[f])
             /\ state[f] = "cut" => file[f] = typed[f]
  <2>1. InOrder(omap, f, file[f], typed[f], state[f]) /\ file[f] \in Text /\ typed[f] \in Text
    BY DEF MappedInv, MappedTypes, Maplike
  <2> QED
    BY <2>1, BeginsPrefix DEF InOrder, IsWriter
<1>2. MappedText
    BY <1>1 DEF MappedText
<1> QED
    BY <1>2, WriterParts DEF MappedInv, MappedTypes, Maplike

\* The parts of the type invariant that are about the FILE.
LEMMA FileTypes ==
    ASSUME CInv
    PROVE  /\ fp.at \in 0..Len(OldText) + MaxChars /\ fp.room \in BOOLEAN
           /\ \A i \in DOMAIN disk : disk[i] \in -MaxChars..MaxChars
           /\ count \in 0..MaxChars
<1>1. fp.at \in Nat /\ fp.pend \in Lines /\ count \in 0..MaxChars /\ disk \in Lines /\ fp.room \in BOOLEAN
    BY DEF CInv, CTypes
<1>2. fp.at + Len(fp.pend) <= count /\ Len(fp.pend) \in Nat
    BY <1>1 DEF CInv, Counted, Lines
<1>3. Len(OldText) \in Nat
    BY Old, Sizes
<1> QED
    BY <1>1, <1>2, <1>3, Sizes DEF Lines, Letters

\* At every moment a mapped file begins with the text written to it, by an object that
\* stays inside the mapping and the mapping inside the file, and it is the text once
\* the object has gone; and what the devices hold is of its kind.
THEOREM TextMapped == Spec => []MapIsText
<1> DEFINE Inv == MappedInv /\ CInv /\ SyncedInv /\ SyncLimits
<1>1. Init => Inv
    BY MappedStart, CStart, SyncedStart, LimitsStart DEF Init
<1>2. Inv /\ [Next]_vars => Inv'
  <2>1. [Next]_vars => [MappedNext]_mVars /\ [CStreamNext]_cVars /\ [SyncedNext]_sVars
    BY DEF Next, vars, mVars, cVars, sVars
  <2> QED
    BY <2>1, MappedStep, CStep, SyncedStep, LimitsStep
<1>3. Inv => MapIsText
  <2> SUFFICES ASSUME Inv PROVE MapIsText
    OBVIOUS
  <2>1. TypeOK
    BY MappedIsText, FileTypes DEF TypeOK, SyncLimits
  <2> QED
    BY <2>1, MappedIsText DEF MapIsText
<1> QED
    BY <1>1, <1>2, <1>3, PTL DEF Spec
================================================================================
