------------------------------ MODULE FileRefs -------------------------------
(***************************************************************************)
(* What RAII promises for file objects: every object refers to an open     *)
(* file, to nothing, or does not exist, and a call changes what the        *)
(* objects it is made on refer to and no others.  Module PosixFile         *)
(* implements it with descriptors, module Win32Handles with handles.       *)
(***************************************************************************)
CONSTANTS
    Obj,       \* places where a file object may live
    Desc,      \* open files
    None,      \* refers to nothing (fd == -1)
    Dead       \* no object lives there

VARIABLES
    refers,    \* what each object refers to
    lent,      \* files whose descriptor was taken out of an object by detach
    broken     \* nothing is promised any more

rVars == <<refers, lent, broken>>

RefsInit ==
    /\ refers = [o \in Obj |-> Dead]
    /\ lent = {}
    /\ broken = FALSE

Sound == ~broken /\ ~broken'

IsOpen(d) == d \in lent \/ \E o \in Obj : refers[o] = d

Default(o) ==
    /\ Sound
    /\ refers[o] = Dead
    /\ refers' = [refers EXCEPT ![o] = None]
    /\ UNCHANGED lent

\* A new file, that nobody referred to.
OpenNew(o, d) ==
    /\ Sound
    /\ refers[o] = Dead
    /\ ~IsOpen(d)
    /\ refers' = [refers EXCEPT ![o] = d]
    /\ UNCHANGED lent

OpenPair(o, p, d, e) ==
    /\ Sound
    /\ refers[o] = Dead /\ refers[p] = Dead /\ o # p
    /\ ~IsOpen(d) /\ ~IsOpen(e) /\ d # e
    /\ refers' = [refers EXCEPT ![o] = d, ![p] = e]
    /\ UNCHANGED lent

\* o comes to refer to what p refers to.
Share(o, p) ==
    /\ Sound
    /\ refers[p] \in Desc
    /\ refers' = [refers EXCEPT ![o] = refers[p]]
    /\ UNCHANGED lent

\* o takes over what p refers to, and p is left with nothing.
Steal(o, p) ==
    /\ Sound
    /\ o # p
    /\ refers[p] # Dead
    /\ refers' = [refers EXCEPT ![o] = refers[p], ![p] = None]
    /\ UNCHANGED lent

Release(o) ==
    /\ Sound
    /\ refers[o] \in Desc
    /\ refers' = [refers EXCEPT ![o] = None]
    /\ lent' = lent \cup {refers[o]}

\* A descriptor that detach gave out becomes an object again.
Adopt(o, d) ==
    /\ Sound
    /\ refers[o] = Dead
    /\ d \in lent
    /\ refers' = [refers EXCEPT ![o] = d]
    /\ lent' \in {lent, lent \ {d}}

End(o) ==
    /\ Sound
    /\ refers' = [refers EXCEPT ![o] = Dead]
    /\ UNCHANGED lent

\* o lets go of what it refers to.
Close(o) ==
    /\ Sound
    /\ refers[o] \in Desc
    /\ refers' = [refers EXCEPT ![o] = None]
    /\ UNCHANGED lent

Break == broken'

RefsNext ==
    \/ \E o \in Obj :
        \/ Default(o)
        \/ \E d \in Desc : OpenNew(o, d) \/ Adopt(o, d)
        \/ \E p \in Obj : \/ Share(o, p)
                          \/ Steal(o, p)
                          \/ \E d, e \in Desc : OpenPair(o, p, d, e)
        \/ Release(o)
        \/ End(o) \/ Close(o)
    \/ Break

RefsSpec == RefsInit /\ [][RefsNext]_rVars
===============================================================================
