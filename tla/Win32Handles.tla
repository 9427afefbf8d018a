----------------------------- MODULE Win32Handles -----------------------------
(***************************************************************************)
(* The classes that own a handle of Windows: basic_win32_file and          *)
(* basic_win32_io_handle (platforms/win32.h), basic_win32_memory_file      *)
(* (driver/win32_memory.h), win32_file_mapping and win32_map_view_of_file  *)
(* (platforms/win32_mapping.h), win32_internet_handle, win32_library.      *)
(*                                                                         *)
(* They differ in what they declare.  A class with a destructor and no     *)
(* move of its own is copied when it is moved (DuplicateHandle); the io    *)
(* handle has moves and no destructor; the others have a destructor and    *)
(* moves.  A number that was closed may be any later call's, so that each  *)
(* call to the system is a step.  A call that throws before it changes     *)
(* anything is not a step: one on an empty object, a copy when the table   *)
(* is full, an open that fails, and an open with ate whose seek fails,     *)
(* which closes once what it opened.                                       *)
(***************************************************************************)
EXTENDS Integers

CONSTANTS
    Places,    \* places for objects, in no order but for Kinds
    Values,    \* the values a handle may have, none of them null
    Opened,    \* what the system may have open
    Unused,    \* the entry of a value that is no handle
    Kinds      \* bound: the classes tried, everywhere the same, or io handles before files

Null == 0
NoObject == -1

ASSUME PlacesAssumption == Places \subseteq Nat
ASSUME ValuesAssumption == Values \subseteq Nat \ {0}
ASSUME OpenedAssumption == Opened \cap {Unused, Null, NoObject} = {}

VARIABLES
    open,      \* what each handle stands for
    kind,      \* the class of the objects at each place
    hd,        \* the handle in each object
    phase,     \* "whole", or "unwinds" when a delegating constructor threw
    lent,      \* handles taken out of an object by detach or release
    shut,     \* history: objects that close() left with the handle it closed
    harmed     \* history: a number was closed or copied that is another object's

wVars == <<open, kind, hd, phase, lent, shut, harmed>>

\* The classes with a copy constructor, with a move, with a destructor (those
\* open what they own), with a member that lets the handle go, and with
\* constructors of an empty object and from a handle.
Copies == {"file", "io handle", "memory"}
Moves == {"io handle", "mapping", "view", "internet", "library"}
Destroys == {"file", "memory", "mapping", "view", "internet", "library"}
Detaches == {"file", "io handle", "memory"}
Adopts == {"file", "io handle", "memory", "internet"}

HandlesInit ==
    /\ open = [h \in Values |-> Unused]
    /\ kind \in [Places -> Kinds]
    /\ \A o, p \in Places : o < p => kind[o] = kind[p] \/ <<kind[o], kind[p]>> = <<"io handle", "file">>
    /\ hd = [o \in Places |-> NoObject]
    /\ phase = [o \in Places |-> "whole"]
    /\ lent = {} /\ shut = {} /\ harmed = FALSE

Live(o) == hd[o] # NoObject /\ phase[o] = "whole" /\ ~harmed
Vacant(o) == hd[o] = NoObject /\ ~harmed
HasHandle(o) == Live(o) /\ hd[o] # Null

Fresh(d) == \A h \in Values : open[h] # d

\* CloseHandle, UnmapViewOfFile, InternetCloseHandle, FreeLibrary
\* of what the object has; null is not closed.
CloseOf(o) == IF hd[o] \in Values THEN [open EXCEPT ![hd[o]] = Unused] ELSE open

\* A number that the object has no right to any more, and another has.
Harms(o) == (o \in shut \/ phase[o] = "unwinds") /\ hd[o] \in Values /\ open[hd[o]] # Unused

-------------------------------------------------------------------------------
(* Constructors *)

EmptyObject(o) ==
    /\ Vacant(o) /\ kind[o] \in Adopts
    /\ hd' = [hd EXCEPT ![o] = Null]
    /\ UNCHANGED <<open, kind, phase, lent, shut, harmed>>

OpenHandle(o, then) ==
    /\ Vacant(o) /\ kind[o] \in Destroys
    /\ \E h \in Values, d \in Opened :
        /\ open[h] = Unused /\ Fresh(d)
        /\ open' = [open EXCEPT ![h] = d]
        /\ hd' = [hd EXCEPT ![o] = h]
    /\ phase' = [phase EXCEPT ![o] = then]
    /\ UNCHANGED <<kind, lent, shut, harmed>>

\* basic_win32_file(io_async, ...): the file is opened by the constructor that
\* this one delegates to, and attached to a completion port.
OpenAsync(o) == kind[o] = "file" /\ OpenHandle(o, "attaches")

\* When the port cannot be attached the guard closes the file, and the object,
\* which the delegation completed, has still to be destroyed.
Attach(o) ==
    /\ phase[o] = "attaches" /\ ~harmed
    /\ \/ /\ phase' = [phase EXCEPT ![o] = "whole"]
          /\ UNCHANGED open
       \/ /\ phase' = [phase EXCEPT ![o] = "unwinds"]
          /\ open' = CloseOf(o)
    /\ UNCHANGED <<kind, hd, lent, shut, harmed>>

UnwindAsync(o) ==
    /\ phase[o] = "unwinds" /\ ~harmed
    /\ harmed' = Harms(o)
    /\ open' = CloseOf(o)
    /\ hd' = [hd EXCEPT ![o] = NoObject]
    /\ phase' = [phase EXCEPT ![o] = "whole"]
    /\ UNCHANGED <<kind, lent, shut>>

\* basic_win32_pipe()
OpenPipe(o, p) ==
    /\ o # p /\ Vacant(o) /\ Vacant(p) /\ kind[o] = "file" /\ kind[p] = "file"
    /\ \E h, g \in Values, d, e \in Opened :
        /\ open[h] = Unused /\ open[g] = Unused /\ Fresh(d) /\ Fresh(e) /\ h # g /\ d # e
        /\ open' = [open EXCEPT ![h] = d, ![g] = e]
        /\ hd' = [hd EXCEPT ![o] = h, ![p] = g]
    /\ UNCHANGED <<kind, phase, lent, shut, harmed>>

\* An object of p's class, or the base of it.
Takes(o, p) == kind[o] = kind[p] \/ kind[o] = "io handle"

\* The copy constructor, and the move of a class without one: DuplicateHandle
\* gives a new handle of what the old one stands for.
CopyObject(o, p) ==
    /\ Vacant(o) /\ HasHandle(p) /\ Takes(o, p) /\ kind[o] \in Copies
    /\ open[hd[p]] # Unused
    /\ \E h \in Values :
        /\ open[h] = Unused
        /\ open' = [open EXCEPT ![h] = open[hd[p]]]
        /\ hd' = [hd EXCEPT ![o] = h]
    /\ harmed' = Harms(p)
    /\ UNCHANGED <<kind, phase, lent, shut>>

AdoptHandle(o, h) ==
    /\ Vacant(o) /\ h \in lent /\ kind[o] \in Adopts
    /\ hd' = [hd EXCEPT ![o] = h]
    /\ lent' = lent \ {h}
    /\ UNCHANGED <<open, kind, phase, shut, harmed>>

\* A bug: the source keeps its handle.
MoveObjectKeeping(o, p) ==
    /\ Vacant(o) /\ Live(p) /\ Takes(o, p) /\ kind[o] \in Moves
    /\ hd' = [hd EXCEPT ![o] = hd[p]]
    /\ UNCHANGED <<open, kind, phase, lent, shut, harmed>>

\* What o is left with when it takes p's handle, shut or not.
Moved(o, p) ==
    /\ hd' = [hd EXCEPT ![o] = hd[p], ![p] = Null]
    /\ shut' = IF p \in shut THEN (shut \ {p}) \cup {o} ELSE shut \ {o}

MoveObject(o, p) ==
    /\ Vacant(o) /\ Live(p) /\ Takes(o, p) /\ kind[o] \in Moves
    /\ Moved(o, p)
    /\ UNCHANGED <<open, kind, phase, lent, harmed>>

-------------------------------------------------------------------------------
(* Assignments, close, detach, destructors *)

\* A bug: the handle so far is closed, then the other's number is copied.
AssignNumber(o, p) ==
    /\ Live(o) /\ HasHandle(p) /\ Takes(o, p) /\ kind[o] \in Copies
    /\ harmed' = Harms(o)
    /\ open' = CloseOf(o)
    /\ hd' = [hd EXCEPT ![o] = hd[p]]
    /\ UNCHANGED <<kind, phase, lent, shut>>

\* operator=(const&): the copy is made, then the handle so far is closed.
AssignCopy(o, p) ==
    /\ Live(o) /\ HasHandle(p) /\ Takes(o, p) /\ kind[o] \in Copies
    /\ open[hd[p]] # Unused
    /\ \E h \in Values :
        /\ open[h] = Unused
        /\ open' = [g \in Values |-> IF g = hd[o] THEN Unused
                                    ELSE IF g = h THEN open[hd[p]] ELSE open[g]]
        /\ hd' = [hd EXCEPT ![o] = h]
        /\ shut' = IF h = hd[o] THEN shut ELSE shut \ {o}
    /\ harmed' = (Harms(o) \/ Harms(p))
    /\ UNCHANGED <<kind, phase, lent>>

\* operator=(&&): the io handle and the view compare addresses, the others
\* their handles.
AssignMove(o, p) ==
    /\ Live(o) /\ Live(p) /\ Takes(o, p) /\ kind[o] \in Moves
    /\ IF kind[o] \in {"io handle", "view"} THEN o # p ELSE hd[o] # hd[p]
    /\ harmed' = Harms(o)
    /\ open' = CloseOf(o)
    /\ Moved(o, p)
    /\ UNCHANGED <<kind, phase, lent>>

\* close(), with the test as it is in basic_win32_memory_file and the others.
CloseRight(o) ==
    /\ HasHandle(o) /\ kind[o] \in {"memory", "mapping", "view", "internet"}
    /\ open' = CloseOf(o)
    /\ hd' = [hd EXCEPT ![o] = Null]
    /\ UNCHANGED <<kind, phase, lent, shut, harmed>>

\* close() of basic_win32_file throws when CloseHandle succeeds, and the object
\* keeps the number; it forgets the number when CloseHandle fails.
CloseFile(o) ==
    /\ HasHandle(o) /\ kind[o] = "file"
    /\ harmed' = Harms(o)
    /\ open' = CloseOf(o)
    /\ IF open[hd[o]] # Unused
       THEN shut' = shut \cup {o} /\ UNCHANGED hd
       ELSE shut' = shut \ {o} /\ hd' = [hd EXCEPT ![o] = Null]
    /\ UNCHANGED <<kind, phase, lent>>

DetachHandle(o) ==
    /\ HasHandle(o) /\ kind[o] \in Detaches
    /\ hd' = [hd EXCEPT ![o] = Null]
    /\ lent' = IF o \in shut THEN lent ELSE lent \cup {hd[o]}
    /\ shut' = shut \ {o}
    /\ UNCHANGED <<open, kind, phase, harmed>>

\* The destructors.  An io handle is dropped only when it is empty.
DestroyObject(o) ==
    /\ Live(o) /\ (kind[o] \in Destroys \/ hd[o] = Null)
    /\ harmed' = Harms(o)
    /\ open' = CloseOf(o)
    /\ hd' = [hd EXCEPT ![o] = NoObject]
    /\ shut' = shut \ {o}
    /\ UNCHANGED <<kind, phase, lent>>

HandlesNext ==
    \/ \E o \in Places :
        \/ EmptyObject(o) \/ OpenHandle(o, "whole")
        \/ OpenAsync(o) \/ Attach(o) \/ UnwindAsync(o)
        \/ CloseRight(o) \/ CloseFile(o) \/ DetachHandle(o) \/ DestroyObject(o)
        \/ \E h \in Values : AdoptHandle(o, h)
    \/ \E o, p \in Places :
        \/ OpenPipe(o, p) \/ CopyObject(o, p) \/ MoveObject(o, p)
        \/ AssignCopy(o, p) \/ AssignMove(o, p)

HandlesSpec == HandlesInit /\ [][HandlesNext]_wVars
-------------------------------------------------------------------------------

\* The object has a handle that it has not closed yet.
OwnsHandle(o) == hd[o] \in Values /\ o \notin shut /\ phase[o] # "unwinds"

\* What is open has one owner and what an object owns is open, whatever the
\* class and the sequence of calls, until a number is closed a second time
\* that is another's by then; which only close() of a file that succeeded
\* and a constructor that could not attach its file bring about.
HandlesAreOwned ==
    /\ ~harmed =>
        /\ \A h \in Values : open[h] # Unused <=> h \in lent \/ \E o \in Places : OwnsHandle(o) /\ hd[o] = h
        /\ \A o, p \in Places : OwnsHandle(o) /\ OwnsHandle(p) /\ hd[o] = hd[p] => o = p
        /\ \A o \in Places : OwnsHandle(o) => hd[o] \notin lent
    /\ \A o \in shut : kind[o] \in {"file", "io handle"} /\ hd[o] \in Values

\* On Windows, too, no call changes what any other object refers to: RefsSpec,
\* of which TLC skips the steps that change nothing here.
HandleRefs == INSTANCE FileRefs WITH
    Obj <- Places, Desc <- Opened, None <- Null, Dead <- NoObject,
    refers <- [o \in Places |->
                IF phase[o] = "unwinds" THEN NoObject
                ELSE IF o \in shut THEN Null
                ELSE IF hd[o] \in Values THEN open[hd[o]] ELSE hd[o]],
    lent <- {open[h] : h \in lent},
    broken <- harmed

HandlesImplementFileRefs ==
    /\ HandleRefs!RefsInit
    /\ [][wVars' # wVars => [HandleRefs!RefsNext]_(HandleRefs!rVars)]_wVars
===============================================================================
