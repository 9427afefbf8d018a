------------------------------ MODULE PosixFile ------------------------------
(***************************************************************************)
(* basic_posix_io_handle, basic_posix_file and basic_posix_pipe            *)
(* (fast_io_hosted/platforms/posix.h): objects that own descriptors.       *)
(*                                                                         *)
(* basic_posix_file declares a destructor and so has no move operations:   *)
(* moving one copies it (dup, dup2).  A basic_posix_io_handle, its base,   *)
(* has move operations, may be moved into from either class, and has no    *)
(* destructor.                                                             *)
(*                                                                         *)
(* Each step makes one system call, so that calls of several threads on    *)
(* different objects interleave as they do in the kernel.  A call that     *)
(* throws before it changes anything (dup of -1, a full table, dup2 onto a *)
(* default-constructed object) is not a step.                              *)
(***************************************************************************)
EXTENDS FdTable

CONSTANTS
    Files,     \* places for basic_posix_file objects
    Handles,   \* places for basic_posix_io_handle objects
    None,      \* fd == -1
    Dead       \* no object lives there

ASSUME PlacesAssumption == Files \cap Handles = {}
ASSUME MarksAssumption ==
    /\ None \notin Fds \cup Desc \cup {Dead}
    /\ Dead \notin Fds \cup Desc
    /\ Free \notin {None, Dead}

VARIABLES
    table,     \* the descriptor table
    ref,       \* the fd of each object
    building,  \* constructors in progress: "seek" at end, "unwind", or "no"
    loose,     \* descriptors taken out of an object by detach
    harmed     \* history: a second close hit a descriptor opened since

vars == <<table, ref, building, loose, harmed>>

Obj == Files \cup Handles

Init ==
    /\ table = [fd \in Fds |-> Free]
    /\ ref = [o \in Obj |-> Dead]
    /\ building = [o \in Obj |-> "no"]
    /\ loose = {}
    /\ harmed = FALSE

\* An object a client may use.
Live(o) == ref[o] # Dead /\ building[o] = "no"

Holds(o) == Live(o) /\ ref[o] \in Fds

-------------------------------------------------------------------------------
(* Constructors *)

\* basic_posix_file(), basic_posix_io_handle()
Default(o) ==
    /\ ref[o] = Dead
    /\ ref' = [ref EXCEPT ![o] = None]
    /\ UNCHANGED <<table, building, loose, harmed>>

\* basic_posix_file(native_interface, ...): openat
Openat(o) ==
    /\ ref[o] = Dead
    /\ \E fd \in Fds, d \in Desc :
        /\ IsLowestFree(table, fd)
        /\ IsFresh(table, d)
        /\ table' = Install(table, fd, d)
        /\ ref' = [ref EXCEPT ![o] = fd]
    /\ UNCHANGED <<loose, harmed>>

Open(o) ==
    /\ o \in Files
    /\ Openat(o)
    /\ UNCHANGED building

\* With open_mode::ate a delegating constructor has still to seek to the end.
OpenAte(o) ==
    /\ o \in Files
    /\ Openat(o)
    /\ building' = [building EXCEPT ![o] = "seek"]

\* seek_end_local: a second object with the same fd is detached when the seek
\* succeeded, and closes the descriptor when it threw.
SeekEndLocal(o) ==
    /\ building[o] = "seek"
    /\ \/ /\ building' = [building EXCEPT ![o] = "no"]
          /\ UNCHANGED table
       \/ /\ building' = [building EXCEPT ![o] = "unwind"]
          /\ table' = CloseFd(table, ref[o])
    /\ UNCHANGED <<ref, loose, harmed>>

\* The exception leaves the delegating constructor, whose target had finished,
\* so the destructor of the object closes the same number again.
Unwind(o) ==
    /\ building[o] = "unwind"
    /\ table' = CloseFd(table, ref[o])
    /\ harmed' = (harmed \/ table[ref[o]] # Free)
    /\ ref' = [ref EXCEPT ![o] = Dead]
    /\ building' = [building EXCEPT ![o] = "no"]
    /\ UNCHANGED loose

\* basic_posix_pipe(): two default-constructed files, given both ends.
Pipe(o, p) ==
    /\ {o, p} \subseteq Files /\ o # p
    /\ ref[o] = Dead /\ ref[p] = Dead
    /\ \E fd, g \in Fds, d, e \in Desc :
        /\ IsLowestFree(table, fd) /\ IsFresh(table, d)
        /\ IsLowestFree(Install(table, fd, d), g)
        /\ IsFresh(Install(table, fd, d), e)
        /\ table' = Install(Install(table, fd, d), g, e)
        /\ ref' = [ref EXCEPT ![o] = fd, ![p] = g]
    /\ UNCHANGED <<building, loose, harmed>>

\* A bug: the error that dup returned is kept as the descriptor.
CopyConstructUnchecked(o, p) ==
    /\ ref[o] = Dead
    /\ Holds(p)
    /\ o \in Files => p \in Files
    /\ \/ \E fd \in Fds :
            /\ IsLowestFree(table, fd)
            /\ table' = Install(table, fd, table[ref[p]])
            /\ ref' = [ref EXCEPT ![o] = fd]
       \/ /\ \A fd \in Fds : table[fd] # Free
          /\ ref' = [ref EXCEPT ![o] = -24]
          /\ UNCHANGED table
    /\ UNCHANGED <<building, loose, harmed>>

\* basic_posix_io_handle(basic_posix_io_handle const&): dup.  It is the move
\* constructor of basic_posix_file too.
CopyConstruct(o, p) ==
    /\ ref[o] = Dead
    /\ Holds(p)
    /\ o \in Files => p \in Files
    /\ \E fd \in Fds :
        /\ IsLowestFree(table, fd)
        /\ table' = Install(table, fd, table[ref[p]])
        /\ ref' = [ref EXCEPT ![o] = fd]
    /\ UNCHANGED <<building, loose, harmed>>

\* basic_posix_file(int), basic_posix_io_handle(int)
Adopt(o, fd) ==
    /\ ref[o] = Dead
    /\ fd \in loose
    /\ ref' = [ref EXCEPT ![o] = fd]
    /\ loose' = loose \ {fd}
    /\ UNCHANGED <<table, building, harmed>>

\* basic_posix_io_handle(basic_posix_io_handle&&)
MoveConstruct(o, p) ==
    /\ o \in Handles
    /\ ref[o] = Dead
    /\ Live(p)
    /\ ref' = [ref EXCEPT ![o] = ref[p], ![p] = None]
    /\ UNCHANGED <<table, building, loose, harmed>>

-------------------------------------------------------------------------------
(* Assignments, detach, destructor *)

\* A bug: the number is copied and the file is not.
CopyAssignNumber(o, p) ==
    /\ Holds(o) /\ Holds(p)
    /\ o \in Files => p \in Files
    /\ ref' = [ref EXCEPT ![o] = ref[p]]
    /\ UNCHANGED <<table, building, loose, harmed>>

\* operator=(basic_posix_io_handle const&): dup2; the object keeps its number.
\* It is the move assignment of basic_posix_file too.
CopyAssign(o, p) ==
    /\ Holds(o) /\ Holds(p)
    /\ o \in Files => p \in Files
    /\ table' = Dup2(table, ref[p], ref[o])
    /\ UNCHANGED <<ref, building, loose, harmed>>

\* A bug: the descriptor held so far is not closed.
MoveAssignOver(o, p) ==
    /\ o \in Handles
    /\ Live(o) /\ Live(p)
    /\ ref[p] # ref[o]
    /\ ref' = [ref EXCEPT ![o] = ref[p], ![p] = None]
    /\ UNCHANGED <<table, building, loose, harmed>>

\* operator=(basic_posix_io_handle&&)
MoveAssign(o, p) ==
    /\ o \in Handles
    /\ Live(o) /\ Live(p)
    /\ ref[p] # ref[o]
    /\ table' = IF ref[o] \in Fds THEN CloseFd(table, ref[o]) ELSE table
    /\ ref' = [ref EXCEPT ![o] = ref[p], ![p] = None]
    /\ UNCHANGED <<building, loose, harmed>>

Detach(o) ==
    /\ Holds(o)
    /\ loose' = loose \cup {ref[o]}
    /\ ref' = [ref EXCEPT ![o] = None]
    /\ UNCHANGED <<table, building, harmed>>

\* ~basic_posix_file.  A basic_posix_io_handle is only dropped empty.
Destroy(o) ==
    /\ Live(o)
    /\ o \in Handles => ref[o] = None
    /\ table' = IF ref[o] \in Fds THEN CloseFd(table, ref[o]) ELSE table
    /\ ref' = [ref EXCEPT ![o] = Dead]
    /\ UNCHANGED <<building, loose, harmed>>

Next ==
    \/ \E o \in Obj :
        \/ Default(o) \/ Open(o) \/ OpenAte(o) \/ SeekEndLocal(o) \/ Unwind(o)
        \/ Detach(o) \/ Destroy(o)
    \/ \E o, p \in Obj :
        \/ Pipe(o, p) \/ CopyConstruct(o, p) \/ MoveConstruct(o, p)
        \/ CopyAssign(o, p) \/ MoveAssign(o, p)
    \/ \E o \in Obj, fd \in Fds : Adopt(o, fd)

Spec == Init /\ [][Next]_vars

-------------------------------------------------------------------------------
(* Properties *)

\* The state is of the right type.
TypeOK ==
    /\ table \in [Fds -> Desc \cup {Free}]
    /\ ref \in [Obj -> Fds \cup {None, Dead}]
    /\ building \in [Obj -> {"no", "seek", "unwind"}]
    /\ \A o \in Obj : building[o] # "no" => o \in Files /\ ref[o] \in Fds
    /\ loose \subseteq Fds
    /\ harmed \in BOOLEAN

\* The object has a descriptor that it has not closed yet.
Owns(o) == ref[o] \in Fds /\ building[o] # "unwind"

\* Each descriptor a constructor, copy or detach put somewhere has one owner,
\* whatever the objects go through.
OneOwner ==
    /\ \A o, p \in Obj : Owns(o) /\ Owns(p) /\ ref[o] = ref[p] => o = p
    /\ \A o \in Obj : Owns(o) => ref[o] \notin loose

\* What an owner has is open ...
OwnedIsOpen ==
    /\ \A o \in Obj : Owns(o) => table[ref[o]] # Free
    /\ \A fd \in loose : table[fd] # Free

\* ... and what is open has an owner: nothing leaks.
OpenIsOwned ==
    \A fd \in Fds :
        table[fd] # Free => fd \in loose \/ \E o \in Obj : Owns(o) /\ ref[o] = fd

\* RAII: open descriptors and owners match one to one, until the second close
\* of a failed open hits a descriptor that another thread opened in between.
DescriptorsAreOwned == ~harmed => OneOwner /\ OwnedIsOpen /\ OpenIsOwned

\* No call changes what any other object refers to: descriptors implement
\* references to files.
Refs == INSTANCE FileRefs WITH
            refers <- [o \in Obj |->
                        IF building[o] = "unwind" THEN Dead
                        ELSE IF ref[o] \in Fds THEN table[ref[o]] ELSE ref[o]],
            lent <- {table[fd] : fd \in loose},
            broken <- harmed

ImplementsFileRefs == Refs!RefsSpec
===============================================================================
