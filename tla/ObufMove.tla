------------------------------- MODULE ObufMove -------------------------------
(***************************************************************************)
(* The life of basic_obuf objects over POSIX files                         *)
(* (fast_io_freestanding_impl/iobuf.h with platforms/posix.h): who owns the *)
(* buffer blocks and the descriptors when streams are created, moved,      *)
(* assigned and destroyed with characters still pending.                   *)
(*                                                                         *)
(* The handle of a stream is a basic_posix_file, whose operations are those *)
(* of module PosixFile: moving it duplicates the descriptor.  The move     *)
(* operations of basic_obuf are noexcept, so an exception of the handle's  *)
(* ends the program.  Device writes here take all they are given and throw *)
(* only on fd == -1; module Obuf has the other cases and the branches of   *)
(* write.                                                                  *)
(***************************************************************************)
EXTENDS FdTable, Sequences

CONSTANTS
    Streams,   \* places for basic_obuf objects
    None,      \* fd == -1
    Dead,      \* no object lives there
    Blocks,    \* what operator new can return
    Null,      \* nullptr
    Size,      \* characters a block holds
    Chars      \* distinct characters, each written at most once

ASSUME SizeAssumption == Size \in Nat \ {0}
ASSUME NullAssumption == Null \notin Blocks \cup Desc
ASSUME MarksAssumption ==
    /\ None \notin Fds \cup Desc \cup {Dead}
    /\ Dead \notin Fds \cup Desc
    /\ Free \notin {None, Dead}

VARIABLES
    table, ref, building, loose, harmed,    \* as in PosixFile
    heap,      \* the blocks that are allocated
    beg,       \* obuffer.beg of each stream: its block or Null
    pend,      \* what lies in [beg, curr)
    disk,      \* what has been written to each file
    meant,     \* history: the file each character was written for
    leaked,    \* history: a block was lost
    up         \* the program has not been terminated

fileVars == <<table, ref, building, loose, harmed>>
vars == <<fileVars, heap, beg, pend, disk, meant, leaked, up>>

P == INSTANCE PosixFile WITH Files <- Streams, Handles <- {}

Init ==
    /\ P!Init
    /\ heap = {}
    /\ beg = [s \in Streams |-> Null]
    /\ pend = [s \in Streams |-> <<>>]
    /\ disk = [d \in Desc |-> <<>>]
    /\ meant = [c \in Chars |-> Null]
    /\ leaked = FALSE
    /\ up = TRUE

\* What a stream writes goes to the file its descriptor names now; without a
\* descriptor the write throws.
Written(s) == [disk EXCEPT ![table[ref[s]]] = @ \o pend[s]]

\* basic_obuf(args...): the handle is opened and the buffer is cold.  A file
\* whose descriptors are all closed is not opened again.
Open(s) ==
    /\ up
    /\ P!Open(s)
    /\ \A d \in Desc : (\E fd \in Fds : table'[fd] = d /\ table[fd] = Free)
                       => disk[d] = <<>>
    /\ UNCHANGED <<heap, beg, pend, disk, meant, leaked, up>>

Default(s) ==
    /\ up
    /\ P!Default(s)
    /\ UNCHANGED <<heap, beg, pend, disk, meant, leaked, up>>

\* put of a character that was not used yet: stored, in a new block if there is
\* none, or after the full block has been written.
Put(s, c) ==
    /\ up
    /\ P!Holds(s)
    /\ meant[c] = Null
    /\ meant' = [meant EXCEPT ![c] = table[ref[s]]]
    /\ \/ /\ beg[s] = Null
          /\ \E b \in Blocks \ heap :
                /\ beg' = [beg EXCEPT ![s] = b]
                /\ heap' = heap \cup {b}
          /\ pend' = [pend EXCEPT ![s] = <<c>>]
          /\ UNCHANGED disk
       \/ /\ beg[s] # Null
          /\ Len(pend[s]) < Size
          /\ pend' = [pend EXCEPT ![s] = Append(@, c)]
          /\ UNCHANGED <<heap, beg, disk>>
       \/ /\ beg[s] # Null
          /\ Len(pend[s]) = Size
          /\ disk' = Written(s)
          /\ pend' = [pend EXCEPT ![s] = <<c>>]
          /\ UNCHANGED <<heap, beg>>
    /\ UNCHANGED <<fileVars, leaked, up>>

Flush(s) ==
    /\ up
    /\ P!Holds(s)
    /\ pend[s] # <<>>
    /\ disk' = Written(s)
    /\ pend' = [pend EXCEPT ![s] = <<>>]
    /\ UNCHANGED <<fileVars, heap, beg, meant, leaked, up>>

\* An exception reached a noexcept function: std::terminate.
Terminate ==
    /\ up' = FALSE
    /\ UNCHANGED <<fileVars, heap, beg, pend, disk, meant, leaked>>

\* A bug: the source keeps its pointers.
MoveConstructShared(s, t) ==
    /\ up
    /\ ref[s] = Dead
    /\ P!CopyConstruct(s, t)
    /\ beg' = [beg EXCEPT ![s] = beg[t]]
    /\ pend' = [pend EXCEPT ![s] = pend[t]]
    /\ UNCHANGED <<heap, disk, meant, leaked, up>>

\* basic_obuf(basic_obuf&&): the handle is duplicated, the block handed over.
MoveConstruct(s, t) ==
    /\ up
    /\ ref[s] = Dead
    /\ P!Live(t)
    /\ \/ /\ P!CopyConstruct(s, t)
          /\ beg' = [beg EXCEPT ![s] = beg[t], ![t] = Null]
          /\ pend' = [pend EXCEPT ![s] = pend[t], ![t] = <<>>]
          /\ UNCHANGED <<heap, disk, meant, leaked, up>>
       \/ /\ ref[t] = None \/ \A fd \in Fds : table[fd] # Free
          /\ Terminate

\* A bug: what is pending is not written.
MoveAssignUnwritten(s, t) ==
    /\ up
    /\ s # t
    /\ P!CopyAssign(s, t)
    /\ heap' = IF beg[t] # Null THEN heap \ {beg[s]} ELSE heap
    /\ beg' = [beg EXCEPT ![s] = beg[t], ![t] = Null]
    /\ pend' = [pend EXCEPT ![s] = pend[t], ![t] = <<>>]
    /\ leaked' = (leaked \/ (beg[t] = Null /\ beg[s] # Null))
    /\ UNCHANGED <<disk, meant, up>>

\* operator=(basic_obuf&&): what is pending is written, the descriptor made to
\* name the other's file, and the block replaced.  basic_buf_handler looks at
\* the wrong one of the two blocks to decide whether its own has to be freed.
MoveAssign(s, t) ==
    /\ up
    /\ s # t
    /\ P!Live(s) /\ P!Live(t)
    /\ \/ /\ P!CopyAssign(s, t)
          /\ disk' = Written(s)
          /\ heap' = IF beg[t] # Null THEN heap \ {beg[s]} ELSE heap
          /\ beg' = [beg EXCEPT ![s] = beg[t], ![t] = Null]
          /\ pend' = [pend EXCEPT ![s] = pend[t], ![t] = <<>>]
          /\ leaked' = (leaked \/ (beg[t] = Null /\ beg[s] # Null))
          /\ UNCHANGED <<meant, up>>
       \/ /\ ref[s] = None \/ ref[t] = None
          /\ Terminate

\* A bug: the pointers stay as they are.
DestroyDangling(s) ==
    /\ up
    /\ P!Live(s)
    /\ disk' = IF ref[s] \in Fds THEN Written(s) ELSE disk
    /\ P!Destroy(s)
    /\ heap' = heap \ {beg[s]}
    /\ UNCHANGED <<beg, pend, meant, leaked, up>>

\* ~basic_obuf: close_impl, then the members from the last to the first.
Destroy(s) ==
    /\ up
    /\ P!Live(s)
    /\ disk' = IF ref[s] \in Fds THEN Written(s) ELSE disk
    /\ P!Destroy(s)
    /\ heap' = heap \ {beg[s]}
    /\ beg' = [beg EXCEPT ![s] = Null]
    /\ pend' = [pend EXCEPT ![s] = <<>>]
    /\ UNCHANGED <<meant, leaked, up>>

Next ==
    \/ \E s \in Streams : Open(s) \/ Default(s) \/ Flush(s) \/ Destroy(s)
    \/ \E s \in Streams, c \in Chars : Put(s, c)
    \/ \E s, t \in Streams : MoveConstruct(s, t) \/ MoveAssign(s, t)

Spec == Init /\ [][Next]_vars

-------------------------------------------------------------------------------
(* Properties *)

\* The state is of the right type, and only a stream that exists has a block.
TypeOK ==
    /\ P!TypeOK
    /\ heap \subseteq Blocks
    /\ beg \in [Streams -> Blocks \cup {Null}]
    /\ pend \in [Streams -> Seq(Chars)]
    /\ \A s \in Streams :
        /\ Len(pend[s]) <= Size
        /\ beg[s] = Null => pend[s] = <<>>
        /\ ref[s] = Dead => beg[s] = Null
    /\ disk \in [Desc -> Seq(Chars)]
    /\ meant \in [Chars -> Desc \cup {Null}]
    /\ leaked \in BOOLEAN
    /\ up \in BOOLEAN

Occurrences(c, q) == {i \in DOMAIN q : q[i] = c}

\* Every character a client wrote is exactly once on the disk, in the file it
\* was written for, or pending in one stream, whose descriptor names that file:
\* no move, assignment or destruction loses, repeats or misroutes any.
EachCharacterOnce ==
    \A c \in Chars :
        LET written == {d \in Desc : Occurrences(c, disk[d]) # {}}
            held == {s \in Streams : Occurrences(c, pend[s]) # {}}
        IN
        /\ \A d \in written :
            /\ meant[c] = d /\ held = {}
            /\ \A i, j \in Occurrences(c, disk[d]) : i = j
        /\ \A s \in held :
            /\ ref[s] \in Fds /\ table[ref[s]] = meant[c]
            /\ \A t \in held : t = s
            /\ \A i, j \in Occurrences(c, pend[s]) : i = j
        /\ meant[c] # Null => written \cup held # {}

\* No two streams share a block, no stream uses one that was freed, or has one
\* after its end, and every block that is allocated belongs to a stream unless
\* an assignment lost it.
BlocksAreOwned ==
    /\ TypeOK
    /\ \A s, t \in Streams : beg[s] # Null /\ beg[s] = beg[t] => s = t
    /\ \A s \in Streams : beg[s] # Null => beg[s] \in heap
    /\ ~leaked => \A b \in heap : \E s \in Streams : beg[s] = b
===============================================================================
