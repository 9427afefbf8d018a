------------------------------ MODULE MappedFile ------------------------------
(***************************************************************************)
(* basic_omap (fast_io_hosted/omap.h) over posix_file and posix_file_map   *)
(* (platforms/posix_mapping.h): output by stores into a mapping that is    *)
(* made longer than the text, and cut off when the object goes away.       *)
(*                                                                         *)
(* A store is in the file at once.  posix_file has no move, so that moving *)
(* an omap copies the descriptor: the source keeps it, and cuts the file   *)
(* off at its own position when it goes away.  A character is a number, 0  *)
(* what the file is extended with.                                         *)
(***************************************************************************)
EXTENDS Naturals, SequencesExt

CONSTANTS
    Maps,           \* places for basic_omap objects
    Named,          \* the files
    NoFile,
    InitSize,       \* init_mem_size
    MaxSize,        \* the largest file the device has room for
    MaxMapped       \* bound on the characters written

ASSUME InitSizeAssumption == InitSize \in Nat \ {0} /\ MaxSize \in Nat /\ InitSize <= MaxSize
ASSUME NoFileAssumption == NoFile \notin Named

VARIABLES
    omap,      \* the object at each place
    file,      \* the text of each file
    typed,     \* history: the text written to each file since it was opened
    state,     \* history: "shut", "open", "cut" to the text, "left" with its tail, or "lost"
    chars      \* history: how many characters were written

mVars == <<omap, file, typed, state, chars>>

NoMap == [live |-> FALSE, of |-> NoFile, len |-> 0, pos |-> 0, moved |-> FALSE]

MappedInit ==
    /\ omap = [o \in Maps |-> NoMap]
    /\ file = [f \in Named |-> <<>>] /\ typed = file
    /\ state = [f \in Named |-> "shut"]
    /\ chars = 0

Zeros(n) == [i \in 1..n |-> 0]

\* posix_file_map(file, read_write, n): fallocate, when the file is shorter.
Extended(t, n) == t \o Zeros(IF n > Len(t) THEN n - Len(t) ELSE 0)

Truncated(t, n) == SubSeq(Extended(t, n), 1, n)

-------------------------------------------------------------------------------

\* basic_omap(name, in | out | trunc): the file is emptied, extended and
\* mapped.  Without room nothing is left open.
OpenMap(o, f) ==
    /\ ~omap[o].live /\ \A p \in Maps : omap[p].of # f
    /\ \/ /\ omap' = [omap EXCEPT ![o] =
                        [live |-> TRUE, of |-> f, len |-> InitSize, pos |-> 0, moved |-> FALSE]]
          /\ file' = [file EXCEPT ![f] = Extended(<<>>, InitSize)]
          /\ state' = [state EXCEPT ![f] = "open"]
       \/ \* mmap throws
          /\ file' = [file EXCEPT ![f] = Extended(<<>>, InitSize)]
          /\ state' = [state EXCEPT ![f] = "left"]
          /\ UNCHANGED omap
    /\ typed' = [typed EXCEPT ![f] = <<>>]
    /\ UNCHANGED chars

\* The file and the mapping when grow_omap has made room for n.
Grown(o, n) == IF 2 * omap[o].len < n THEN n ELSE 2 * omap[o].len

\* An object its client may still write to.
Writes(o) == omap[o].live /\ ~omap[o].moved /\ state[omap[o].of] = "open"

\* Storing t, after growing to n; without room the call throws before
\* anything has changed.
StoreText(o, t, n) ==
    LET f == omap[o].of
        i == omap[o].pos
        room == Extended(file[f], n)
    IN
    /\ n <= MaxSize
    /\ omap' = [omap EXCEPT ![o].len = n, ![o].pos = i + Len(t)]
    /\ file' = [file EXCEPT ![f] = [j \in DOMAIN room |->
                    IF j \in i + 1..i + Len(t) THEN t[j - i] ELSE room[j]]]
    /\ typed' = [typed EXCEPT ![f] = @ \o t]
    /\ chars' = chars + Len(t)
    /\ UNCHANGED state

\* A bug: the room is not counted from the position.
WriteUncounted(o, t) ==
    /\ Writes(o)
    /\ StoreText(o, t, IF omap[o].len <= Len(t) THEN Grown(o, Len(t)) ELSE omap[o].len)

\* write
WriteMap(o, t) ==
    /\ Writes(o)
    /\ LET after == omap[o].pos + Len(t) IN
       StoreText(o, t, IF omap[o].len <= after THEN Grown(o, after) ELSE omap[o].len)

\* put
PutMap(o, c) ==
    /\ Writes(o)
    /\ StoreText(o, <<c>>, IF omap[o].len = omap[o].pos
                           THEN Grown(o, omap[o].len + 1) ELSE omap[o].len)

\* reserve(om, n): another mapping, and the position within it.
ReserveMap(o, n) ==
    /\ Writes(o)
    /\ n \in 1..MaxSize
    /\ LET f == omap[o].of
           pos == IF n < omap[o].pos THEN n ELSE omap[o].pos
       IN
       /\ omap' = [omap EXCEPT ![o].len = n, ![o].pos = pos]
       /\ file' = [file EXCEPT ![f] = Extended(@, n)]
       /\ typed' = [typed EXCEPT ![f] = SubSeq(@, 1, pos)]
    /\ UNCHANGED <<state, chars>>

\* The file was extended, for reserve or for a call that has to grow, and
\* mmap throws.
MapThrows(o, n) ==
    /\ Writes(o)
    /\ file' = [file EXCEPT ![omap[o].of] = Extended(@, n)]
    /\ UNCHANGED <<omap, typed, state, chars>>

\* A bug: the file is cut at the end of the mapping.
CutAtLength(o, f) ==
    /\ file' = [file EXCEPT ![f] = Truncated(@, omap[o].len)]
    /\ state' = [state EXCEPT ![f] = IF omap[o].moved \/ @ = "lost" THEN "lost" ELSE "cut"]

\* close_impl: an error of truncate is swallowed.  An object that was moved
\* from cuts the file at the position it has kept.
Cut(o, f) ==
    \/ /\ file' = [file EXCEPT ![f] = Truncated(@, omap[o].pos)]
       /\ state' = [state EXCEPT ![f] = IF omap[o].moved \/ @ = "lost" THEN "lost" ELSE "cut"]
    \/ /\ state' = [state EXCEPT ![f] = IF omap[o].moved \/ @ = "lost" THEN @ ELSE "left"]
       /\ UNCHANGED file

\* ~basic_omap()
DestroyMap(o) ==
    /\ omap[o].live
    /\ Cut(o, omap[o].of)
    /\ omap' = [omap EXCEPT ![o] = NoMap]
    /\ UNCHANGED <<typed, chars>>

\* basic_omap(basic_omap&&)
MoveMap(o, p) ==
    /\ ~omap[o].live /\ omap[p].live /\ ~omap[p].moved
    /\ omap' = [omap EXCEPT ![o] = omap[p],
                            ![p].len = 0, ![p].pos = 0, ![p].moved = TRUE]
    /\ UNCHANGED <<file, typed, state, chars>>

\* operator=(basic_omap&&): the source keeps its position.
AssignMap(o, p) ==
    /\ o # p /\ omap[o].live /\ omap[p].live /\ ~omap[p].moved
    /\ Cut(o, omap[o].of)
    /\ omap' = [omap EXCEPT ![o] = omap[p], ![p].len = 0, ![p].moved = TRUE]
    /\ UNCHANGED <<typed, chars>>

MappedNext ==
    \/ \E o \in Maps, f \in Named : OpenMap(o, f)
    \/ \E o \in Maps :
        \/ /\ Writes(o)
           /\ \E n \in 0..3 :
                /\ chars + n <= MaxMapped
                /\ LET t == [i \in 1..n |-> chars + i] IN
                   WriteMap(o, t) \/ (n = 1 /\ PutMap(o, t[1]))
        \/ \E n \in 1..MaxSize : ReserveMap(o, n) \/ MapThrows(o, n)
        \/ DestroyMap(o)
    \/ \E o, p \in Maps : MoveMap(o, p) \/ AssignMap(o, p)
===============================================================================
