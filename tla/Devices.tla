-------------------------------- MODULE Devices --------------------------------
(***************************************************************************)
(* Devices below or beside fast_io's own buffers, of which a program uses  *)
(* one: a FILE shared with stdio, a log that is synchronised, a file that  *)
(* is mapped; on Windows, handles, or processes that threads create.       *)
(***************************************************************************)
EXTENDS CStream, SyncedFile, MappedFile, Win32Handles, Win32Process

VARIABLE device    \* the device the program uses

vars == <<device, cVars, sVars, mVars, wVars, pVars>>

\* What another device than the program's own could vary is fixed.
Init ==
    /\ device \in {"c", "log", "map", "handles", "children"}
    /\ CStreamInit /\ SyncedInit /\ MappedInit /\ HandlesInit /\ ChildrenInit
    /\ device # "handles" => kind = [o \in Places |-> "file"]
    /\ device # "children" => began = {} /\ ~jn /\ io = [t \in Builders |-> CHOOSE r \in Redirects : TRUE]

Next ==
    \/ device = "c" /\ CStreamNext /\ UNCHANGED <<device, sVars, mVars, wVars, pVars>>
    \/ device = "log" /\ SyncedNext /\ UNCHANGED <<device, cVars, mVars, wVars, pVars>>
    \/ device = "map" /\ MappedNext /\ UNCHANGED <<device, cVars, sVars, wVars, pVars>>
    \/ device = "handles" /\ HandlesNext /\ UNCHANGED <<device, cVars, sVars, mVars, pVars>>
    \/ device = "children" /\ ChildrenNext /\ UNCHANGED <<device, cVars, sVars, mVars, wVars>>

Spec == Init /\ [][Next]_vars

-------------------------------------------------------------------------------

\* The type invariant: what the FILE, the streams and the mappings hold is of
\* its kind and within its bounds, and a mapped position never leaves the
\* mapping nor the mapping the file, as long as the file is not cut below it.
TypeOK ==
    /\ fp.at \in 0..Len(OldText) + MaxChars /\ fp.room \in BOOLEAN
    /\ \A i \in DOMAIN disk : disk[i] \in -MaxChars..MaxChars
    /\ count \in 0..MaxChars
    /\ \A s \in Syncs : ~sync[s].live => sync[s] = NoSync
    /\ drops \in 0..MaxDrops
    /\ gone \cup late \subseteq 1..logged
    /\ \A o \in Maps :
        /\ omap[o].live <=> omap[o].of \in Named
        /\ Writes(o) => omap[o].pos <= omap[o].len /\ omap[o].len <= Len(file[omap[o].of])

\* Opening a file with a mode that has a name in C does what the tables in
\* mode.h and posix.h say of that name, on every system, but for the modes
\* and systems Departs lists, and for those it never does.
OpensAsAsked ==
    opened # <<>> /\ to_c_mode(opened.mode) # {} =>
        LET system == IF opened.by = "c" THEN "posix" ELSE opened.by IN
        opened.did # Asked(opened.mode, opened.exists) <=>
            Departs(system, opened.mode, opened.exists)

\* The string given to fdopen names a mode that does to a file what the mode
\* it was made from did, so that a FILE opened by its name is opened alike.
NamesKeepTheMode ==
    opened # <<>> =>
        \A c \in opened.string :
            Posix(from_c_mode(c), opened.exists) = opened.did

\* Whatever mixture of fast_io and stdio wrote to a FILE, what the file and
\* the buffer hold is what an unbuffered file would, in that order, and the
\* file alone once it is closed.
StdioAgrees ==
    trouble = "none" /\ fp.state # "none" =>
        Placed(disk, fp.at, fp.pend) = want

\* No store of fast_io leaves the buffer of a FILE, unless put stored into one
\* that is line-buffered, where the end stdio sets is behind the pointer.
InsideTheBuffer == trouble = "wild" => fp.buffering = "line" /\ slid

\* No line waits in the buffer of a line-buffered FILE, unless put stored
\* there since.
LinesGoOut == fp.buffering = "line" /\ ~slid => ~EndsLine(fp.pend)

\* No character is in the log twice, or in it and still in a stream, or in two
\* streams, whatever was moved, assigned, destroyed or retried.
LoggedOnce ==
    /\ IsInjective(log)
    /\ \A s \in Syncs :
        /\ \A i, j \in DOMAIN sync[s].mostr : i < j => sync[s].mostr[i] < sync[s].mostr[j]
        /\ ToSet(sync[s].mostr) \cap ToSet(log) = {}
        /\ \A t \in Syncs \ {s} : ToSet(sync[s].mostr) \cap ToSet(sync[t].mostr) = {}

\* A character written to a synchronised stream is in the log or still in a
\* stream, unless the device spoiled its write or a destructor's, or it was
\* written to a stream that had been moved from: such a stream no longer
\* synchronises, not even after something was assigned to it.
OnlyLateTextIsLost ==
    1..logged \subseteq
        ToSet(log) \cup gone \cup late \cup UNION {ToSet(sync[s].mostr) : s \in Syncs}

\* At every moment, so also when the program is killed, a mapped file begins
\* with the text written to it; the object that writes it is at its end; and
\* it is exactly the text once the object is gone, unless cutting it failed or
\* an object moved from went away, which cuts it where that one stood.
MappedText ==
    \A f \in Named :
        /\ state[f] \in {"open", "left"} => IsPrefix(typed[f], file[f])
        /\ state[f] = "open" =>
            \E o \in Maps :
                omap[o].of = f /\ ~omap[o].moved /\ omap[o].pos = Len(typed[f])
        /\ state[f] = "cut" => file[f] = typed[f]

\* A file is opened as its mode and as the C name of the mode say, but for the modes
\* that the tables of the systems treat otherwise.
ModesAgree == OpensAsAsked /\ NamesKeepTheMode

\* A FILE that stdio and fast_io share has the text of both in order, no store leaves
\* its buffer and no line waits in it, but for what put does to a line-buffered one.
SharedFileAgrees == StdioAgrees /\ InsideTheBuffer /\ LinesGoOut

\* A synchronised stream logs each character once and loses none, but for late text.
LogIsComplete == LoggedOnce /\ OnlyLateTextIsLost

\* A mapped file has the text written to it, by an object that stays inside it.
MapIsText == TypeOK /\ MappedText
===============================================================================
