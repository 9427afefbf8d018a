-------------------------------- MODULE CStream --------------------------------
(***************************************************************************)
(* How files are opened, and the FILE of the C library over one.           *)
(***************************************************************************)
EXTENDS Integers, SequencesExt

(***************************************************************************)
(* What an open_mode does to a file (fast_io_core_impl/mode.h), by way of  *)
(* the three system interfaces that take one and of the mode string of C:  *)
(* posix.h, win32.h, nt.h.                                                 *)
(*                                                                         *)
(* A mode is a set of flags.  An outcome says whether the file is opened,  *)
(* whether it is then empty, and what the handle may do.  Flags that only  *)
(* pass through (binary, direct, sync, the attributes of Windows) change   *)
(* nothing here and are left out.                                          *)
(***************************************************************************)
\* The flags of open_mode that decide what becomes of the file.
Flags == {"in", "out", "app", "trunc", "excl", "creat"}

Fails == [opens |-> FALSE, empty |-> FALSE, can |-> {}]

\* Opening with an action for a file that is there ("keep", "empty", "fail")
\* and one for a file that is not ("create", "fail").
Acting(there, missing, exists, can) ==
    LET action == IF exists THEN there ELSE missing IN
    IF action = "fail"
    THEN Fails
    ELSE [opens |-> TRUE, empty |-> action # "keep", can |-> can]

\* What a handle opened with m is for.
Rights(m) ==
    (m \cap {"in"}) \cup (IF "app" \in m THEN {"app"} ELSE m \cap {"out"})

-------------------------------------------------------------------------------
(* Mode strings of C *)

\* c_supported and to_c_mode: the letter, "+" and "x" of the string, or none
\* when it throws "unknown open mode".
to_c_mode(m) ==
    LET base == m \cap {"in", "out", "app", "trunc"}
        x == "excl" \in m
        Spelt(letter, plus) == {[letter |-> letter, plus |-> plus, x |-> x]}
    IN
    CASE base = {"in"} /\ ~x -> Spelt("r", FALSE)
      [] base \in {{"out"}, {"out", "trunc"}} -> Spelt("w", FALSE)
      [] base \in {{"app"}, {"out", "app"}} -> Spelt("a", FALSE)
      [] base = {"in", "out"} /\ ~x -> Spelt("r", TRUE)
      [] base = {"in", "out", "trunc"} -> Spelt("w", TRUE)
      [] base \in {{"in", "out", "app"}, {"in", "app"}} -> Spelt("a", TRUE)
      [] OTHER -> {}

\* A bug: "w+" is read back without trunc.
FromCKeeping(c) ==
    (CASE c.letter = "a" -> {"app"} \cup (IF c.plus THEN {"in", "out"} ELSE {})
       [] c.letter = "r" -> {"in"} \cup (IF c.plus THEN {"out"} ELSE {})
       [] c.letter = "w" -> {"out"} \cup (IF c.plus THEN {"in"} ELSE {}))
    \cup (IF c.x THEN {"excl"} ELSE {})

from_c_mode(c) ==
    (CASE c.letter = "a" -> {"app"} \cup (IF c.plus THEN {"in", "out"} ELSE {})
       [] c.letter = "r" -> {"in"} \cup (IF c.plus THEN {"out"} ELSE {})
       [] c.letter = "w" -> {"out"} \cup (IF c.plus THEN {"in", "trunc"} ELSE {}))
    \cup (IF c.x THEN {"excl"} ELSE {})

-------------------------------------------------------------------------------
(* POSIX *)

\* A bug: app alone does not create the file.
PosixAppendsOnly(m) ==
    LET base == m \cap {"in", "out", "app"} IN
    (IF "excl" \in m THEN {"O_CREAT", "O_EXCL"} ELSE {})
    \cup (IF "trunc" \in m THEN {"O_TRUNC"} ELSE {})
    \cup (CASE base = {"out"} -> {"O_CREAT", "O_TRUNC"}
            [] base \in {{"app"}, {"out", "app"}} -> {"O_APPEND"}
            [] base \in {{"in", "app"}, {"in", "out", "app"}} -> {"O_CREAT", "O_APPEND"}
            [] OTHER -> {})

\* The flags for open(2), besides the access, which is Rights.
calculate_posix_open_mode(m) ==
    LET base == m \cap {"in", "out", "app"} IN
    (IF "excl" \in m THEN {"O_CREAT", "O_EXCL"} ELSE {})
    \cup (IF "trunc" \in m THEN {"O_TRUNC"} ELSE {})
    \cup (CASE base = {"out"} -> {"O_CREAT", "O_TRUNC"}
            [] base \in {{"app"}, {"out", "app"}, {"in", "app"}, {"in", "out", "app"}} ->
                 {"O_CREAT", "O_APPEND"}
            [] OTHER -> {})

\* EINVAL is thrown before open is called.
PosixRefuses(m) == m \cap {"in", "out", "app"} = {}

\* open(2).
Posix(m, exists) ==
    LET f == calculate_posix_open_mode(m) IN
    IF PosixRefuses(m)
    THEN Fails
    ELSE Acting(IF "O_EXCL" \in f THEN "fail" ELSE IF "O_TRUNC" \in f THEN "empty" ELSE "keep",
                IF "O_CREAT" \in f THEN "create" ELSE "fail", exists, Rights(m))

-------------------------------------------------------------------------------
(* Windows *)

\* The conditions win32.h and nt.h share: which of their dispositions is
\* chosen.  EINVAL refuses the mode.
Disposition(m, excl, both, trunc, append, write, read) ==
    CASE "excl" \in m /\ "trunc" \in m -> "EINVAL"
      [] "excl" \in m /\ "trunc" \notin m -> excl
      [] "excl" \notin m /\ "trunc" \in m ->
            IF "creat" \in m THEN both ELSE IF "in" \in m THEN trunc ELSE "EINVAL"
      [] OTHER -> IF "in" \in m THEN read ELSE IF "app" \in m THEN append ELSE write

calculate_win32_open_mode(m) ==
    Disposition(m, "CREATE_NEW", "CREATE_ALWAYS", "TRUNCATE_EXISTING",
                "OPEN_ALWAYS", "CREATE_ALWAYS", "OPEN_EXISTING")

\* CreateFileW.
Win32(m, exists) ==
    LET d == calculate_win32_open_mode(m) IN
    CASE d = "EINVAL" -> Fails
      [] d = "CREATE_NEW" -> Acting("fail", "create", exists, Rights(m))
      [] d = "CREATE_ALWAYS" -> Acting("empty", "create", exists, Rights(m))
      [] d = "OPEN_EXISTING" -> Acting("keep", "fail", exists, Rights(m))
      [] d = "OPEN_ALWAYS" -> Acting("keep", "create", exists, Rights(m))
      [] d = "TRUNCATE_EXISTING" ->
            IF "out" \in m /\ "app" \notin m
            THEN Acting("empty", "fail", exists, Rights(m)) ELSE Fails

calculate_nt_open_mode(m) ==
    Disposition(m, "FILE_OPEN", "FILE_CREATE", "FILE_SUPERSEDE",
                "FILE_OPEN_IF", "FILE_OVERWRITE_IF", "FILE_OPEN")

\* NtCreateFile.
Nt(m, exists) ==
    LET d == calculate_nt_open_mode(m) IN
    CASE d = "EINVAL" -> Fails
      [] d = "FILE_CREATE" -> Acting("fail", "create", exists, Rights(m))
      [] d \in {"FILE_SUPERSEDE", "FILE_OVERWRITE_IF"} ->
            Acting("empty", "create", exists, Rights(m))
      [] d = "FILE_OPEN" -> Acting("keep", "fail", exists, Rights(m))
      [] d = "FILE_OPEN_IF" -> Acting("keep", "create", exists, Rights(m))

-------------------------------------------------------------------------------
(* What is asked for *)

\* The comments in to_c_mode and calculate_posix_open_mode give, for
\* each string of C, the action if the file exists and if it does not.
Asked(m, exists) ==
    LET c == CHOOSE c \in to_c_mode(m) : TRUE IN
    Acting(CASE c.x -> "fail"
             [] ~c.x /\ c.letter = "w" -> "empty"
             [] OTHER -> "keep",
           IF c.letter = "r" THEN "fail" ELSE "create", exists, Rights(m))

Systems == {"posix", "win32", "nt"}

Opening(system, m, exists) ==
    CASE system = "posix" -> Posix(m, exists)
      [] system = "win32" -> Win32(m, exists)
      [] system = "nt" -> Nt(m, exists)

\* The modes with a name in C for which a system does something else.
\* POSIX does not create the file of "w+".  Both of Windows refuse trunc
\* without in or creat, and with excl, and want the file of "a+" to exist.
\* win32 does not create the file of "w+" unless creat is given, and nt opens
\* an existing file for excl and makes a new one for trunc with creat.
Departs(system, m, exists) ==
    CASE system = "posix" ->
            ~exists /\ {"in", "out", "trunc"} \subseteq m /\ "excl" \notin m
      [] system = "win32" ->
            \/ "trunc" \in m /\ "excl" \in m /\ ~exists
            \/ "trunc" \in m /\ "excl" \notin m /\ "creat" \notin m /\ ("in" \in m => ~exists)
            \/ "app" \in m /\ "in" \in m /\ "excl" \notin m /\ ~exists
      [] system = "nt" ->
            \/ "excl" \in m /\ ("trunc" \in m => ~exists)
            \/ "trunc" \in m /\ "excl" \notin m /\ "creat" \in m /\ exists
            \/ "trunc" \in m /\ "excl" \notin m /\ "creat" \notin m /\ "in" \notin m
            \/ "app" \in m /\ "in" \in m /\ "excl" \notin m /\ ~exists

(***************************************************************************)
(* basic_c_file and basic_c_io_observer_unlocked over the FILE of glibc    *)
(* (fast_io_legacy_impl/c/impl.h, glibc.h, done.h), output.                *)
(*                                                                         *)
(* fast_io opens a descriptor, makes a FILE of it with fdopen, and then    *)
(* stores into the buffer of the FILE itself, by the pointers glibc keeps  *)
(* in it, while other parts of the program use stdio on the same FILE.     *)
(* glibc gives a line-buffered or unbuffered FILE no room between its      *)
(* write pointer and its write end, so that every call comes to it; a      *)
(* buffered one has room once something was written.                       *)
(*                                                                         *)
(* What stdio does is modelled from what it promises.  A character is a    *)
(* number, negative when it ends a line.  A store beyond the buffer is     *)
(* undefined, and nothing follows it.                                      *)
(***************************************************************************)

CONSTANTS
    BufferSize,     \* of the FILE
    Reserve,        \* print_reserve_size of the numbers
    OldLength,      \* how many characters are in a file that exists
    WrittenModes,   \* bound: the modes of the FILEs that are then written to
    MaxChars        \* bound on the characters written

ASSUME SizesAssumption == {Reserve, OldLength, MaxChars} \subseteq Nat /\ BufferSize \in Nat \ {0}

\* The characters that were there have the number 0.
OldText == [i \in 1 .. OldLength |-> 0]

VARIABLES
    opened,    \* how the file was opened, or <<>>
    fp,        \* the FILE
    disk,      \* the text of the file
    want,      \* history: the text an unbuffered file would have
    count,     \* history: how many characters were written
    slid,      \* history: put stored into a line-buffered FILE since it was flushed
    trouble    \* history: "none", "device" failed, or a "wild" store

cVars == <<opened, fp, disk, want, count, slid, trouble>>

CStreamInit ==
    /\ opened = <<>>
    /\ fp = [state |-> "none", buffering |-> "full", room |-> FALSE, pend |-> <<>>, at |-> 0]
    /\ disk = <<>> /\ want = <<>>
    /\ count = 0
    /\ slid = FALSE
    /\ trouble = "none"

-------------------------------------------------------------------------------
(* Opening *)

\* A file opened through one of the systems.
OpenFile ==
    /\ opened = <<>>
    /\ \E system \in Systems, m \in SUBSET Flags, exists \in BOOLEAN :
          opened' = [by |-> system, mode |-> m, exists |-> exists,
                     did |-> Opening(system, m, exists), string |-> {}]
    /\ UNCHANGED <<fp, disk, want, count, slid, trouble>>

\* basic_c_file(name, open_mode): open, then to_c_mode, then fdopen.  What
\* opening did to the file stays when one of the others throws.
OpenC ==
    /\ opened = <<>>
    /\ \E m \in SUBSET Flags, exists \in BOOLEAN, buffering \in {"full", "line", "none"},
          made \in BOOLEAN :
        LET did == Posix(m, exists)
            text == IF exists /\ ~did.empty THEN OldText ELSE <<>>
            is == did.opens /\ to_c_mode(m) # {} /\ made
        IN
        /\ opened' = [by |-> "c", mode |-> m, exists |-> exists, did |-> did,
                      string |-> IF did.opens THEN to_c_mode(m) ELSE {}]
        /\ disk' = text /\ want' = text
        /\ fp' = IF is
                 THEN [fp EXCEPT !.state = "open", !.buffering = buffering]
                 ELSE fp
    /\ UNCHANGED <<count, slid, trouble>>

-------------------------------------------------------------------------------
(* The FILE and its device *)

Appends == "app" \in opened.did.can
Usable ==
    /\ fp.state = "open" /\ trouble # "wild"
    /\ opened.did.can \cap {"out", "app"} # {}
    /\ opened.mode \in WrittenModes

\* obuffer_end relative to obuffer_begin.
WriteEnd == IF fp.buffering = "full" /\ fp.room THEN BufferSize ELSE 0

\* d with t written over it from offset i.
Over(d, i, t) ==
    [j \in 1..(IF i + Len(t) > Len(d) THEN i + Len(t) ELSE Len(d)) |->
        IF j \in i + 1..i + Len(t) THEN t[j - i] ELSE d[j]]

Placed(d, i, t) == Over(d, IF Appends THEN Len(d) ELSE i, t)

EndsLine(t) == \E i \in DOMAIN t : t[i] < 0

\* The client writes t: an unbuffered file would have it now.
Wanted(t) ==
    /\ count' = count + Len(t)
    /\ want' = Placed(want, fp.at + Len(fp.pend), t)

\* The first n characters of all go to the device and the rest stay.
Deliver(all, n) ==
    /\ disk' = Placed(disk, fp.at, SubSeq(all, 1, n))
    /\ fp' = [fp EXCEPT !.room = TRUE, !.pend = SubSeq(all, n + 1, Len(all)), !.at = @ + n]
    /\ slid' = (slid /\ n < Len(fp.pend))

\* The device fails below stdio, which reports it and may drop what it holds.
StdioFails ==
    /\ trouble' = "device"
    /\ \E pend \in {<<>>, fp.pend} : fp' = [fp EXCEPT !.room = TRUE, !.pend = pend]
    /\ UNCHANGED <<disk, slid>>

\* fwrite, by fast_io and by others: what does not fit, and what the
\* buffering does not let wait, goes out.
Fwrite(t) ==
    \/ /\ LET all == fp.pend \o t IN
          \E n \in 0..Len(all) :
            /\ Len(all) - n <= BufferSize
            /\ fp.buffering = "none" => n = Len(all)
            /\ fp.buffering = "line" => \A i \in DOMAIN t : t[i] < 0 => Len(fp.pend) + i <= n
            /\ Deliver(all, n)
       /\ UNCHANGED trouble
    \/ StdioFails

\* __overflow: a full buffer goes out, and then the character is stored, or
\* goes out too.
Overflow(c) ==
    \/ /\ LET all == Append(fp.pend, c) IN
          Deliver(all, IF fp.buffering = "none" \/ (fp.buffering = "line" /\ c < 0)
                       THEN Len(all)
                       ELSE IF Len(fp.pend) = BufferSize THEN BufferSize ELSE 0)
       /\ UNCHANGED trouble
    \/ StdioFails

\* Storing t at the write pointer, as obuffer_set_curr does.
Store(t) ==
    /\ fp' = [fp EXCEPT !.pend = @ \o t]
    /\ trouble' = IF Len(fp.pend) + Len(t) > BufferSize THEN "wild" ELSE trouble
    /\ UNCHANGED disk

-------------------------------------------------------------------------------
(* The calls *)

\* put: only a write pointer at the end is seen.
Put(c) ==
    /\ Usable
    /\ Wanted(<<c>>)
    /\ IF Len(fp.pend) = WriteEnd
       THEN Overflow(c)
       ELSE Store(<<c>>) /\ slid' = (slid \/ fp.buffering = "line")
    /\ UNCHANGED opened

\* A bug: the end of the buffer is taken for the end stdio allows.
WriteIntoBlock(t) ==
    /\ Usable
    /\ Wanted(t)
    /\ IF Len(fp.pend) + Len(t) < BufferSize THEN Store(t) /\ UNCHANGED slid ELSE Fwrite(t)
    /\ UNCHANGED opened

\* A bug: the text is not counted.
WriteUnmeasured(t) ==
    /\ Usable
    /\ Wanted(t)
    /\ IF Len(fp.pend) < WriteEnd THEN Store(t) /\ UNCHANGED slid ELSE Fwrite(t)
    /\ UNCHANGED opened

\* write (done.h).
Write(t) ==
    /\ Usable
    /\ Wanted(t)
    /\ IF Len(fp.pend) + Len(t) < WriteEnd THEN Store(t) /\ UNCHANGED slid ELSE Fwrite(t)
    /\ UNCHANGED opened

\* A bug: the number is stored from the beginning of the buffer.
PrintNumberFirst(t) ==
    /\ Usable
    /\ Wanted(t)
    /\ IF WriteEnd > Len(fp.pend) + Reserve
       THEN /\ fp' = [fp EXCEPT !.pend = t]
            /\ UNCHANGED <<disk, slid, trouble>>
       ELSE Fwrite(t)
    /\ UNCHANGED opened

\* A number: oreserve asks for room for the longest, else it goes by write.
PrintNumber(t) ==
    /\ Usable
    /\ Wanted(t)
    /\ IF WriteEnd > Len(fp.pend) + Reserve
       THEN Store(t) /\ UNCHANGED slid
       ELSE IF Len(fp.pend) + Len(t) < WriteEnd THEN Store(t) /\ UNCHANGED slid ELSE Fwrite(t)
    /\ UNCHANGED opened

\* Another part of the program calls fwrite.
Stdio(t) ==
    /\ Usable
    /\ Wanted(t)
    /\ Fwrite(t)
    /\ UNCHANGED opened

\* flush: fflush.  seek: fseek writes what is pending and leaves no room.
Flush ==
    /\ Usable
    /\ \/ Deliver(fp.pend, Len(fp.pend)) /\ UNCHANGED trouble
       \/ fp.pend # <<>> /\ StdioFails
    /\ UNCHANGED <<opened, want, count>>

Seek ==
    /\ Usable
    /\ \/ /\ disk' = Placed(disk, fp.at, fp.pend)
          /\ fp' = [fp EXCEPT !.room = FALSE, !.pend = <<>>, !.at = 0]
          /\ slid' = FALSE
          /\ UNCHANGED trouble
       \/ fp.pend # <<>> /\ StdioFails
    /\ UNCHANGED <<opened, want, count>>

\* ~basic_c_file: fclose, whose result is ignored.
Close ==
    /\ Usable
    /\ fp' = [fp EXCEPT !.state = "closed", !.pend = <<>>]
    /\ \/ disk' = Placed(disk, fp.at, fp.pend) /\ UNCHANGED trouble
       \/ fp.pend # <<>> /\ trouble' = "device" /\ UNCHANGED disk
    /\ UNCHANGED <<opened, want, count, slid>>

CStreamNext ==
    \/ OpenFile \/ OpenC
    \/ /\ Usable
       /\ \E n \in 1..2, ends \in BOOLEAN :
            /\ count + n <= MaxChars
            /\ LET t == [i \in 1..n |-> IF i = n /\ ends THEN -(count + i) ELSE count + i] IN
               \/ n = 1 /\ Put(t[1])
               \/ Write(t)
               \/ ~ends /\ n <= Reserve /\ PrintNumber(t)
               \/ Stdio(t)
    \/ Flush \/ Seek \/ Close
================================================================================
