--------------------------------- MODULE Obuf ---------------------------------
(***************************************************************************)
(* basic_obuf (fast_io_freestanding_impl/iobuf.h): an output buffer in     *)
(* front of a device.  The buffer is one block of Size characters,         *)
(* allocated by the first call that needs it ("cold" until then), with the *)
(* pointers beg <= curr <= end kept here as offsets from beg: beg is 0 and *)
(* end is Size once the block exists, and all three are 0 (nullptr) before.*)
(*                                                                         *)
(* The client is one thread: a call runs to its end before the next one    *)
(* starts, except that the loop of fill_nc_bad_path is a step per device   *)
(* write.  Every device write may, as far as Faults allows, throw, or take *)
(* fewer characters than it was given and report it in a return value that *)
(* no caller in iobuf.h looks at.                                          *)
(*                                                                         *)
(* want and wpos are history: the file and offset that the same calls      *)
(* would have left on a device without a buffer.  fault is history too: the*)
(* first event, if any, that made the two part.                            *)
(***************************************************************************)
EXTENDS Spans

CONSTANTS
    Size,      \* buffer_size, the capacity of the block
    Char,      \* the characters of the stream
    Garbage,   \* what a block holds before anything is stored in it
    Hole,      \* what a file holds where nothing was ever written
    Limit,     \* bound: the largest file offset a run reaches
    Texts,     \* the arguments of write and print: a set of sequences of Char
    Counts,    \* the counts given to fill_nc
    Reserves,  \* the values of print_reserve_size
    Seeks,     \* the offsets a client seeks to
    Faults     \* what the device may do: a subset of {"error", "short"}

ASSUME SizeAssumption == Size \in Nat \ {0}
ASSUME LimitAssumption == Limit \in Nat
ASSUME TextsAssumption == \A s \in Texts : s \in Seq(Char)
ASSUME CountsAssumption == Counts \subseteq Nat
ASSUME ReservesAssumption == Reserves \subseteq Nat
ASSUME SeeksAssumption == Seeks \subseteq Nat
ASSUME FaultsAssumption == Faults \subseteq {"error", "short"}

VARIABLES
    warm,      \* beg # nullptr: the block is allocated
    mem,       \* the block
    curr,      \* obuffer.curr - obuffer.beg
    filling,   \* writes the loop of fill_nc_bad_path has still to make
    tail,      \* characters that loop leaves in the buffer when it is done
    open,      \* the object is not destroyed yet
    file, pos, \* the device: what it holds and its file offset
    want, wpos,\* what the device would be without the buffer
    fault      \* "none", or the first event that lost or repeated characters

bufVars == <<warm, mem, curr, filling, tail, open>>
devVars == <<file, pos>>
histVars == <<want, wpos, fault>>
vars == <<bufVars, devVars, histVars>>

Fresh == [i \in 1..Size |-> Garbage]

\* obuffer.end - obuffer.beg
End == IF warm THEN Size ELSE 0

-------------------------------------------------------------------------------
(* The device.  One write(oh, src + a, src + b): what it may do to a file f  *)
(* whose offset is p.                                                        *)

Full(f, p, src, a, b) ==
    [file |-> Copy(f, p, src, a, b), pos |-> p + (b - a),
     ok |-> TRUE, short |-> FALSE]

Short(f, p, src, a, b, k) ==
    [Full(f, p, src, a, a + k) EXCEPT !.short = TRUE]

Thrown(f, p) == [file |-> f, pos |-> p, ok |-> FALSE, short |-> FALSE]

DeviceWrite(f, p, src, a, b) ==
    {Full(f, p, src, a, b)}
    \cup (IF "error" \in Faults THEN {Thrown(f, p)} ELSE {})
    \cup (IF "short" \in Faults
            THEN {Short(f, p, src, a, b, k) : k \in 0..(b - a - 1)} ELSE {})

\* The device is left as the write r left it, and a short write that nobody
\* noticed is remembered.
Device(r) ==
    /\ file' = r.file
    /\ pos' = r.pos

Unnoticed(r) ==
    IF fault = "none" /\ r.short THEN "short" ELSE fault

\* The call took effect: on an unbuffered device it would have written the n
\* first characters of s.
Accept(s, n) ==
    /\ want' = Copy(want, wpos, s, 0, n)
    /\ wpos' = wpos + n

Refused == UNCHANGED <<want, wpos>>

Init ==
    /\ warm = FALSE
    /\ mem = Fresh
    /\ curr = 0
    /\ filling = 0
    /\ tail = 0
    /\ open = TRUE
    /\ file = [i \in 1..Limit |-> Hole]
    /\ pos = 0
    /\ want = [i \in 1..Limit |-> Hole]
    /\ wpos = 0
    /\ fault = "none"

\* No call is in progress, and the bound on the file has room for n more.
Idle(n) ==
    /\ open
    /\ filling = 0
    /\ wpos + n <= Limit

-------------------------------------------------------------------------------
(* put and overflow *)

\* A bug: the test for a full block is missing.
StoreCharUnchecked(ch) ==
    /\ warm
    /\ mem' = [mem EXCEPT ![curr + 1] = ch]
    /\ curr' = curr + 1
    /\ UNCHANGED <<warm, file, pos, fault>>
    /\ Accept(<<ch>>, 1)

\* *curr = ch, ++curr
StoreChar(ch) ==
    /\ curr < End
    /\ mem' = [mem EXCEPT ![curr + 1] = ch]
    /\ curr' = curr + 1
    /\ UNCHANGED <<warm, file, pos, fault>>
    /\ Accept(<<ch>>, 1)

\* overflow on a cold buffer allocates the block and starts it with ch.
OverflowCold(ch) ==
    /\ ~warm
    /\ warm' = TRUE
    /\ mem' = [Fresh EXCEPT ![1] = ch]
    /\ curr' = 1
    /\ UNCHANGED <<file, pos, fault>>
    /\ Accept(<<ch>>, 1)

\* overflow on a full block writes [beg, end) and starts again with ch; when
\* the write throws, ch is dropped and nothing else changes.
OverflowWarm(ch) ==
    /\ warm
    /\ curr = End
    /\ \E r \in DeviceWrite(file, pos, mem, 0, Size) :
        /\ Device(r)
        /\ fault' = Unnoticed(r)
        /\ IF r.ok
             THEN /\ mem' = [mem EXCEPT ![1] = ch]
                  /\ curr' = 1
                  /\ Accept(<<ch>>, 1)
             ELSE /\ UNCHANGED <<mem, curr>>
                  /\ Refused
    /\ UNCHANGED warm

Put(ch) ==
    /\ Idle(1)
    /\ StoreChar(ch) \/ OverflowCold(ch) \/ OverflowWarm(ch)
    /\ UNCHANGED <<filling, tail, open>>

-------------------------------------------------------------------------------
(* write: details::obuf_write *)

\* The text fits into [curr, end).
StoreText(s) ==
    /\ Len(s) <= End - curr
    /\ mem' = Copy(mem, curr, s, 0, Len(s))
    /\ curr' = curr + Len(s)
    /\ UNCHANGED <<warm, file, pos, fault>>
    /\ Accept(s, Len(s))

\* A bug: every first text goes straight to the device.
WriteThroughAny(s) ==
    /\ ~warm
    /\ 0 < Len(s)
    /\ \E r \in DeviceWrite(file, pos, s, 0, Len(s)) :
        /\ Device(r)
        /\ fault' = Unnoticed(r)
        /\ IF r.ok THEN Accept(s, Len(s)) ELSE Refused
    /\ UNCHANGED <<warm, mem, curr>>

\* No block yet and a text of at least a block: straight to the device.
WriteThrough(s) ==
    /\ ~warm
    /\ Size <= Len(s)
    /\ \E r \in DeviceWrite(file, pos, s, 0, Len(s)) :
        /\ Device(r)
        /\ fault' = Unnoticed(r)
        /\ IF r.ok THEN Accept(s, Len(s)) ELSE Refused
    /\ UNCHANGED <<warm, mem, curr>>

\* No block yet and a shorter text: it becomes the first text of the block.
WriteCold(s) ==
    /\ ~warm
    /\ 0 < Len(s)
    /\ Len(s) < Size
    /\ warm' = TRUE
    /\ mem' = Copy(Fresh, 0, s, 0, Len(s))
    /\ curr' = Len(s)
    /\ UNCHANGED <<file, pos, fault>>
    /\ Accept(s, Len(s))

\* The head of the text completes the block.
Filled(s) == Copy(mem, curr, s, 0, Size - curr)

\* [beg, end) could not be written.  curr is as before the call.
SpillFails(s) ==
    /\ \E r \in DeviceWrite(file, pos, Filled(s), 0, Size) : ~r.ok
    /\ mem' = Filled(s)
    /\ UNCHANGED <<warm, curr, file, pos, fault>>
    /\ Refused

\* A bug: cbegin is not moved past the head of the text.
SpillAndKeepHead(s) ==
    LET used == Size - curr IN
    /\ Len(s) - used <= Size
    /\ \E r \in DeviceWrite(file, pos, Filled(s), 0, Size) :
        /\ r.ok
        /\ Device(r)
        /\ fault' = Unnoticed(r)
    /\ mem' = Copy(Filled(s), 0, s, 0, Len(s) - used)
    /\ curr' = Len(s) - used
    /\ UNCHANGED warm
    /\ Accept(s, Len(s))

\* [beg, end) is written, and the rest, of at most a block, is buffered.
SpillAndKeep(s) ==
    LET used == Size - curr IN
    /\ Len(s) - used <= Size
    /\ \E r \in DeviceWrite(file, pos, Filled(s), 0, Size) :
        /\ r.ok
        /\ Device(r)
        /\ fault' = Unnoticed(r)
    /\ mem' = Copy(Filled(s), 0, s, used, Len(s))
    /\ curr' = Len(s) - used
    /\ UNCHANGED warm
    /\ Accept(s, Len(s))

\* [beg, end) is written, then the rest, which is longer than a block, with
\* a write of its own.  When that one throws, curr still points where it did
\* before the call, at the end of characters the device already has.
SpillAndPass(s) ==
    LET used == Size - curr IN
    /\ Size < Len(s) - used
    /\ mem' = Filled(s)
    /\ \E r \in DeviceWrite(file, pos, Filled(s), 0, Size) :
        /\ r.ok
        /\ \E q \in DeviceWrite(r.file, r.pos, s, used, Len(s)) :
            /\ Device(q)
            /\ IF q.ok
                 THEN /\ curr' = 0
                      /\ Accept(s, Len(s))
                      /\ fault' = IF fault = "none" /\ (r.short \/ q.short)
                                    THEN "short" ELSE fault
                 ELSE /\ UNCHANGED curr
                      /\ Refused
                      /\ fault' = IF fault = "none" THEN "stale" ELSE fault
    /\ UNCHANGED warm

WriteText(s) ==
    \/ StoreText(s)
    \/ WriteThrough(s)
    \/ WriteCold(s)
    \/ /\ warm
       /\ End - curr < Len(s)
       /\ SpillFails(s) \/ SpillAndKeep(s) \/ SpillAndPass(s)

Write(s) ==
    /\ Idle(Len(s))
    /\ WriteText(s)
    /\ UNCHANGED <<filling, tail, open>>

\* print_control of a reserve_printable: oreserve(n) grants the place when
\* more than n characters are free, the text is formatted there and orelease
\* moves curr past it; otherwise it goes through write.
PrintReserve(s, n) ==
    /\ Idle(Len(s))
    /\ Len(s) <= n
    /\ IF End <= curr + n THEN WriteText(s) ELSE StoreText(s)
    /\ UNCHANGED <<filling, tail, open>>
-------------------------------------------------------------------------------
(* print of manip::fill_nc(n, ch): n copies of ch *)

\* They fit.
FillFits(ch, n) ==
    /\ n <= End - curr
    /\ StoreText(Run(ch, n))
    /\ UNCHANGED <<filling, tail>>

\* After the first overflow of fill_nc_bad_path: remain characters are still to
\* come, of which overflow has just stored one (it is overwritten here).
\* Everything up to now counts as accepted.
FillRest(ch, n, remain) ==
    IF Size < remain
      THEN /\ mem' = Run(ch, Size)
           /\ curr' = 1
           /\ filling' = remain \div Size
           /\ tail' = remain % Size
           /\ Accept(Run(ch, n), n - remain)
      ELSE /\ mem' = Copy([mem EXCEPT ![1] = ch], 0, Run(ch, remain), 0, remain)
           /\ curr' = remain
           /\ UNCHANGED <<filling, tail>>
           /\ Accept(Run(ch, n), n)

\* The first overflow allocates the block.
FillCold(ch, n) ==
    /\ ~warm
    /\ 0 < n
    /\ warm' = TRUE
    /\ FillRest(ch, n, n)
    /\ UNCHANGED <<file, pos, fault>>

\* The block is completed with ch before the first overflow writes it.  When
\* that write throws, those characters stay in the buffer.
FillWarm(ch, n) ==
    LET room == Size - curr
        full == Copy(mem, curr, Run(ch, room), 0, room)
    IN
    /\ warm
    /\ room < n
    /\ \E r \in DeviceWrite(file, pos, full, 0, Size) :
        /\ Device(r)
        /\ fault' = Unnoticed(r)
        /\ IF r.ok
             THEN FillRest(ch, n, n - room)
             ELSE /\ mem' = full
                  /\ curr' = Size
                  /\ UNCHANGED <<filling, tail>>
                  /\ Accept(Run(ch, room), room)
    /\ UNCHANGED warm

FillNc(ch, n) ==
    /\ Idle(n)
    /\ FillFits(ch, n) \/ FillCold(ch, n) \/ FillWarm(ch, n)
    /\ UNCHANGED open

\* One round of the loop: the block, all ch, is declared full and overflow
\* writes it.  After the last round tail characters of it are kept.
FillStep ==
    /\ filling > 0
    /\ \E r \in DeviceWrite(file, pos, mem, 0, Size) :
        /\ Device(r)
        /\ fault' = Unnoticed(r)
        /\ IF ~r.ok
             THEN /\ filling' = 0
                  /\ tail' = 0
                  /\ curr' = Size
                  /\ want' = Copy(want, wpos, mem, 0, Size)
                  /\ wpos' = wpos + Size
             ELSE /\ filling' = filling - 1
                  /\ LET kept == IF filling = 1 THEN tail ELSE 0 IN
                     /\ tail' = IF filling = 1 THEN 0 ELSE tail
                     /\ curr' = IF filling = 1 THEN tail ELSE 1
                     /\ want' = Copy(Copy(want, wpos, mem, 0, Size),
                                     wpos + Size, mem, 0, kept)
                     /\ wpos' = wpos + Size + kept
    /\ UNCHANGED <<warm, mem, open>>

-------------------------------------------------------------------------------
(* flush, seek and the destructor *)

Flush ==
    /\ Idle(0)
    /\ curr # 0
    /\ \E r \in DeviceWrite(file, pos, mem, 0, curr) :
        /\ Device(r)
        /\ fault' = Unnoticed(r)
        /\ curr' = IF r.ok THEN 0 ELSE curr
    /\ UNCHANGED <<warm, mem, filling, tail, open, want, wpos>>

\* A bug: the device's offset moves first.
SeekFirst(p) ==
    /\ Idle(0)
    /\ \E r \in DeviceWrite(file, p, mem, 0, curr) :
        /\ fault' = Unnoticed(r)
        /\ Device(r)
        /\ curr' = IF r.ok THEN 0 ELSE curr
        /\ wpos' = p
    /\ UNCHANGED <<warm, mem, filling, tail, open, want>>

\* What is pending is written before the device's own offset moves, and the
\* device's seek may throw after that.
Seek(p) ==
    /\ Idle(0)
    /\ \E r \in IF curr = 0 THEN {Full(file, pos, mem, 0, 0)}
                             ELSE DeviceWrite(file, pos, mem, 0, curr) :
        /\ fault' = Unnoticed(r)
        /\ file' = r.file
        /\ curr' = IF r.ok THEN 0 ELSE curr
        /\ \/ /\ r.ok
              /\ pos' = p
              /\ wpos' = p
           \/ /\ r.ok => "error" \in Faults
              /\ pos' = r.pos
              /\ UNCHANGED wpos
    /\ UNCHANGED <<warm, mem, filling, tail, open, want>>

\* ~basic_obuf: close_impl writes what is pending and swallows the exception.
Close ==
    /\ Idle(0)
    /\ open' = FALSE
    /\ warm' = FALSE
    /\ curr' = 0
    /\ mem' = Fresh
    /\ IF warm
         THEN \E r \in DeviceWrite(file, pos, mem, 0, curr) :
                /\ Device(r)
                /\ fault' = IF ~r.ok /\ curr > 0 /\ fault = "none"
                              THEN "swallowed" ELSE Unnoticed(r)
         ELSE UNCHANGED <<file, pos, fault>>
    /\ UNCHANGED <<filling, tail, want, wpos>>

Next ==
    \/ \E ch \in Char : Put(ch)
    \/ \E s \in Texts : Write(s)
    \/ \E s \in Texts : \E n \in Reserves : PrintReserve(s, n)
    \/ \E ch \in Char : \E n \in Counts : FillNc(ch, n)
    \/ FillStep
    \/ Flush
    \/ \E p \in Seeks : Seek(p)
    \/ Close

Spec == Init /\ [][Next]_vars

-------------------------------------------------------------------------------
(* Properties *)

\* The state is of the right type; a cold buffer has all pointers null.
TypeOK ==
    /\ warm \in BOOLEAN
    /\ mem \in [1..Size -> Char \cup {Garbage}]
    /\ curr \in 0..Size
    /\ ~warm => curr = 0
    /\ filling \in Nat
    /\ tail \in 0..(Size - 1)
    /\ filling > 0 => warm
    /\ open \in BOOLEAN
    /\ file \in [1..Limit -> Char \cup {Garbage, Hole}]
    /\ pos \in Nat
    /\ want \in [1..Limit -> Char \cup {Hole}]
    /\ wpos \in Nat
    /\ fault \in {"none", "short", "stale", "swallowed"}

\* Characters of the block that count as written by the client.  During the
\* loop of fill_nc_bad_path the block holds what is about to be sent.
Pending == IF filling > 0 THEN 0 ELSE curr

\* The file as a client may think of it: what the device has, and over it, at
\* the device's offset, what is pending.
Content == Copy(file, pos, mem, 0, Pending)

At == pos + Pending

\* Buffering is invisible.  Whatever mix of put, write, print, fill, flush and
\* seek a client makes, and whichever device writes throw, the file with the
\* pending characters laid over it is the file the same calls leave without a
\* buffer, in content and in offset: nothing is lost, repeated, reordered or
\* put at another offset.  Only the events named by fault break it.
BufferingIsInvisible ==
    fault = "none" => Content = want /\ At = wpos

\* The buffer gathers small writes: a call that adds characters either leaves
\* the device alone or gives it, in one go or two, at least a block of them.
SmallWritesAreGathered ==
    [][want' # want /\ pos' # pos /\ fault' = "none" => pos' - pos >= Size]_vars

\* The stream implements the unbuffered one: every call does to the file with
\* the pending characters laid over it what a write of (part of) its text or
\* a seek does to a plain file, or it breaks the stream for good.
Plain == INSTANCE FileStream WITH
            Pieces <- Texts \cup {Run(ch, n) : ch \in Char, n \in 0..(2 * Size)},
            content <- Content, at <- At, broken <- fault # "none"

ImplementsFileStream == Plain!StreamSpec
===============================================================================
