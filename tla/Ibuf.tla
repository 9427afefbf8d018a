--------------------------------- MODULE Ibuf ---------------------------------
(***************************************************************************)
(* basic_ibuf (fast_io_freestanding_impl/iobuf.h): an input buffer in      *)
(* front of a device, read through read, read_all, igenerator, skip_until  *)
(* (skip_while is the same with the opposite predicate) and skip_line      *)
(* (fast_io_core_impl/{read_write_all,igenerator,skip}.h).                 *)
(*                                                                         *)
(* The pointers beg <= curr <= end are kept as offsets from beg; before    *)
(* the block is allocated all three are 0 (nullptr).  A device read may    *)
(* return fewer characters than there is room for, returns none only at    *)
(* the end of the source, and may throw.  A step makes at most one device  *)
(* read except in details::ibuf_read, where no other call can come between *)
(* its two.                                                                *)
(***************************************************************************)
EXTENDS Spans

CONSTANTS
    Size,      \* buffer_size
    Char,
    Source,    \* what the device has to give: a sequence of Char
    Newline,   \* the character skip_line looks for
    Garbage,   \* what a block holds before anything is read into it
    Hole,      \* what the client's memory holds before it is read into
    Requests,  \* bound: the lengths given to read and read_all
    Stops,     \* bound: the sets of characters given to skip_until
    CanThrow   \* a device read may throw

ASSUME SizeAssumption == Size \in Nat \ {0}
ASSUME SourceAssumption == Source \in Seq(Char)
ASSUME RequestsAssumption == Requests \subseteq Nat \ {0}
ASSUME StopsAssumption == Stops \subseteq SUBSET Char
ASSUME CanThrowAssumption == CanThrow \in BOOLEAN

VARIABLES
    warm,      \* the block is allocated
    mem,       \* the block
    curr, end, \* ibuffer.curr and ibuffer.end, from ibuffer.beg
    at,        \* how much the device has given
    call,      \* the call that is in progress
    got,       \* what the client has read, by position
    taken,     \* how much it has read
    told,      \* the last call told the client that it reached the end
    gap        \* history: a call threw after taking characters for the client

bufVars == <<warm, mem, curr, end, at>>
vars == <<bufVars, call, got, taken, told, gap>>

Idle == [op |-> "idle"]
Iterate == [op |-> "iterate"]
SkipLine == [op |-> "line"]
SkipUntil(stop) == [op |-> "until", stop |-> stop]
ReadAll(n) == [op |-> "all", left |-> n]

Init ==
    /\ warm = FALSE
    /\ mem = [i \in 1..Size |-> Garbage]
    /\ curr = 0
    /\ end = 0
    /\ at = 0
    /\ call = Idle
    /\ got = [i \in 1..Len(Source) |-> Hole]
    /\ taken = 0
    /\ told = FALSE
    /\ gap = FALSE

-------------------------------------------------------------------------------
(* The device and the buffer *)

\* How many characters a read of n characters may return after p were read.
Arrivals(p, n) ==
    IF p = Len(Source) THEN {0}
    ELSE {k \in 1..n : p + k <= Len(Source)}

\* The next n characters of the block are the client's.
Deliver(n) ==
    /\ got' = Copy(got, taken, mem, curr, curr + n)
    /\ taken' = taken + n

Keep == UNCHANGED <<got, taken>>

\* A bug: curr stays where it was.
RefillKeepsCurr(k) ==
    /\ k \in Arrivals(at, Size)
    /\ warm' = TRUE
    /\ mem' = Copy(mem, 0, Source, at, at + k)
    /\ end' = k
    /\ curr' = curr
    /\ at' = at + k

\* underflow: the block is allocated if need be and read into.
Refill(k) ==
    /\ k \in Arrivals(at, Size)
    /\ warm' = TRUE
    /\ mem' = Copy(mem, 0, Source, at, at + k)
    /\ end' = k
    /\ curr' = 0
    /\ at' = at + k

\* The read of underflow threw; c is where curr was left.
RefillThrows(c) ==
    /\ CanThrow
    /\ warm' = TRUE
    /\ curr' = c
    /\ UNCHANGED <<mem, end, at>>

-------------------------------------------------------------------------------
(* read: details::ibuf_read of n characters.  Done(r) is what the caller does *)
(* with the number r of characters it was given.                              *)

Remain == end - curr

\* All of them are in the block.
FromBlock(n) ==
    /\ n <= Remain
    /\ curr' = curr + n
    /\ Deliver(n)
    /\ UNCHANGED <<warm, mem, end, at, gap>>

\* No block yet, and a request that fills one: straight from the device.
Straight(n, k) ==
    /\ ~warm
    /\ Size <= n
    /\ k \in Arrivals(at, n)
    /\ got' = Copy(got, taken, Source, at, at + k)
    /\ taken' = taken + k
    /\ at' = at + k
    /\ UNCHANGED <<warm, mem, curr, end, gap>>

\* What is left of the block, then one block more, of which the request takes
\* what it needs.
Patched(n, k) ==
    /\ Remain < n /\ (warm \/ n < Size)
    /\ n <= Remain + Size
    /\ k \in Arrivals(at, Size)
    /\ warm' = TRUE
    /\ mem' = Copy(mem, 0, Source, at, at + k)
    /\ end' = k
    /\ at' = at + k
    /\ LET m == IF k < n - Remain THEN k ELSE n - Remain IN
       /\ curr' = m
       /\ got' = Copy(Copy(got, taken, mem, curr, end),
                      taken + Remain, mem', 0, m)
       /\ taken' = taken + Remain + m
    /\ UNCHANGED gap

\* A bug: what is left of the block is not copied first.
ShortHeadless(n, k) ==
    /\ warm
    /\ Remain + Size < n
    /\ k \in Arrivals(at, n - Remain)
    /\ k < n - Remain
    /\ curr' = 0
    /\ end' = 0
    /\ at' = at + k
    /\ got' = Copy(got, taken, Source, at, at + k)
    /\ taken' = taken + k
    /\ UNCHANGED <<warm, mem, gap>>

\* What is left of the block, then the rest, which is longer than a block,
\* straight from the device; it gives less than that.
Short(n, k) ==
    /\ warm
    /\ Remain + Size < n
    /\ k \in Arrivals(at, n - Remain)
    /\ k < n - Remain
    /\ curr' = 0
    /\ end' = 0
    /\ at' = at + k
    /\ got' = Copy(Copy(got, taken, mem, curr, end),
                   taken + Remain, Source, at, at + k)
    /\ taken' = taken + Remain + k
    /\ UNCHANGED <<warm, mem, gap>>

\* The device gives all of the rest: the block is refilled as well, though the
\* request has been met, and then nothing is taken from it.
Ample(n, j) ==
    LET k == n - Remain IN
    /\ warm
    /\ Remain + Size < n
    /\ k \in Arrivals(at, k)
    /\ j \in Arrivals(at + k, Size)
    /\ mem' = Copy(mem, 0, Source, at + k, at + k + j)
    /\ end' = j
    /\ curr' = 0
    /\ at' = at + k + j
    /\ got' = Copy(Copy(got, taken, mem, curr, end),
                   taken + Remain, Source, at, at + k)
    /\ taken' = taken + n
    /\ UNCHANGED <<warm, gap>>

\* A device read throws.  What was left of the block stays there, but what a
\* first device read gave is gone when it is the second that throws.
ReadThrows(n) ==
    /\ CanThrow
    /\ Remain < n
    /\ warm' = (warm \/ n < Size)
    /\ \/ UNCHANGED <<at, gap>>
       \/ /\ warm
          /\ Remain + Size < n
          /\ n - Remain \in Arrivals(at, n - Remain)
          /\ at' = at + (n - Remain)
          /\ gap' = TRUE
    /\ UNCHANGED <<mem, curr, end>>
    /\ Keep

ReadSome(n) ==
    \/ FromBlock(n)
    \/ \E k \in 0..n : Straight(n, k) \/ Short(n, k)
    \/ \E k \in 0..Size : Patched(n, k) \/ Ample(n, k)

Read(n) ==
    /\ call = Idle
    /\ \/ ReadSome(n) /\ told' = (taken' = taken)
       \/ ReadThrows(n) /\ told' = FALSE
    /\ UNCHANGED call

\* read_all: read until there is nothing left to read or nothing comes.
BeginReadAll(n) ==
    /\ call = Idle
    /\ call' = ReadAll(n)
    /\ told' = FALSE
    /\ UNCHANGED <<bufVars, got, taken, gap>>

\* A bug: a read that gives less than it was asked for is taken for the last.
ReadAllStepOnce ==
    /\ call.op = "all"
    /\ ReadSome(call.left)
    /\ call' = Idle
    /\ told' = (taken' < taken + call.left)

ReadAllStep ==
    /\ call.op = "all"
    /\ \/ /\ ReadSome(call.left)
          /\ LET n == taken' - taken IN
             IF n \in {0, call.left}
               THEN call' = Idle /\ told' = (n = 0)
               ELSE call' = ReadAll(call.left - n) /\ told' = FALSE
       \/ /\ ReadThrows(call.left)
          /\ call' = Idle
          /\ told' = FALSE

-------------------------------------------------------------------------------
(* igenerator *)

\* igenerator(in): the iterator needs a character to point at.
Igenerator ==
    /\ call = Idle
    /\ \/ /\ curr # end
          /\ call' = Iterate
          /\ told' = FALSE
          /\ UNCHANGED bufVars
       \/ /\ curr = end
          /\ \E k \in 0..Size :
                /\ Refill(k)
                /\ call' = IF k = 0 THEN Idle ELSE Iterate
                /\ told' = (k = 0)
       \/ /\ curr = end
          /\ RefillThrows(curr)
          /\ told' = FALSE
          /\ UNCHANGED call
    /\ Keep
    /\ UNCHANGED gap

\* *it, ++it: after the last character of the block the next block is read at
\* once.  The loop of the client ends there when that block is empty or throws.
Increment ==
    /\ call = Iterate
    /\ Deliver(1)
    /\ \/ /\ curr + 1 # end
          /\ curr' = curr + 1
          /\ told' = FALSE
          /\ UNCHANGED <<warm, mem, end, at, call>>
       \/ /\ curr + 1 = end
          /\ \E k \in 0..Size :
                /\ Refill(k)
                /\ call' = IF k = 0 THEN Idle ELSE Iterate
                /\ told' = (k = 0)
       \/ /\ curr + 1 = end
          /\ RefillThrows(end)
          /\ call' = Idle
          /\ told' = FALSE
    /\ UNCHANGED gap

\* The client leaves its loop at a character it does not take.
Leave ==
    /\ call = Iterate
    /\ call' = Idle
    /\ told' = FALSE
    /\ UNCHANGED <<bufVars, got, taken, gap>>

-------------------------------------------------------------------------------
(* skip_until and skip_line *)

BeginSkip(what) ==
    /\ call = Idle
    /\ call' = what
    /\ told' = FALSE
    /\ UNCHANGED <<bufVars, got, taken, gap>>

\* n characters of the block come before the first that is in stop.
Before(stop, n) ==
    /\ \A i \in (curr + 1)..(curr + n) : mem[i] \notin stop
    /\ curr + n < end => mem[curr + n + 1] \in stop

\* One round of skip_until's loop: curr is moved, and moved to the end before
\* the next block is read.
SkipUntilStep ==
    /\ call.op = "until"
    /\ \E n \in 0..Remain :
        /\ Before(call.stop, n)
        /\ Deliver(n)
        /\ \/ /\ curr + n < end
              /\ curr' = curr + n
              /\ call' = Idle
              /\ told' = FALSE
              /\ UNCHANGED <<warm, mem, end, at>>
           \/ /\ curr + n = end
              /\ \E k \in 0..Size :
                    /\ Refill(k)
                    /\ call' = IF k = 0 THEN Idle ELSE call
                    /\ told' = (k = 0)
           \/ /\ curr + n = end
              /\ RefillThrows(end)
              /\ call' = Idle
              /\ told' = FALSE
    /\ UNCHANGED gap

\* One round of skip_line's loop: curr is only moved when the newline is found,
\* so that a block whose successor cannot be read stays unread.
SkipLineStep ==
    /\ call.op = "line"
    /\ \E n \in 0..Remain :
        /\ Before({Newline}, n)
        /\ \/ /\ curr + n < end
              /\ curr' = curr + n + 1
              /\ Deliver(n + 1)
              /\ call' = Idle
              /\ told' = FALSE
              /\ UNCHANGED <<warm, mem, end, at>>
           \/ /\ curr + n = end
              /\ Deliver(n)
              /\ \E k \in 0..Size :
                    /\ Refill(k)
                    /\ call' = IF k = 0 THEN Idle ELSE call
                    /\ told' = (k = 0)
           \/ /\ curr + n = end
              /\ RefillThrows(curr)
              /\ Keep
              /\ call' = Idle
              /\ told' = FALSE
    /\ UNCHANGED gap

Next ==
    \/ \E n \in Requests : Read(n) \/ BeginReadAll(n)
    \/ ReadAllStep
    \/ Igenerator \/ Increment \/ Leave
    \/ \E stop \in Stops : BeginSkip(SkipUntil(stop))
    \/ BeginSkip(SkipLine)
    \/ SkipUntilStep \/ SkipLineStep

Spec == Init /\ [][Next]_vars

-------------------------------------------------------------------------------
(* Properties *)

Calls ==
    {Idle, Iterate, SkipLine} \cup [op : {"until"}, stop : SUBSET Char]
                              \cup [op : {"all"}, left : Nat \ {0}]

\* The state is of the right type; an iterator always has a character to give.
TypeOK ==
    /\ warm \in BOOLEAN
    /\ mem \in [1..Size -> Char \cup {Garbage}]
    /\ end \in 0..Size
    /\ curr \in 0..end
    /\ ~warm => end = 0
    /\ at \in 0..Len(Source)
    /\ call \in Calls
    /\ call = Iterate => curr < end
    /\ got \in [1..Len(Source) -> Char \cup {Garbage, Hole}]
    /\ taken \in 0..Len(Source)
    /\ told \in BOOLEAN
    /\ gap \in BOOLEAN

\* Nothing is lost between the device and the client: what the client has read
\* is the beginning of the source, and what the block still holds comes next.
InOrder ==
    /\ taken = at - Remain
    /\ \A i \in 1..taken : got[i] = Source[i]
    /\ \A i \in 1..Remain : mem[curr + i] = Source[taken + i]

\* Whatever mix of read, read_all, iteration and skipping the client uses, and
\* however the device splits the source, blocks and client memory follow the
\* source without a gap or a repetition, until a read throws between its two
\* device reads.
BlockFollowsSource == ~gap => InOrder

\* The stream implements the promise made to its clients: they read on where
\* they were, and hear of the end only when everything has been read.
Promise == INSTANCE InputStream WITH broken <- gap

ImplementsInputStream == Promise!StreamSpec
===============================================================================
