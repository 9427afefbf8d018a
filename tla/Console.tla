-------------------------------- MODULE Console --------------------------------
(***************************************************************************)
(* A program that prints to a stream without a buffer, relays a source to  *)
(* it and writes blocks to it, one call after the other.                   *)
(***************************************************************************)
EXTENDS Printing

(***************************************************************************)
(* transmit_once (fast_io_core_impl/transmit_once.h) from a buffered       *)
(* source to a stream without a buffer, as the relays of                   *)
(* benchmarks/0003.async_tcp_echo_server call it until it moves nothing,   *)
(* and write_all (read_write_all.h), which writes until everything is      *)
(* taken.                                                                  *)
(***************************************************************************)

CONSTANTS
    SourceLength,  \* the characters of the source
    BlockSize,     \* the most that one read of the source brings
    Lengths        \* bound: the given that are given to write_all

ASSUME RelayAssumption == SourceLength \in Nat /\ BlockSize \in Nat \ {0} /\ Lengths \subseteq Nat

VARIABLES
    curr,     \* the place of the next character in the block of the source
    end,      \* the end of the block; what follows has not been read
    stage,    \* transmit_once: "rest", "refill" or "block"
    moved,    \* how many characters this call has moved
    ended,    \* the relay has seen a call that moved nothing
    left,     \* write_all: what is still to be taken
    taken,    \* history: the characters that the client read itself
    broken    \* history: a refill threw

relayVars == <<curr, end, stage, moved, ended, left, taken, broken>>

RelayInit ==
    /\ curr = 1 /\ end = 1
    /\ stage = "rest"
    /\ moved = 0
    /\ ended = FALSE
    /\ left = <<>>
    /\ taken = {}
    /\ broken = FALSE

Block == Text(curr - 1, end - 1)

\* underflow (iobuf.h): a read of the source brings at least a character, or
\* nothing at its end.
Refills ==
    LET most == IF end + BlockSize > SourceLength + 1 THEN SourceLength + 1 - end ELSE BlockSize
    IN  /\ \E k \in IF most = 0 THEN {0} ELSE 1 .. most : end' = end + k
        /\ curr' = end

\* The client reads a character, which may refill the block.
Get ==
    /\ call = "none"
    /\ curr < end
    /\ taken' = taken \cup {curr}
    /\ curr' = curr + 1
    /\ UNCHANGED <<outVars, end, stage, moved, ended, left, broken>>

Underflow ==
    /\ call = "none"
    /\ curr = end
    /\ end <= SourceLength
    /\ Refills
    /\ UNCHANGED <<outVars, stage, moved, ended, left, taken, broken>>

transmit_once ==
    /\ call = "none"
    /\ ~ended
    /\ call' = "relay"
    /\ UNCHANGED <<out, given, trouble, faulty, relayVars>>

EndRelay == call' = "none" /\ stage' = "rest" /\ moved' = 0

\* A bug: what is left in the block is thrown away by the refill.
WriteRestNever ==
    /\ call = "relay" /\ stage = "rest"
    /\ stage' = "refill"
    /\ UNCHANGED <<outVars, curr, end, moved, ended, left, taken, broken>>

WriteRest ==
    /\ call = "relay" /\ stage = "rest"
    /\ WriteOut("source", Block)
    /\ moved' = Len(Block)
    /\ stage' = "refill"
    /\ UNCHANGED <<call, given, curr, end, ended, left, taken, broken>>

\* At the end of the source the call returns how much it has moved.
Refill ==
    /\ call = "relay" /\ stage = "refill"
    /\ Refills
    /\ IF end' = end
       THEN EndRelay /\ ended' = (moved = 0)
       ELSE stage' = "block" /\ UNCHANGED <<call, moved, ended>>
    /\ UNCHANGED <<out, given, trouble, faulty, left, taken, broken>>

\* The read throws: the rest that was written is still in the block.
RefillThrows ==
    /\ call = "relay" /\ stage = "refill"
    /\ Trouble("source")
    /\ broken' = TRUE
    /\ EndRelay
    /\ UNCHANGED <<out, given, curr, end, ended, left, taken>>

WriteBlock ==
    /\ call = "relay" /\ stage = "block"
    /\ WriteOut("source", Block)
    /\ curr' = end
    /\ EndRelay
    /\ UNCHANGED <<given, end, ended, left, taken, broken>>

RelayThrows ==
    /\ call = "relay" /\ stage # "refill" /\ Block # <<>>
    /\ WriteThrows("source")
    /\ EndRelay
    /\ UNCHANGED <<curr, end, ended, left, taken, broken>>

write_all ==
    /\ call = "none"
    /\ \E n \in Lengths : BeginCall("all", n) /\ left' = Text(0, n)
    /\ UNCHANGED <<curr, end, stage, moved, ended, taken, broken>>

\* A write takes some of what is left.  One that takes nothing leaves all as it
\* is, and the loop goes round again.
WriteSome ==
    /\ call = "all" /\ left # <<>>
    /\ \E k \in (IF out.kind = "span" THEN {Len(left)} ELSE 1 .. Len(left)) :
        /\ out' = [out EXCEPT !.call = @ \o SubSeq(left, 1, k)]
        /\ left' = SubSeq(left, k + 1, Len(left))
    /\ UNCHANGED <<call, given, trouble, faulty, curr, end, stage, moved, ended, taken, broken>>

AllWritten ==
    /\ call = "all" /\ left = <<>>
    /\ call' = "none"
    /\ UNCHANGED <<out, given, trouble, faulty, relayVars>>

WriteAllThrows ==
    /\ call = "all"
    /\ WriteThrows("call")
    /\ left' = <<>>
    /\ UNCHANGED <<curr, end, stage, moved, ended, taken, broken>>

RelayStep ==
    \/ WriteRest \/ Refill \/ RefillThrows \/ WriteBlock \/ RelayThrows
    \/ WriteSome \/ AllWritten \/ WriteAllThrows

RelayNext == Get \/ Underflow \/ transmit_once \/ write_all \/ RelayStep

consoleVars == <<outVars, parVars, printVars, relayVars>>

ConsoleInit == OutInit /\ PrintInit /\ RelayInit

ConsoleNext ==
    \/ PrintNext /\ UNCHANGED relayVars
    \/ ~tmp.wild /\ RelayNext /\ UNCHANGED <<parVars, printVars>>

\* Steps of a call are taken as long as it goes on, threads run, and a device
\* takes something of what it is offered again and again.
ConsoleSpec ==
    /\ ConsoleInit
    /\ [][ConsoleNext]_consoleVars
    /\ WF_consoleVars(~tmp.wild /\ PrintStep /\ UNCHANGED relayVars)
    /\ WF_consoleVars(~tmp.wild /\ RelayStep /\ UNCHANGED <<parVars, printVars>>)
    /\ WF_consoleVars(~tmp.wild /\ (\E w \in running : Plainly(PrintOut(w))) /\ UNCHANGED relayVars)

-------------------------------------------------------------------------------

Buffer == [text : Seq(Nat), cap : Nat, wild : BOOLEAN]

OutOK ==
    /\ out \in [kind : {"device", "span"}, call : Seq(Nat), source : Seq(Nat)]
    /\ call \in {"none", "print", "all", "relay"}
    /\ given \in Nat /\ trouble \in 0 .. MaxTrouble /\ faulty \subseteq {"call", "source"}

ParOK ==
    /\ threads \in Threads
    /\ job \in {"none", "alone", "spawn", "own", "join", "collect", "unwind"}
    /\ job # "none" => call = "print"
    /\ cuts \in Seq(Nat) /\ cuts # <<>> /\ own \in 0 .. elements
    /\ results \in Seq(Buffer)
    /\ written \in 0 .. Len(results) /\ Len(results) < threads

PrintOK ==
    /\ todo \in Seq(Argument) /\ direct \in BOOLEAN /\ longest \in Nat
    /\ tmp \in Buffer /\ tmp.cap >= StaticSize

SourceOK ==
    /\ stage \in {"rest", "refill", "block"}
    /\ curr \in 1 .. end /\ end \in 1 .. SourceLength + 1
    /\ moved \in Nat /\ left \in Seq(Nat)
    /\ ended \in BOOLEAN /\ broken \in BOOLEAN /\ taken \subseteq 1 .. SourceLength

ConsoleOK == OutOK /\ ParOK /\ PrintOK /\ SourceOK

Ascending(s) == \A i \in 1 .. Len(s) - 1 : s[i] < s[i + 1]

\* The characters of a call reach the stream in the order in which they were
\* given and each once; and all of them, when the call has returned, unless a
\* write of that very call came short or something threw in it.
PrintedInOrder ==
    /\ Ascending(out.call)
    /\ call \notin {"print", "all"} /\ "call" \notin faulty => out.call = Text(0, given)

\* The temporary buffer grows to twice its size or to the length of the text, not
\* to what it holds and the text: the copy may end beyond the block.  It can only
\* happen to a text that is longer than the static block; and what the threads of
\* a parallel print are given is always enough.
InsideTheBlock ==
    /\ tmp.wild => longest > StaticSize
    /\ \A w \in DOMAIN results : ~results[w].wild

\* A thread of a parallel print writes its result into the memory of its caller:
\* the caller keeps it until the thread has ended, whichever way it leaves.
ResultsOutliveThreads == running \subseteq DOMAIN results

\* What is relayed and what the client reads itself is the source, character for
\* character, until a write comes short or something throws; and only a refill
\* that throws makes the relay repeat itself.
RelayedOnce ==
    LET relayed == out.source IN
    /\ ~broken => Ascending(relayed)
    /\ "source" \notin faulty =>
        \A i \in 1 .. curr - 1 : (i \in taken) # (\E j \in 1 .. Len(relayed) : relayed[j] = i)
    /\ ended /\ "source" \notin faulty => curr = SourceLength + 1

\* Every call returns or throws, also write_all on a device that takes a little
\* at a time, and a print whose threads could not all be started.
CallsReturn == call # "none" ~> (call = "none" \/ tmp.wild)

\* What a print writes is its text in order, by calls that are as they should be.
TextInOrder == ConsoleOK /\ PrintedInOrder

\* Memory is there for what is copied into it: the temporary buffer for a text, the
\* spans for the threads that print into them, as long as they run.
MemoryIsThere == InsideTheBlock /\ ResultsOutliveThreads
================================================================================
