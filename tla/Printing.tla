------------------------------- MODULE Printing --------------------------------
(***************************************************************************)
(* Printing to a stream without a buffer, by one thread and by several:    *)
(* the stream, the temporary buffer in front of it, print and println, and *)
(* parallel print.                                                         *)
(***************************************************************************)
EXTENDS Integers, Sequences

(***************************************************************************)
(* What a program prints to and relays to without a buffer of its own: a   *)
(* descriptor, whose write (platforms/posix.h) may take less than it is    *)
(* given or throw, or a span of memory (ospan.h), which the program makes  *)
(* large enough.                                                           *)
(*                                                                         *)
(* A character is its place in what the call in progress or the last one   *)
(* was given, or in the source of a relay; what the stream has taken of    *)
(* the two is kept apart.  What was given to earlier calls is with the     *)
(* reader of the device, or was cleared from the span.                     *)
(***************************************************************************)

CONSTANT MaxTrouble   \* bound: short writes and exceptions, together

ASSUME OutAssumption == MaxTrouble \in Nat

VARIABLES
    out,      \* the device or the span: [kind, call, source]
    call,     \* the call in progress: "none", "print", "all" or "relay"
    given,    \* history: how many characters the last call was given
    trouble,  \* history: how often a write came short or something threw
    faulty    \* history: "call" or "source": whose characters met trouble

outVars == <<out, call, given, trouble, faulty>>

OutInit ==
    /\ out \in [kind : {"device", "span"}, call : {<<>>}, source : {<<>>}]
    /\ call = "none"
    /\ given = 0
    /\ trouble = 0
    /\ faulty = {}

\* The characters after place a up to place b.
Text(a, b) == [i \in 1 .. b - a |-> a + i]

\* A call that is given n characters.
BeginCall(c, n) ==
    /\ call = "none"
    /\ call' = c
    /\ given' = n
    /\ out' = [out EXCEPT !.call = <<>>]
    /\ faulty' = faulty \ {"call"}
    /\ UNCHANGED trouble

Trouble(c) ==
    /\ trouble < MaxTrouble
    /\ trouble' = trouble + 1
    /\ faulty' = faulty \cup {c}

\* write of posix.h: what it took is returned, and every caller here but
\* write_all ignores it.  A span takes everything.
WriteOut(c, t) ==
    \E k \in (IF out.kind = "device" THEN 0 ELSE Len(t)) .. Len(t) :
        /\ out' = [out EXCEPT ![c] = @ \o SubSeq(t, 1, k)]
        /\ IF k < Len(t) THEN Trouble(c) ELSE UNCHANGED <<trouble, faulty>>

\* The system call fails: nothing is taken, and the call ends.
WriteThrows(c) ==
    /\ out.kind = "device"
    /\ Trouble(c)
    /\ call' = "none"
    /\ UNCHANGED <<out, given>>

(***************************************************************************)
(* Memory that text is printed into: internal_temporary_buffer             *)
(* (fast_io_core_impl/internal_temporary_buffer.h), which starts in a      *)
(* static block and grows, the basic_ospan of ospan.h, which does not, and *)
(* the generic oreserve, orelease and put of overflow.h.                   *)
(*                                                                         *)
(* A buffer is what it holds, its capacity, and whether something was      *)
(* copied beyond its end.                                                  *)
(***************************************************************************)

CONSTANT StaticSize   \* the static block of a temporary buffer, 4096

ASSUME StaticSizeAssumption == StaticSize \in Nat \ {0}

Span(capacity) == [text |-> <<>>, cap |-> capacity, wild |-> FALSE]
NewBuffer == Span(StaticSize)

\* std::copy to the current end, which looks at no capacity.
CopyTo(b, t) ==
    [b EXCEPT !.text = @ \o t, !.wild = @ \/ Len(b.text) + Len(t) > b.cap]

ogrow(b, capacity) == [b EXCEPT !.cap = capacity]

Larger(a, b) == IF a < b THEN b ELSE a

\* A bug: the block is not grown when the text just does not fit.
WriteLate(b, t) ==
    IF b.cap - Len(b.text) + 1 < Len(t)
    THEN CopyTo(ogrow(b, Larger(2 * b.cap, Len(t))), t)
    ELSE CopyTo(b, t)

\* write and write_bad_case: twice the capacity, or the length of the text.
Write(b, t) ==
    IF b.cap - Len(b.text) < Len(t)
    THEN CopyTo(ogrow(b, Larger(2 * b.cap, Len(t))), t)
    ELSE CopyTo(b, t)

\* put and overflow.
PutChar(b, c) ==
    CopyTo(IF Len(b.text) = b.cap THEN ogrow(b, 2 * b.cap) ELSE b, <<c>>)

\* oreserve gives room only when a character more would be free.
oreserve(b, n) == Len(b.text) + n < b.cap

\* print_control of an argument that announces at most n characters: into the
\* room that was given, or into an array of its own and from there by write.
PrintReserve(b, n, t) == IF oreserve(b, n) THEN CopyTo(b, t) ELSE Write(b, t)

-------------------------------------------------------------------------------
(***************************************************************************)
(* parrallel_details (fast_io_hosted/parallel.h): the elements of a range  *)
(* are printed by hardware_concurrency threads, each into a span of its    *)
(* own; the first share is printed by the calling thread, the remainder of *)
(* the division goes to the second, and after the join the spans are       *)
(* written in order.                                                       *)
(***************************************************************************)

CONSTANTS
    Threads,          \* the values of hardware_concurrency
    CharsPerElement   \* the most characters an element prints

ASSUME ParallelAssumption == Threads \subseteq Nat \ {0} /\ CharsPerElement \in Nat

VARIABLES
    threads,   \* hardware_concurrency
    job,       \* "none", "alone", "spawn", "own", "join", "collect" or "unwind"
    cuts,      \* element i prints what is after cuts[i] up to cuts[i + 1]
    own,       \* how many elements the caller has printed itself
    results,   \* thread_result: the spans of the threads started so far
    running,   \* the threads that have not ended
    written    \* how many spans have been written

parVars == <<threads, job, cuts, own, results, running, written>>

ParInit ==
    /\ threads \in Threads
    /\ job = "none"
    /\ cuts = <<0>>
    /\ own = 0
    /\ results = <<>>
    /\ running = {}
    /\ written = 0

elements == Len(cuts) - 1
range == elements \div threads
remainder == elements - range * threads

\* The share of thread w, 0 being the caller, is from First(w) up to First(w+1).
First(w) ==
    IF w = 0 THEN 0 ELSE IF w = 1 THEN range ELSE 2 * range + remainder + (w - 2) * range
Share(w) == Text(cuts[First(w) + 1], cuts[First(w + 1) + 1])

\* offset_allocation_size and allocation_size.
Room(w) == (IF w = 1 THEN range + remainder ELSE range) * CharsPerElement

StartParallel(c) ==
    /\ cuts' = c
    /\ own' = 0
    /\ job' = IF threads < 2 THEN "alone" ELSE "spawn"
    /\ UNCHANGED <<threads, results, running, written>>

\* A bug: the caller counts as one of the threads that are started.
SpawnOneMore ==
    /\ job = "spawn"
    /\ LET w == Len(results) + 1 IN
        /\ results' = Append(results, Span(Room(w)))
        /\ running' = running \cup {w}
        /\ job' = IF w = threads THEN "own" ELSE "spawn"
    /\ UNCHANGED <<threads, cuts, own, written>>

\* emplace_back of a span and of a thread that prints into it.
Spawn ==
    /\ job = "spawn"
    /\ LET w == Len(results) + 1 IN
        /\ results' = Append(results, Span(Room(w)))
        /\ running' = running \cup {w}
        /\ job' = IF w + 1 = threads THEN "own" ELSE "spawn"
    /\ UNCHANGED <<threads, cuts, own, written>>

\* A bug: the threads wait for a latch that the caller opens before it joins them,
\* but not when it unwinds.
PrintOutWhenWanted(w) ==
    /\ w \in running \cap DOMAIN results
    /\ job = "join"
    /\ results' = [results EXCEPT ![w] = CopyTo(@, Share(w))]
    /\ running' = running \ {w}
    /\ UNCHANGED <<threads, job, cuts, own, written>>

\* print_out: the thread works on a copy of its span and stores it at the end.
\* The elements of its share follow each other in the text; oreserve of a span
\* gives room for each without a look at what is left.
PrintOut(w) ==
    /\ w \in running \cap DOMAIN results
    /\ results' = [results EXCEPT ![w] = CopyTo(@, Share(w))]
    /\ running' = running \ {w}
    /\ UNCHANGED <<threads, job, cuts, own, written>>

\* A bug: the threads are not waited for.
JoinNever ==
    /\ job = "join"
    /\ job' = "collect"
    /\ UNCHANGED <<threads, cuts, own, results, running, written>>

\* The destructor of the vector of jthreads joins them.
Join ==
    /\ job = "join"
    /\ running = {}
    /\ job' = "collect"
    /\ UNCHANGED <<threads, cuts, own, results, running, written>>

\* An exception is on its way: a thread could not be made, or the caller's own
\* share was not written.
Unwinds ==
    /\ job' = "unwind"
    /\ UNCHANGED <<threads, cuts, own, results, running, written>>

EndParallel ==
    /\ job' = "none"
    /\ cuts' = <<0>>
    /\ own' = 0
    /\ results' = <<>>
    /\ written' = 0
    /\ UNCHANGED <<threads, running>>

\* A bug: the vector of spans is destroyed before the vector of threads.
UnwoundAtOnce ==
    /\ job = "unwind"
    /\ EndParallel

\* The vector of threads was made after the vector of spans and goes first.
Unwound ==
    /\ job = "unwind"
    /\ running = {}
    /\ EndParallel

\* A span has been written.
Collected ==
    IF written + 1 = Len(results)
    THEN EndParallel
    ELSE written' = written + 1 /\ UNCHANGED <<threads, job, cuts, own, results, running>>

(***************************************************************************)
(* print and println (fast_io_core_impl/print_scan.h) on a stream without  *)
(* a buffer.  One argument that the stream itself can print goes there     *)
(* directly; otherwise the arguments are collected in a temporary buffer   *)
(* that one write hands over.  An argument is a text that is written whole *)
(* (a string), characters that are put one by one (perms), a number that   *)
(* announces how many characters it may need (reserve_printable), or a     *)
(* range whose elements are printed in parallel.                           *)
(***************************************************************************)

CONSTANT Calls   \* the lists of arguments: [how, cuts, size]

\* The text of an argument is what is after its first cut up to its last one; the
\* elements of a range have cuts between them.
Before(a) == a.cuts[1]
After(a) == a.cuts[Len(a.cuts)]
TextOf(a) == Text(Before(a), After(a))

Kinds == {"text", "chars", "reserve", "parallel"}
Argument == [how : Kinds, cuts : Seq(Nat), size : Nat]

\* A type that announces how much it may print does not print more: a number, and
\* an element of a range.
Honest(a) ==
    /\ \A i, j \in 1 .. Len(a.cuts) : i <= j => a.cuts[i] <= a.cuts[j]
    /\ a.how # "parallel" => Len(a.cuts) = 2
    /\ a.how = "reserve" => After(a) - Before(a) <= a.size
    /\ a.how = "parallel" =>
        \A i, j \in 1 .. Len(a.cuts) : i <= j => a.cuts[j] - a.cuts[i] <= (j - i) * CharsPerElement

\* Each argument goes on where the one before it ends.
Follow(args) == \A i \in 1 .. Len(args) - 1 : After(args[i]) = Before(args[i + 1])

ASSUME CallsAssumption ==
    \A args \in Calls :
        /\ args \in Seq(Argument) /\ args # <<>>
        /\ \A i \in 1 .. Len(args) : args[i].cuts # <<>> /\ Honest(args[i])
        /\ Before(args[1]) = 0 /\ Follow(args)

VARIABLES
    todo,    \* the arguments that are still to be printed
    direct,  \* they go to the stream itself
    tmp,     \* the temporary buffer
    longest  \* history: the longest text that was copied into it

printVars == <<todo, direct, tmp, longest>>

PrintInit ==
    /\ ParInit
    /\ todo = <<>>
    /\ direct = FALSE
    /\ tmp = NewBuffer
    /\ longest = 0

\* What the stream itself can print: perms are put, which a device cannot.
printable(a) == out.kind = "span" \/ a.how # "chars"

Lone(args) == Len(args) = 1 /\ args[1].how = "reserve"

Length(args) == After(args[Len(args)])

Begin ==
    /\ tmp' = NewBuffer
    /\ longest' = 0
    /\ UNCHANGED parVars

print ==
    /\ call = "none"
    /\ \E args \in Calls :
        /\ BeginCall("print", Length(args))
        /\ todo' = args
        /\ direct' = (Len(args) = 1 /\ printable(args[1]))
    /\ Begin

\* print_control_line counts the line end among what is announced.
println ==
    /\ call = "none"
    /\ \E args \in Calls :
        LET n == Length(args) IN
        /\ BeginCall("print", n + 1)
        /\ direct' = Lone(args)
        /\ todo' =
            IF Lone(args)
            THEN <<[args[1] EXCEPT !.cuts = <<Before(args[1]), n + 1>>, !.size = @ + 1]>>
            ELSE Append(args, [how |-> "chars", cuts |-> <<n, n + 1>>, size |-> 0])
    /\ Begin

Printing == call = "print" /\ job = "none"

Keep(b, t) ==
    /\ tmp' = b
    /\ longest' = Larger(longest, Len(t))
    /\ UNCHANGED <<out, trouble, faulty>>

\* The next character of perms is put into the temporary buffer.
PutNext ==
    /\ Printing /\ ~direct
    /\ todo # <<>> /\ Head(todo).how = "chars" /\ TextOf(Head(todo)) # <<>>
    /\ LET c == Before(Head(todo)) + 1
       IN  /\ Keep(PutChar(tmp, c), <<c>>)
           /\ todo' = <<[Head(todo) EXCEPT !.cuts = <<c, After(Head(todo))>>]>> \o Tail(todo)
    /\ UNCHANGED <<call, direct, given, parVars>>

\* print_control of an argument into the temporary buffer.
PrintControl(b, a) ==
    IF a.how = "reserve" THEN PrintReserve(b, a.size, TextOf(a)) ELSE Write(b, TextOf(a))

PrintArg ==
    /\ Printing
    /\ todo # <<>>
    /\ LET a == Head(todo) IN
        /\ a.how # "parallel"
        /\ a.how = "chars" /\ ~direct => TextOf(a) = <<>>
        /\ IF direct
           THEN WriteOut("call", TextOf(a)) /\ UNCHANGED <<tmp, longest>>
           ELSE Keep(PrintControl(tmp, a), TextOf(a))
    /\ todo' = Tail(todo)
    /\ UNCHANGED <<call, direct, given, parVars>>

\* The call returns; what was collected is handed over by one write.
Return ==
    /\ Printing
    /\ todo = <<>>
    /\ IF direct THEN UNCHANGED <<out, trouble, faulty>> ELSE WriteOut("call", tmp.text)
    /\ call' = "none"
    /\ tmp' = NewBuffer
    /\ UNCHANGED <<todo, direct, longest, given, parVars>>

\* The device throws out of a print that writes to it.
PrintThrows ==
    /\ Printing
    /\ IF todo = <<>> THEN ~direct ELSE direct /\ Head(todo).how # "parallel"
    /\ WriteThrows("call")
    /\ todo' = <<>>
    /\ tmp' = NewBuffer
    /\ UNCHANGED <<direct, longest, parVars>>

BeginParallel ==
    /\ Printing
    /\ todo # <<>>
    /\ Head(todo).how = "parallel"
    /\ StartParallel(Head(todo).cuts)
    /\ todo' = Tail(todo)
    /\ UNCHANGED <<outVars, direct, tmp, longest>>

\* A thread that could not be started.
SpawnThrows ==
    /\ job = "spawn"
    /\ Trouble("call")
    /\ Unwinds
    /\ UNCHANGED <<out, call, given, printVars>>

Plainly(a) == a /\ UNCHANGED <<outVars, printVars>>

\* The caller prints its own share, which is all when it is alone, while the
\* threads print theirs: element by element into the temporary buffer,
OwnElement ==
    /\ job \in {"own", "alone"}
    /\ ~direct
    /\ own < First(1)
    /\ LET t == Text(cuts[own + 1], cuts[own + 2]) IN Keep(PrintReserve(tmp, CharsPerElement, t), t)
    /\ own' = own + 1
    /\ UNCHANGED <<threads, job, cuts, results, running, written>>
    /\ UNCHANGED <<call, todo, direct, given>>

\* or into the stream, as it goes if that is memory, and from a span of the right
\* size if it is a device.
Own ==
    /\ job \in {"own", "alone"}
    /\ IF direct THEN WriteOut("call", Share(0))
       ELSE own = First(1) /\ UNCHANGED <<out, trouble, faulty>>
    /\ IF job = "alone" THEN EndParallel
       ELSE job' = "join" /\ UNCHANGED <<threads, cuts, own, results, running, written>>
    /\ UNCHANGED <<tmp, longest, call, todo, direct, given>>

OwnThrows ==
    /\ job = "own"
    /\ direct
    /\ out.kind = "device"
    /\ Trouble("call")
    /\ Unwinds
    /\ UNCHANGED <<out, call, given, printVars>>

Collect ==
    /\ job = "collect"
    /\ LET t == results[written + 1].text IN
        IF direct
        THEN WriteOut("call", t) /\ UNCHANGED <<tmp, longest>>
        ELSE Keep(Write(tmp, t), t)
    /\ Collected
    /\ UNCHANGED <<call, todo, direct, given>>

\* The print ends with the exception of its threads or of its device.
ParallelThrows ==
    /\ \/ Unwound /\ call' = "none" /\ UNCHANGED <<out, given, trouble, faulty>>
       \/ job \in {"alone", "collect"} /\ direct /\ WriteThrows("call") /\ EndParallel
    /\ todo' = <<>>
    /\ tmp' = NewBuffer
    /\ UNCHANGED <<direct, longest>>

PrintStep ==
    \/ PutNext \/ PrintArg \/ Return \/ PrintThrows \/ BeginParallel
    \/ Plainly(Spawn) \/ SpawnThrows \/ OwnElement \/ Own \/ OwnThrows
    \/ Plainly(Join) \/ Collect \/ ParallelThrows

\* A copy beyond the end of the temporary buffer is undefined: nothing is said of
\* what follows.
PrintNext == ~tmp.wild /\ (print \/ println \/ PrintStep \/ \E w \in running : Plainly(PrintOut(w)))
================================================================================
