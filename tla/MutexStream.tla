------------------------------ MODULE MutexStream ------------------------------
(***************************************************************************)
(* Threads that share basic_iomutex streams (fast_io_hosted/iomutex.h)     *)
(* through print, scan (print_scan.h) and transmit (transmit.h).           *)
(*                                                                         *)
(* print and scan hold the mutex of their stream for the whole call and    *)
(* use the unlocked handle inside; write, flush, fill_nc, seek and read of *)
(* a basic_iomutex are the same with one argument.  transmit is a print to *)
(* its output whose only argument locks the input, so it takes two mutexes *)
(* one after the other.  lock_guard gives every mutex back when the call   *)
(* returns or throws, the innermost first.                                 *)
(*                                                                         *)
(* A round of a transmit has two halves, either of which may throw: from a *)
(* basic_ibuf it writes the block and then refills it, which forgets what  *)
(* was written; from a handle it reads into an array and then writes that. *)
(*                                                                         *)
(* What a write does inside the handle is the matter of module Obuf: here  *)
(* it is one more piece of the log.  Excluded: swap, which exchanges mutex *)
(* and handle without a lock.                                              *)
(***************************************************************************)
EXTENDS Integers, Sequences

CONSTANTS
    Thread,    \* the threads; a name stands for the thread's variables too
    Stream,    \* the streams, each with its mutex
    None,      \* the owner of a free mutex
    Length,    \* how much each stream has to read
    Buffered,  \* the streams whose handle is a basic_ibuf
    Room,      \* bound: how much one read of a device gives
    Calls,     \* bound: the calls that threads make
    MaxCalls,  \* bound: how many of them each thread makes
    CanThrow   \* devices may throw

ASSUME NamesAssumption == Stream \cap Thread = {} /\ None \notin Thread
ASSUME LengthAssumption == Length \in [Stream -> Nat]
ASSUME BufferedAssumption == Buffered \subseteq Stream
ASSUME RoomAssumption == Room \in Nat \ {0}
ASSUME CallsAssumption ==
    Calls \subseteq [op : {"print"}, out : Stream, n : Nat]
               \cup [op : {"scan"}, in : Buffered, n : Nat]
               \cup [op : {"transmit"}, out : Stream, in : Stream]
ASSUME MaxCallsAssumption == MaxCalls \in Nat
ASSUME CanThrowAssumption == CanThrow \in BOOLEAN

Sinks == Stream \cup Thread

VARIABLES
    owner,     \* the thread that holds the mutex of a stream
    pc,        \* where each thread is in its call
    call,      \* the call it makes, or made last
    done,      \* how many arguments of it are done
    calls,     \* how many calls it has begun
    log,       \* what was written to each stream, and what each thread scanned
    taken,     \* how much of each stream was read
    block,     \* how much of it is in the block or in the array, and goes next
    threw,     \* the last call of the thread threw
    log0,      \* history: log without the call that is in progress there
    taken0     \* history: taken without it

locals == <<pc, call, done, calls>>
content == <<log, taken, block, threw>>
history == <<log0, taken0>>
vars == <<owner, locals, content, history>>

Init ==
    /\ owner = [s \in Stream |-> None]
    /\ pc = [t \in Thread |-> "idle"]
    /\ \E c \in Calls : call = [t \in Thread |-> c]
    /\ done = [t \in Thread |-> 0]
    /\ calls = [t \in Thread |-> 0]
    /\ log = [x \in Sinks |-> <<>>]
    /\ taken = [s \in Stream |-> 0]
    /\ block = [s \in Stream |-> 0]
    /\ threw = [t \in Thread |-> FALSE]
    /\ log0 = log
    /\ taken0 = taken

-------------------------------------------------------------------------------
(* Locks *)

Begin(t, c) ==
    /\ pc[t] = "idle"
    /\ calls[t] < MaxCalls
    /\ calls' = [calls EXCEPT ![t] = @ + 1]
    /\ call' = [call EXCEPT ![t] = c]
    /\ done' = [done EXCEPT ![t] = 0]
    /\ pc' = [pc EXCEPT ![t] = IF c.op = "scan" THEN "lockIn" ELSE "lockOut"]
    /\ UNCHANGED <<owner, content, history>>

Acquire(t, s, next) ==
    /\ owner[s] = None
    /\ owner' = [owner EXCEPT ![s] = t]
    /\ pc' = [pc EXCEPT ![t] = next]
    /\ UNCHANGED <<call, done, calls, content, history>>

LockOut(t) ==
    /\ pc[t] = "lockOut"
    /\ Acquire(t, call[t].out, IF call[t].op = "print" THEN "run" ELSE "lockIn")

\* A bug: the mutex of the input is not taken.
LockInNever(t) ==
    /\ pc[t] = "lockIn"
    /\ pc' = [pc EXCEPT ![t] = "run"]
    /\ UNCHANGED <<owner, call, done, calls, content, history>>

LockIn(t) ==
    /\ pc[t] = "lockIn"
    /\ Acquire(t, call[t].in, "run")

\* Where the call of t writes.
Sink(t) == IF call[t].op = "scan" THEN t ELSE call[t].out

\* The mutex that is given back first.
Inner(t) == IF call[t].op = "print" THEN call[t].out ELSE call[t].in

\* The call returns or throws: the inner mutex is given back, and with it what
\* the call did, in this step too, becomes visible.
Release(t, failed) ==
    /\ owner' = [owner EXCEPT ![Inner(t)] = None]
    /\ pc' = [pc EXCEPT ![t] = IF call[t].op = "transmit" THEN "unlock" ELSE "idle"]
    /\ threw' = [threw EXCEPT ![t] = failed]
    /\ log0' = [log0 EXCEPT ![Sink(t)] = log'[Sink(t)]]
    /\ taken0' = IF call[t].op = "print" THEN taken0
                 ELSE [taken0 EXCEPT ![call[t].in] = taken'[call[t].in]]
    /\ UNCHANGED <<call, done, calls>>

\* The output of a transmit is given back after its input.
Unlock(t) ==
    /\ pc[t] = "unlock"
    /\ owner' = [owner EXCEPT ![call[t].out] = None]
    /\ pc' = [pc EXCEPT ![t] = "idle"]
    /\ UNCHANGED <<call, done, calls, content, history>>

-------------------------------------------------------------------------------
(* Inside the locks *)

\* What is to be done: the arguments, one of which is all of a transmit.
Args(t) == IF call[t].op = "transmit" THEN 1 ELSE call[t].n

Runs(t, op) == pc[t] = "run" /\ call[t].op = op /\ done[t] < Args(t)

\* k arguments are printed.
PrintMore(t, k) ==
    log' = [log EXCEPT ![call[t].out] =
                @ \o [j \in 1..k |-> [by |-> t, part |-> done[t] + j]]]

\* k fields or characters of the input, after the first p, go to the sink.
Give(t, p, k) ==
    log' = [log EXCEPT ![Sink(t)] =
                @ \o [j \in 1..k |-> [from |-> call[t].in, at |-> p + j]]]

\* What the device of s still has.
Unread(s) == Length[s] - taken[s] - (IF s \in Buffered THEN block[s] ELSE 0)

\* What a read of the device may give.
Reads(s) == {k \in 1..Room : k <= Unread(s)}

\* print_control of the next argument.
PrintArg(t) ==
    /\ Runs(t, "print")
    /\ PrintMore(t, 1)
    /\ done' = [done EXCEPT ![t] = @ + 1]
    /\ UNCHANGED <<owner, pc, call, calls, taken, block, threw, history>>

\* scan_define of the next argument, which is one field.
ScanArg(t) ==
    LET i == call[t].in IN
    /\ Runs(t, "scan")
    /\ block[i] > 0
    /\ Give(t, taken[i], 1)
    /\ taken' = [taken EXCEPT ![i] = @ + 1]
    /\ block' = [block EXCEPT ![i] = @ - 1]
    /\ done' = [done EXCEPT ![t] = @ + 1]
    /\ UNCHANGED <<owner, pc, call, calls, threw, history>>

\* It finds the block empty and refills it.
ScanRefill(t) ==
    LET i == call[t].in IN
    /\ Runs(t, "scan")
    /\ block[i] = 0
    /\ \E k \in Reads(i) : block' = [block EXCEPT ![i] = k]
    /\ UNCHANGED <<owner, locals, log, taken, threw, history>>

\* bufferred_transmit_impl from a basic_ibuf: the block is written.
WriteBlock(t) ==
    LET i == call[t].in IN
    /\ Runs(t, "transmit")
    /\ i \in Buffered
    /\ Give(t, taken[i], block[i])
    /\ pc' = [pc EXCEPT ![t] = "half"]
    /\ UNCHANGED <<owner, call, done, calls, taken, block, threw, history>>

\* A bug: the block is refilled, and what was written is not counted.
UnderflowForgets(t) ==
    LET i == call[t].in IN
    /\ pc[t] = "half"
    /\ i \in Buffered
    /\ done' = [done EXCEPT ![t] = IF Unread(i) = 0 THEN 1 ELSE 0]
    /\ block' \in {[block EXCEPT ![i] = k] : k \in IF Unread(i) = 0 THEN {0} ELSE Reads(i)}
    /\ pc' = [pc EXCEPT ![t] = "run"]
    /\ UNCHANGED <<owner, call, calls, log, taken, threw, history>>

\* Then it is refilled, until the device has nothing more.
Underflow(t) ==
    LET i == call[t].in IN
    /\ pc[t] = "half"
    /\ i \in Buffered
    /\ taken' = [taken EXCEPT ![i] = @ + block[i]]
    /\ done' = [done EXCEPT ![t] = IF Unread(i) = 0 THEN 1 ELSE 0]
    /\ block' \in {[block EXCEPT ![i] = k] : k \in IF Unread(i) = 0 THEN {0} ELSE Reads(i)}
    /\ pc' = [pc EXCEPT ![t] = "run"]
    /\ UNCHANGED <<owner, call, calls, log, threw, history>>

\* From a handle: the array is read, until there is nothing more.
ReadArray(t) ==
    LET i == call[t].in IN
    /\ Runs(t, "transmit")
    /\ i \notin Buffered
    /\ \E k \in Reads(i) :
        /\ taken' = [taken EXCEPT ![i] = @ + k]
        /\ block' = [block EXCEPT ![i] = k]
    /\ pc' = [pc EXCEPT ![t] = "half"]
    /\ UNCHANGED <<owner, call, done, calls, log, threw, history>>

ReadNothing(t) ==
    /\ Runs(t, "transmit")
    /\ call[t].in \notin Buffered
    /\ Unread(call[t].in) = 0
    /\ done' = [done EXCEPT ![t] = 1]
    /\ UNCHANGED <<owner, pc, call, calls, content, history>>

\* Then the array is written.
WriteArray(t) ==
    LET i == call[t].in IN
    /\ pc[t] = "half"
    /\ i \notin Buffered
    /\ Give(t, taken[i] - block[i], block[i])
    /\ pc' = [pc EXCEPT ![t] = "run"]
    /\ UNCHANGED <<owner, call, done, calls, taken, block, threw, history>>

Return(t) ==
    /\ pc[t] = "run"
    /\ done[t] = Args(t)
    /\ UNCHANGED <<log, taken, block>>
    /\ Release(t, FALSE)

\* The device throws; what it has taken of the argument stays.
PrintThrows(t) ==
    /\ CanThrow
    /\ Runs(t, "print")
    /\ \E k \in 0..1 : PrintMore(t, k)
    /\ UNCHANGED <<taken, block>>
    /\ Release(t, TRUE)

\* scan finds the end and throws eof; or there is no number in the field, or the
\* refill throws in the middle of it.
ScanThrows(t) ==
    LET i == call[t].in IN
    /\ Runs(t, "scan")
    /\ \/ block[i] = 0 /\ Unread(i) = 0 /\ UNCHANGED <<taken, block>>
       \/ CanThrow /\ \E k \in 0..1 :
            /\ k <= block[i]
            /\ taken' = [taken EXCEPT ![i] = @ + k]
            /\ block' = [block EXCEPT ![i] = @ - k]
    /\ UNCHANGED log
    /\ Release(t, TRUE)

\* A write throws when k characters are delivered: the block keeps all of them,
\* the array is gone with the rest.
WriteThrows(t) ==
    LET i == call[t].in  buffered == i \in Buffered IN
    /\ CanThrow
    /\ call[t].op = "transmit"
    /\ IF buffered THEN Runs(t, "transmit") ELSE pc[t] = "half"
    /\ \E k \in 0..block[i] : Give(t, IF buffered THEN taken[i] ELSE taken[i] - block[i], k)
    /\ UNCHANGED <<taken, block>>
    /\ Release(t, TRUE)

\* A read throws: what was written of the block is delivered and not consumed.
ReadThrows(t) ==
    /\ CanThrow
    /\ call[t].op = "transmit"
    /\ IF call[t].in \in Buffered THEN pc[t] = "half" ELSE Runs(t, "transmit")
    /\ UNCHANGED <<log, taken, block>>
    /\ Release(t, TRUE)

\* A bug: nothing gives the mutex back when the call throws.
ThrowHolding(t) ==
    /\ pc[t] = "run"
    /\ CanThrow
    /\ pc' = [pc EXCEPT ![t] = "idle"]
    /\ threw' = [threw EXCEPT ![t] = TRUE]
    /\ UNCHANGED <<owner, call, done, calls, log, taken, block, history>>

Throw(t) == PrintThrows(t) \/ ScanThrows(t) \/ WriteThrows(t) \/ ReadThrows(t)

Step(t) ==
    \/ LockOut(t) \/ LockIn(t)
    \/ PrintArg(t) \/ ScanArg(t) \/ ScanRefill(t)
    \/ WriteBlock(t) \/ Underflow(t)
    \/ ReadArray(t) \/ ReadNothing(t) \/ WriteArray(t)
    \/ Return(t) \/ Throw(t) \/ Unlock(t)

Next == \E t \in Thread : Step(t) \/ \E c \in Calls : Begin(t, c)

\* Every thread that can run, runs.  The mutexes need not be fair: a thread
\* makes finitely many calls.
Spec == Init /\ [][Next]_vars /\ \A t \in Thread : WF_vars(Step(t))

-------------------------------------------------------------------------------
(* Properties *)

\* The mutexes that t holds.
Held(t) ==
    CASE pc[t] \in {"idle", "lockOut"} -> {}
      [] pc[t] = "lockIn" ->
            IF call[t].op = "transmit" THEN {call[t].out} ELSE {}
      [] pc[t] \in {"run", "half"} ->
            IF call[t].op = "transmit" THEN {call[t].out, call[t].in}
            ELSE {Inner(t)}
      [] pc[t] = "unlock" -> {call[t].out}

Entry == [by : Thread, part : Nat] \cup [from : Stream, at : Nat]

\* The state is of the right type; a thread holds the mutexes that its place in
\* its call says, and nobody else's; no block has more than the device gave.
TypeOK ==
    /\ pc \in [Thread -> {"idle", "lockOut", "lockIn", "run", "half", "unlock"}]
    /\ call \in [Thread -> Calls]
    /\ done \in [Thread -> Nat]
    /\ calls \in [Thread -> 0..MaxCalls]
    /\ log \in [Sinks -> Seq(Entry)] /\ log0 \in [Sinks -> Seq(Entry)]
    /\ taken \in [Stream -> Nat] /\ taken0 \in [Stream -> Nat]
    /\ block \in [Stream -> 0..Room]
    /\ threw \in [Thread -> BOOLEAN]
    /\ owner \in [Stream -> Thread \cup {None}]
    /\ \A t \in Thread, s \in Stream : owner[s] = t <=> s \in Held(t)

\* However the steps of the threads interleave, and whatever throws at whichever
\* step, each call takes effect at once, and only one that threw repeats or loses
\* anything: at most a block.
Atomic == INSTANCE AtomicStreams WITH log <- log0, taken <- taken0

ImplementsAtomicStreams == Atomic!AtomicSpec

\* The mutex that t waits for.
Wanted(t) == IF pc[t] = "lockOut" THEN call[t].out ELSE call[t].in

\* The thread is one of several, or of one, that all wait for one another.
InRing(t) ==
    \E ring \in SUBSET Thread :
        /\ t \in ring
        /\ \A u \in ring : pc[u] \in {"lockOut", "lockIn"} /\ owner[Wanted(u)] \in ring

\* Every call returns, or throws, unless transmits that took the mutexes of two
\* streams in opposite orders, or of one stream twice, wait for one another for
\* ever, and it waits for one of them.
EveryCallReturns ==
    \A t \in Thread : pc[t] # "idle" ~> pc[t] = "idle" \/ InRing(t)
===============================================================================
