------------------------------ MODULE ThreadPool ------------------------------
(***************************************************************************)
(* thread_pool_accept (fast_io_network/thread_pool.h): the caller accepts  *)
(* connections and puts each in a slot of its own worker thread.           *)
(*                                                                         *)
(* A slot is a std::optional, that is a flag and a payload.  The caller    *)
(* reads and writes slots without their mutex, and a worker locks only its *)
(* own, so the mutexes exclude nobody and are left out: a worker finds its *)
(* flag down and then goes to sleep in two steps, the caller fills a slot  *)
(* and raises its flag in two, and the worker's reset takes two.  In which *)
(* order it takes them is left to the standard library: libstdc++, the one *)
(* of g++, lowers the flag before it destroys the payload; others do not.  *)
(*                                                                         *)
(* Flags and payloads are read and written as if they were atomic; they    *)
(* are not, which only adds behaviours.                                    *)
(***************************************************************************)
EXTENDS Integers

CONSTANTS
    Size,       \* the number of workers and of slots
    Fd,         \* the descriptors connections get
    None,       \* not a descriptor: sock::details::invalid_socket
    CanFail     \* accept may fail

ASSUME SizeAssumption == Size \in Nat \ {0}
ASSUME NoneAssumption == None \notin Fd
ASSUME CanFailAssumption == CanFail \in BOOLEAN

Worker == 1..Size

VARIABLES
    flagFirst,  \* the program is built with an optional that lowers its flag first
    full,    \* the flags of the slots
    value,   \* their payloads
    wpc,     \* where each worker is
    acc,     \* the connection each worker serves
    mpc,     \* where the caller is
    cur,     \* the slot its iterator points to
    hand,    \* the connection it has accepted and not yet put in a slot
    open,    \* the descriptors that are open
    cut      \* history: those that were closed in a slot by a worker's reset

vars == <<flagFirst, full, value, wpc, acc, mpc, cur, hand, open, cut>>
build == <<flagFirst, cut>>
main == <<mpc, cur, hand>>

Init ==
    /\ flagFirst \in BOOLEAN
    /\ full = [i \in Worker |-> FALSE]
    /\ value = [i \in Worker |-> None]
    /\ wpc = [i \in Worker |-> "look"]
    /\ acc = [i \in Worker |-> None]
    /\ mpc = "accept"
    /\ cur = 1
    /\ hand = None
    /\ open = {}
    /\ cut = {}

-------------------------------------------------------------------------------
(* The caller *)

Accept ==
    /\ mpc = "accept"
    /\ \E f \in Fd \ open : open' = open \cup {f} /\ hand' = f
    /\ mpc' = "scan"
    /\ UNCHANGED <<build, full, value, wpc, acc, cur>>

\* accept throws.  The slots are destroyed under the workers, whose look at one
\* is undefined from here on: it is modelled as an empty slot.
AcceptFails ==
    /\ mpc = "accept"
    /\ CanFail
    /\ open' = open \ {value[i] : i \in Worker}
    /\ full' = [i \in Worker |-> FALSE]
    /\ value' = [i \in Worker |-> None]
    /\ mpc' = "unwind"
    /\ UNCHANGED <<build, wpc, acc, cur, hand>>

\* Then the condition variables are destroyed, which waits for those who sleep
\* on them, and then the threads: as they are joinable, the program terminates,
\* and what it had open is closed.
Unwind ==
    /\ mpc = "unwind"
    /\ \A i \in Worker : wpc[i] # "asleep"
    /\ mpc' = "terminated"
    /\ acc' = [i \in Worker |-> None]
    /\ open' = {}
    /\ UNCHANGED <<build, full, value, wpc, cur, hand>>

\* A bug: the iterator is one past the last slot before it wraps.
ScanPastEnd ==
    /\ mpc = "scan"
    /\ IF full[cur]
       THEN cur' = (IF cur > Size THEN 1 ELSE cur + 1) /\ UNCHANGED mpc
       ELSE mpc' = "fill" /\ UNCHANGED cur
    /\ UNCHANGED <<build, full, value, wpc, acc, hand, open>>

\* A bug: the next slot is taken unseen.
ScanOnce ==
    /\ mpc = "scan"
    /\ cur' = IF full[cur] THEN (cur % Size) + 1 ELSE cur
    /\ mpc' = "fill"
    /\ UNCHANGED <<build, full, value, wpc, acc, hand, open>>

\* One look at a flag: the caller goes round until one is down.
Scan ==
    /\ mpc = "scan"
    /\ IF full[cur]
       THEN cur' = (cur % Size) + 1 /\ UNCHANGED mpc
       ELSE mpc' = "fill" /\ UNCHANGED cur
    /\ UNCHANGED <<build, full, value, wpc, acc, hand, open>>

Fill ==
    /\ mpc = "fill"
    /\ value' = [value EXCEPT ![cur] = hand]
    /\ hand' = None
    /\ mpc' = "engage"
    /\ UNCHANGED <<build, full, wpc, acc, cur, open>>

Engage ==
    /\ mpc = "engage"
    /\ full' = [full EXCEPT ![cur] = TRUE]
    /\ mpc' = "notify"
    /\ UNCHANGED <<build, value, wpc, acc, cur, hand, open>>

\* notify_one, without the mutex: a worker that is not asleep yet misses it.
Notify ==
    /\ mpc = "notify"
    /\ wpc' = [wpc EXCEPT ![cur] = IF @ = "asleep" THEN "look" ELSE @]
    /\ mpc' = "accept"
    /\ UNCHANGED <<build, full, value, acc, cur, hand, open>>

-------------------------------------------------------------------------------
(* The workers *)

Goto(i, from, to) ==
    /\ mpc # "terminated"
    /\ wpc[i] = from
    /\ wpc' = [wpc EXCEPT ![i] = to]

\* The predicate of wait.
Look(i) ==
    /\ Goto(i, "look", IF full[i] THEN "take" ELSE "sleepy")
    /\ UNCHANGED <<build, full, value, acc, main, open>>

Sleep(i) ==
    /\ Goto(i, "sleepy", "asleep")
    /\ UNCHANGED <<build, full, value, acc, main, open>>

\* A condition variable may wake up for no reason.  It need not.
SpuriousWakeup(i) ==
    /\ Goto(i, "asleep", "look")
    /\ UNCHANGED <<build, full, value, acc, main, open>>

\* A bug: auto acc(*opt), which leaves the number in the payload.
TakeCopies(i) ==
    /\ Goto(i, "take", IF flagFirst THEN "clear" ELSE "destroy")
    /\ acc' = [acc EXCEPT ![i] = value[i]]
    /\ UNCHANGED <<build, full, value, main, open>>

\* auto acc(*std::move(opt))
Take(i) ==
    /\ Goto(i, "take", IF flagFirst THEN "clear" ELSE "destroy")
    /\ acc' = [acc EXCEPT ![i] = value[i]]
    /\ value' = [value EXCEPT ![i] = None]
    /\ UNCHANGED <<build, full, main, open>>

\* A bug: no opt.reset().
ClearNever(i) ==
    /\ Goto(i, "clear", IF flagFirst THEN "destroy" ELSE "serve")
    /\ UNCHANGED <<build, full, value, acc, main, open>>

Clear(i) ==
    /\ Goto(i, "clear", IF flagFirst THEN "destroy" ELSE "serve")
    /\ full' = [full EXCEPT ![i] = FALSE]
    /\ UNCHANGED <<build, value, acc, main, open>>

\* The destructor of the payload closes what it holds and leaves the number: with
\* the flag down already, that may be what the caller has just put there.
Destroy(i) ==
    /\ Goto(i, "destroy", IF flagFirst THEN "serve" ELSE "clear")
    /\ open' = open \ {value[i]}
    /\ cut' = cut \cup ({value[i]} \ {None})
    /\ UNCHANGED <<flagFirst, full, value, acc, main>>

\* func(acc) is over, and acc is destroyed.
Serve(i) ==
    /\ Goto(i, "serve", "look")
    /\ open' = open \ {acc[i]}
    /\ acc' = [acc EXCEPT ![i] = None]
    /\ UNCHANGED <<build, full, value, main>>

-------------------------------------------------------------------------------

Go == Unwind \/ Scan \/ Fill \/ Engage \/ Notify

Work(i) == Look(i) \/ Sleep(i) \/ Take(i) \/ Clear(i) \/ Destroy(i) \/ Serve(i)

Next ==
    \/ Accept \/ AcceptFails \/ Go
    \/ \E i \in Worker : Work(i) \/ SpuriousWakeup(i)

\* Every thread that can run, runs, and every func returns.  Clients need not
\* connect, and nobody promises a spurious wakeup.
Spec ==
    /\ Init /\ [][Next]_vars
    /\ WF_vars(Go)
    /\ \A i \in Worker : WF_vars(Work(i))

-------------------------------------------------------------------------------
(* Properties *)

\* The state is of the right type: the iterator points to a slot, and the caller
\* has a connection in its hand exactly while it looks for one.
TypeOK ==
    /\ flagFirst \in BOOLEAN
    /\ full \in [Worker -> BOOLEAN]
    /\ value \in [Worker -> Fd \cup {None}]
    /\ wpc \in [Worker -> {"look", "sleepy", "asleep", "take", "destroy",
                           "clear", "serve"}]
    /\ acc \in [Worker -> Fd \cup {None}]
    /\ mpc \in {"accept", "scan", "fill", "engage", "notify", "unwind",
                "terminated"}
    /\ cur \in Worker
    /\ hand \in Fd \cup {None}
    /\ open \subseteq Fd
    /\ cut \subseteq Fd
    /\ hand # None <=> mpc \in {"scan", "fill"}

\* The places for connections: the hand, the slots and the workers.
Place == -Size..Size

Holds(p) == IF p = 0 THEN hand ELSE IF p > 0 THEN value[p] ELSE acc[-p]

\* A connection is open exactly as long as one object holds it, and never two:
\* none is served twice, closed under the one who serves it, or leaked, although
\* slots are handed over without a lock.  The exception is a number that a reset
\* has closed in a slot that was filled meanwhile, which takes an optional that
\* lowers its flag first; all other connections keep their owners even then.
ConnectionsAreOwned ==
    /\ cut # {} => flagFirst
    /\ \A f \in Fd \ cut :
        /\ f \in open <=> \E p \in Place : Holds(p) = f
        /\ \A p, q \in Place : Holds(p) = f /\ Holds(q) = f => p = q

\* The worker sleeps on a connection and no notification is under way.
Forgotten(i) ==
    full[i] /\ wpc[i] = "asleep" /\ ~(mpc = "notify" /\ cur = i)

\* A connection is served and closed, unless some notification was lost.
ServedOrForgotten ==
    \A f \in Fd : f \in open ~> f \notin open \/ \E i \in Worker : Forgotten(i)

\* Every connection that was accepted is served and closed.
EveryConnectionServed == \A f \in Fd : f \in open ~> f \notin open
===============================================================================
