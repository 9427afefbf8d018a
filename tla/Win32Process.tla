----------------------------- MODULE Win32Process -----------------------------
(***************************************************************************)
(* basic_win32_process and its priviledge_guard                            *)
(* (fast_io_hosted/process/win32.h): threads that build processes at the   *)
(* same time, with handles that they share.                                *)
(*                                                                         *)
(* A child inherits every handle of its parent whose flag is up.  The      *)
(* constructor raises the flags of the three standard handles where they   *)
(* are down, creates the process, and lowers them again, the last first.   *)
(* The flag belongs to the handle, not to the thread.                      *)
(***************************************************************************)
EXTENDS Integers, Sequences, FiniteSets, SequencesExt

CONSTANTS
    Builders,  \* the threads that build processes, a process each
    Ours,      \* the parent's handles that are given to children
    Numbers,   \* the values that handles of processes and threads may have
    Holders    \* places for basic_win32_process objects

ASSUME NumbersAssumption == Numbers \subseteq Nat \ {0}

VARIABLES
    began,     \* the handles opened, copied or made as inheritable
    flag,      \* those whose flag is up
    at,        \* where each builder is
    io,        \* its standard handles
    guards,    \* what its guards lower
    has,       \* what its child inherited
    pinfo,     \* the hProcess and hThread of each object
    what,      \* what each number stands for
    jn,        \* the objects are win32_jprocess
    ended,     \* the children that ended
    left,      \* history: the children that were detached
    alone,     \* history: the builders during whose constructor no other ran
    undone     \* history: the builders a handle of which another's guard lowered

pVars == <<began, flag, at, io, guards, has, pinfo, what, jn, ended, left, alone, undone>>

\* Bound: the standard handles of a child are one for its input and another for
\* its output and its errors.
Redirects == {r \in [1 .. 3 -> Ours] : r[1] # r[2] /\ r[2] = r[3]}

Nobody == [process |-> 0, thread |-> 0]
NoProcess == [process |-> -1, thread |-> -1]
Nothing == [of |-> 0, part |-> "none"]

ChildrenInit ==
    /\ began \in SUBSET Ours /\ flag = began
    /\ at = [t \in Builders |-> <<"idle">>]
    /\ io \in [Builders -> Redirects]
    /\ guards = [t \in Builders |-> <<>>]
    /\ has = [t \in Builders |-> {}]
    /\ pinfo = [p \in Holders |-> NoProcess]
    /\ what = [n \in Numbers |-> Nothing]
    /\ jn \in BOOLEAN
    /\ ended = {} /\ left = {} /\ alone = {} /\ undone = {}

Inside(t) == at[t] \notin {<<"idle">>, <<"done">>, <<"failed">>}
Before(t) == Inside(t) /\ at[t] \notin {<<"lowers">>, <<"throws">>}
Streams(t) == {io[t][i] : i \in 1 .. 3}
Goes(t, step) == at' = [at EXCEPT ![t] = step]
objVars == <<pinfo, what, jn, ended, left>>

-------------------------------------------------------------------------------
(* The constructor *)

\* priviledge_guard: GetHandleInformation of the first handle.
Begin(t) ==
    /\ at[t] = <<"idle">>
    /\ Goes(t, <<"looks", 1>>)
    /\ LET others == {u \in Builders : Inside(u)}
       IN  alone' = IF others = {} THEN alone \cup {t} ELSE alone \ (others \cup {t})
    /\ UNCHANGED <<began, flag, io, guards, has, objVars, undone>>

After(i) == IF i = 3 THEN <<"creates">> ELSE <<"looks", i + 1>>

\* A bug: the flag is raised and lowered whatever it was.
LookAlways(t, i) ==
    /\ at[t] = <<"looks", i>>
    /\ Goes(t, <<"raises", i>>)
    /\ UNCHANGED <<began, flag, io, guards, has, objVars, alone, undone>>

Look(t, i) ==
    /\ at[t] = <<"looks", i>>
    /\ Goes(t, IF io[t][i] \in flag THEN After(i) ELSE <<"raises", i>>)
    /\ UNCHANGED <<began, flag, io, guards, has, objVars, alone, undone>>

\* SetHandleInformation
Raise(t, i) ==
    /\ at[t] = <<"raises", i>>
    /\ flag' = flag \cup {io[t][i]}
    /\ guards' = [guards EXCEPT ![t] = Append(@, io[t][i])]
    /\ Goes(t, After(i))
    /\ UNCHANGED <<began, io, has, objVars, alone, undone>>

\* Bound: a new handle has one of the two smallest numbers that are free.
FirstFree ==
    LET free == {n \in Numbers : what[n] = Nothing}
    IN  {n \in free : Cardinality({m \in free : m < n}) < 2}

\* CreateProcessA
Create(t) ==
    /\ at[t] = <<"creates">>
    /\ has' = [has EXCEPT ![t] = flag]
    /\ \E p \in Holders, n, m \in FirstFree :
        /\ pinfo[p] = NoProcess /\ n < m
        /\ pinfo' = [pinfo EXCEPT ![p] = [process |-> n, thread |-> m]]
        /\ what' = [what EXCEPT ![n] = [of |-> t, part |-> "process"], ![m] = [of |-> t, part |-> "thread"]]
    /\ Goes(t, <<"lowers">>)
    /\ UNCHANGED <<began, flag, io, guards, jn, ended, left, alone, undone>>

\* An exception of CreateProcess, or of a guard when some are there already.
Throws(t) ==
    /\ Before(t)
    /\ Goes(t, <<"throws">>)
    /\ UNCHANGED <<began, flag, io, guards, has, objVars, alone, undone>>

\* A bug: the guards lower nothing.
LowerNothing(t) ==
    /\ at[t] \in {<<"lowers">>, <<"throws">>}
    /\ Goes(t, IF at[t] = <<"lowers">> THEN <<"done">> ELSE <<"failed">>)
    /\ guards' = [guards EXCEPT ![t] = <<>>]
    /\ UNCHANGED <<began, flag, io, has, objVars, alone, undone>>

\* ~priviledge_guard, the last one first.
Lower(t) ==
    /\ at[t] \in {<<"lowers">>, <<"throws">>}
    /\ IF guards[t] # <<>>
       THEN LET h == Last(guards[t]) IN
            /\ flag' = flag \ {h}
            /\ guards' = [guards EXCEPT ![t] = Front(@)]
            /\ undone' = undone \cup {u \in Builders \ {t} : Before(u) /\ h \in Streams(u)}
            /\ UNCHANGED at
       ELSE /\ Goes(t, IF at[t] = <<"lowers">> THEN <<"done">> ELSE <<"failed">>)
            /\ UNCHANGED <<flag, guards, undone>>
    /\ UNCHANGED <<began, io, has, objVars, alone>>

buildVars == <<began, flag, at, io, guards, has, alone, undone>>

-------------------------------------------------------------------------------
(* The objects.  A wait returns once the child has ended. *)

ChildEnds(t) ==
    /\ \E n \in Numbers : what[n] = [of |-> t, part |-> "process"]
    /\ \A u \in Builders : ~Inside(u)
    /\ t \notin ended /\ ended' = ended \cup {t}
    /\ UNCHANGED <<buildVars, pinfo, what, jn, left>>

\* Bound: objects are used between constructors, which look at no object.
IsProcess(p) == pinfo[p] # NoProcess /\ \A t \in Builders : ~Inside(t)
WaitReturns(p) == pinfo[p].process \in Numbers => what[pinfo[p].process].of \in ended

\* detach: both handles are closed.
ClosedBoth(p) == [n \in Numbers |-> IF n \in {pinfo[p].process, pinfo[p].thread} THEN Nothing ELSE what[n]]

Detach(p) ==
    /\ IsProcess(p)
    /\ what' = ClosedBoth(p)
    /\ pinfo' = [pinfo EXCEPT ![p] = Nobody]
    /\ left' = left \cup {what[n].of : n \in {pinfo[p].process} \cap Numbers}
    /\ UNCHANGED <<buildVars, jn, ended>>

\* A bug: the handle stays in the object.
JoinKeeping(p) ==
    /\ IsProcess(p) /\ pinfo[p].process # 0 /\ WaitReturns(p)
    /\ what' = [what EXCEPT ![pinfo[p].process] = Nothing]
    /\ UNCHANGED <<buildVars, pinfo, jn, ended, left>>

\* join closes the process and not its thread, and throws without a process.
Join(p) ==
    /\ IsProcess(p) /\ pinfo[p].process # 0 /\ WaitReturns(p)
    /\ what' = [what EXCEPT ![pinfo[p].process] = Nothing]
    /\ pinfo' = [pinfo EXCEPT ![p].process = 0]
    /\ UNCHANGED <<buildVars, jn, ended, left>>

MoveProcess(p, r) ==
    /\ pinfo[p] = NoProcess /\ IsProcess(r)
    /\ pinfo' = [pinfo EXCEPT ![p] = pinfo[r], ![r] = Nobody]
    /\ UNCHANGED <<buildVars, what, jn, ended, left>>

\* operator= and the destructor: win32_jprocess waits, win32_process does not.
AssignProcess(p, r) ==
    /\ p # r /\ IsProcess(p) /\ IsProcess(r) /\ (jn => WaitReturns(p))
    /\ what' = ClosedBoth(p)
    /\ pinfo' = [pinfo EXCEPT ![p] = pinfo[r], ![r] = Nobody]
    /\ UNCHANGED <<buildVars, jn, ended, left>>

DestroyProcess(p) ==
    /\ IsProcess(p) /\ (jn => WaitReturns(p))
    /\ what' = ClosedBoth(p)
    /\ pinfo' = [pinfo EXCEPT ![p] = NoProcess]
    /\ UNCHANGED <<buildVars, jn, ended, left>>

ChildrenNext ==
    \/ \E t \in Builders :
        \/ Begin(t) \/ Create(t) \/ Throws(t) \/ Lower(t) \/ ChildEnds(t)
        \/ \E i \in 1 .. 3 : Look(t, i) \/ Raise(t, i)
    \/ \E p \in Holders :
        \/ Detach(p) \/ Join(p) \/ DestroyProcess(p)
        \/ \E r \in Holders : MoveProcess(p, r) \/ AssignProcess(p, r)

ChildrenSpec == ChildrenInit /\ [][ChildrenNext]_pVars
-------------------------------------------------------------------------------

\* A flag that was up stays up, and the others are down again when no process
\* is being created, whatever threads did it at the same time and whatever
\* threw.
FlagsComeBack ==
    /\ began \subseteq flag
    /\ (\A t \in Builders : ~Inside(t)) => flag = began

\* A child whose constructor ran alone inherits its three streams and what was
\* inheritable, and nothing else; one that ran beside another may inherit that
\* one's streams; and it misses one of its own only if the other's guard
\* lowered it in between.
ChildrenInherit ==
    \A t \in Builders : at[t] = <<"done">> =>
        /\ t \in alone => has[t] = began \cup Streams(t)
        /\ has[t] \subseteq began \cup UNION {Streams(u) : u \in Builders}
        /\ Streams(t) \subseteq has[t] \/ t \in undone

\* Each handle of a process or a thread is in one object, which has no other;
\* and win32_jprocess lets go only of children that ended or were detached.
ProcessesAreOwned ==
    LET Parts(p) == {pinfo[p].process, pinfo[p].thread} \cap Numbers
    IN  /\ \A n \in Numbers : what[n] # Nothing <=> \E p \in Holders : n \in Parts(p)
        /\ \A p, r \in Holders : p # r => Parts(p) \cap Parts(r) = {}
        /\ \A t \in Builders :
               jn /\ at[t] = <<"done">> /\ t \notin ended \cup left =>
                   \E n \in Numbers : what[n] = [of |-> t, part |-> "process"]

\* Children get the handles they should, but for the race of two guards, and
\* their own handles have one owner.
ChildrenAreInOrder == FlagsComeBack /\ ChildrenInherit /\ ProcessesAreOwned
===============================================================================
