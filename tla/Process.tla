-------------------------------- MODULE Process --------------------------------
(***************************************************************************)
(* posix_jprocess, the redirection of its standard streams and the pipes   *)
(* it is given (fast_io_hosted/process/posix.h, platforms/posix.h): a      *)
(* parent that builds pipes and processes in a scope and leaves it, and    *)
(* its children from fork to the wait that reaps them.                     *)
(*                                                                         *)
(* Every process has a descriptor table, of which fork makes a copy.  The  *)
(* child redirects 0, 1 and 2 and calls exec; the parent closes the ends   *)
(* it gave away and forgets their numbers.  Nothing closes on exec, so     *)
(* what a child was forked with and did not close it holds until it ends,  *)
(* and the reader of a pipe waits for everyone who holds its writing end.  *)
(* A program behind exec copies its input to its output, as the            *)
(* ./transmit of examples/0016.process does.                               *)
(***************************************************************************)
EXTENDS Integers, Sequences, FiniteSets, SequencesExt

CONSTANTS
    Pipe,      \* the pipes that the parent may have, in the order it builds them
    Obj,       \* its posix_jprocess objects, likewise
    Kid,       \* bound: the children it may fork; a fresh one's number is its own
    Fds,       \* the descriptors of a process
    Stdio,     \* which of 0, 1 and 2 may be open when the parent starts
    Ios,       \* bound: the process_io arguments that are tried
    Room,      \* how much a pipe takes before its writer blocks
    MaxChars,  \* bound: characters that enter a pipe from outside
    Free, Tty, None

Parent == 0
Proc == {Parent} \cup Kid
End == [pipe : Pipe, side : {"r", "w"}]
Slot == {"in", "out", "err"}

ASSUME KidAssumption == Kid \subseteq Nat \ {Parent}
ASSUME BoundsAssumption == Room \in Nat /\ MaxChars \in Nat
ASSUME FdsAssumption == {0, 1, 2} \subseteq Fds /\ Fds \subseteq Nat
ASSUME IosAssumption == Ios \subseteq [Slot -> {None} \cup Pipe \cup {0, 1, 2}]
ASSUME NamesAssumption ==
    /\ Free \notin End \cup {Tty} /\ Tty \notin End
    /\ Pipe \subseteq Nat \ {0, 1, 2} /\ Obj \subseteq Nat
    /\ Pipe \cap Obj = {} /\ None \notin Nat

Table == INSTANCE FdTable WITH Desc <- End \cup {Tty}

VARIABLES
    tab,       \* the descriptor table of each process
    num,       \* the numbers in each posix_pipe of the parent
    pid,       \* the number in each posix_jprocess of the parent
    scope,     \* its objects, in the order of their construction
    pc,        \* the parent's call that may block, or "runs"
    at,        \* where each child is
    copy,      \* a child's copy of the numbers in the pipes, until it calls exec
    io,        \* the process_io that a child was given
    number,    \* the number of each child
    content,   \* how many characters each pipe holds
    chars,     \* how many have entered from outside
    owner,     \* history: the object that each child was forked by or moved to
    spent,     \* history: objects that were joined, detached or moved from, or
               \* whose child a wait for any child has reaped
    tidy       \* history: no child was forked with an end of another's pipe

parentVars == <<num, pid, scope, pc>>
childVars == <<at, copy, number, io>>
pipeVars == <<content, chars>>
history == <<owner, spent, tidy>>
vars == <<tab, parentVars, childVars, pipeVars, history>>

Holds(t, e) == \E f \in Fds : t[f] = e
Holders(e) == {q \in Proc : Holds(tab[q], e)}
Writers(p) == Holders([pipe |-> p, side |-> "w"])
Readers(p) == Holders([pipe |-> p, side |-> "r"])
Empty == [f \in Fds |-> Free]

NoIo == [s \in Slot |-> None]
NoNumbers == [p \in Pipe |-> [s \in {"r", "w"} |-> -1]]

Init ==
    /\ \E open \in Stdio :
        tab = [q \in Proc |-> [f \in Fds |->
                  IF q = Parent /\ f \in open THEN Tty ELSE Free]]
    /\ num = NoNumbers
    /\ pid = [o \in Obj |-> -1]
    /\ scope = <<>>
    /\ pc = <<"runs">>
    /\ at = [c \in Kid |-> "unborn"]
    /\ copy = [c \in Kid |-> NoNumbers]
    /\ number = [c \in Kid |-> 0]
    /\ content = [p \in Pipe |-> 0]
    /\ chars = 0
    /\ io = [c \in Kid |-> NoIo]
    /\ owner = [c \in Kid |-> None]
    /\ spent = {}
    /\ tidy = TRUE

\* The children that have not been waited for.
Alive == {c \in Kid : at[c] \notin {"unborn", "reaped"}}

Runs == pc = <<"runs">>
Built(x) == \E i \in DOMAIN scope : scope[i] = x

\* The next of X to be built.
IsNext(x, X) == ~Built(x) /\ \A y \in X : y < x => Built(y)
(***************************************************************************)
(* The parent and its pipes.                                               *)
(***************************************************************************)

\* basic_posix_pipe(): two descriptors, the reading end first.
MakePipe(p) ==
    /\ Runs /\ IsNext(p, Pipe)
    /\ \E a, b \in Fds :
        /\ Table!IsLowestFree(tab[Parent], a)
        /\ LET t == Table!Install(tab[Parent], a, [pipe |-> p, side |-> "r"])
           IN  /\ Table!IsLowestFree(t, b)
               /\ tab' = [tab EXCEPT ![Parent] =
                            Table!Install(t, b, [pipe |-> p, side |-> "w"])]
        /\ num' = [num EXCEPT ![p] = [r |-> a, w |-> b]]
    /\ scope' = Append(scope, p)
    /\ UNCHANGED <<pid, pc, childVars, pipeVars, history>>

\* close(-1) is not called.
MyClose(t, fd) == IF fd = -1 THEN t ELSE Table!CloseFd(t, fd)

\* The end is closed by a move assignment of its base class, basic_posix_io_handle,
\* from an empty handle.  (The close() of examples/0016.process is not a member of
\* the class, and assigning an empty posix_file is a dup2 of -1, which throws.)
CloseEnd(p, side) ==
    /\ Runs /\ num[p][side] # -1
    /\ tab' = [tab EXCEPT ![Parent] = MyClose(@, num[p][side])]
    /\ num' = [num EXCEPT ![p][side] = -1]
    /\ UNCHANGED <<pid, scope, pc, childVars, pipeVars, history>>

\* The parent writes one character; without a reader it gets EPIPE.
PutChar(p) ==
    /\ Runs /\ num[p].w # -1
    /\ chars < MaxChars /\ content[p] < Room /\ Readers(p) # {}
    /\ content' = [content EXCEPT ![p] = @ + 1]
    /\ chars' = chars + 1
    /\ UNCHANGED <<tab, parentVars, childVars, history>>

\* transmit(file, pipe): the parent reads until the end.
BeginRead(p) ==
    /\ Runs /\ num[p].r # -1
    /\ pc' = <<"reads", p>>
    /\ UNCHANGED <<tab, num, pid, scope, childVars, pipeVars, history>>

ReadOn(p) ==
    /\ pc = <<"reads", p>>
    /\ \/ /\ content[p] > 0
          /\ content' = [content EXCEPT ![p] = @ - 1]
          /\ UNCHANGED pc
       \/ /\ content[p] = 0 /\ Writers(p) = {}
          /\ pc' = <<"runs">>
          /\ UNCHANGED content
    /\ UNCHANGED <<tab, num, pid, scope, childVars, chars, history>>

(***************************************************************************)
(* posix_jprocess(path, args, io).                                         *)
(***************************************************************************)

\* dup2(from, to), then close(shut), in the table t of a child; a dup2 that
\* fails throws, after which no step is taken in that table.
Redirect(t, from, to, shut) ==
    IF t # Empty /\ from \in Fds /\ t[from] # Free
    THEN MyClose(Table!Dup2(t, from, to), shut)
    ELSE Empty

\* A bug: the child keeps the other end of the pipe.
RedirectionOpen(t, m, n, x) ==
    IF x = None THEN t
    ELSE Redirect(t, IF x \notin Pipe THEN x ELSE IF n = 0 THEN m[x].r ELSE m[x].w, n, -1)

\* A bug: number is taken for a truth value, and the ends change places.
RedirectionSwapped(t, m, n, x) ==
    IF x = None THEN t
    ELSE IF x \in Pipe
    THEN IF n # 0 THEN Redirect(t, m[x].r, n, m[x].w) ELSE Redirect(t, m[x].w, n, m[x].r)
    ELSE Redirect(t, x, n, -1)

\* redirect<n>: nothing, an end of a pipe, whose other end is closed, or a
\* descriptor.  m has the numbers of the pipes.
Redirection(t, m, n, x) ==
    IF x = None THEN t
    ELSE IF x \in Pipe
    THEN IF n = 0 THEN Redirect(t, m[x].r, n, m[x].w) ELSE Redirect(t, m[x].w, n, m[x].r)
    ELSE Redirect(t, x, n, -1)

\* The ends that the parent gives away: the reading end of the pipe of .in,
\* the writing ends of those of .out and .err.
GivenAway(i) ==
    {[pipe |-> p, side |-> "r"] : p \in Pipe \cap {i.in}} \cup
    {[pipe |-> p, side |-> "w"] : p \in Pipe \cap {i.out, i.err}}

\* A bug: the numbers stay.
AfterGivingKept(i) == num

\* redirect<number, true>: closes them, and their numbers become -1.
AfterGiving(i) ==
    [p \in Pipe |-> [s \in {"r", "w"} |->
        IF [pipe |-> p, side |-> s] \in GivenAway(i) THEN -1 ELSE num[p][s]]]
TabAfterGiving(i) ==
    [f \in Fds |->
        IF \E e \in GivenAway(i) : num[e.pipe][e.side] = f
        THEN Free ELSE tab[Parent][f]]

\* No end of a pipe that the child is not given.
ForksTidily(i) ==
    \A f \in Fds : tab[Parent][f] \in End =>
        tab[Parent][f].pipe \in {i.in, i.out, i.err}

Spawn(o, i) ==
    /\ Runs /\ IsNext(o, Obj)
    /\ \A s \in Slot : i[s] \in Pipe => Built(i[s])
    /\ \E c, n \in Kid :
        /\ at[c] = "unborn" /\ \A b \in Kid : b < c => at[b] # "unborn"
        /\ n = c \/ n \in {number[b] : b \in Kid}
        /\ \A b \in Alive : number[b] # n
        /\ at' = [at EXCEPT ![c] = "child"]
        /\ copy' = [copy EXCEPT ![c] = num]
        /\ number' = [number EXCEPT ![c] = n]
        /\ tab' = [tab EXCEPT ![c] = tab[Parent], ![Parent] = TabAfterGiving(i)]
        /\ pid' = [pid EXCEPT ![o] = n]
        /\ io' = [io EXCEPT ![c] = i]
        /\ owner' = [owner EXCEPT ![c] = o]
    /\ num' = AfterGiving(i)
    /\ scope' = Append(scope, o)
    /\ spent' = spent \ {o}
    /\ tidy' = (tidy /\ ForksTidily(i))
    /\ UNCHANGED <<pc, pipeVars>>
(***************************************************************************)
(* The children.                                                           *)
(***************************************************************************)

\* A bug: a child that throws lingers with all that it was forked with.
EndsLater(c) ==
    /\ at' = [at EXCEPT ![c] = "zombie"]
    /\ copy' = [copy EXCEPT ![c] = NoNumbers]
    /\ io' = [io EXCEPT ![c] = NoIo]
    /\ UNCHANGED tab

\* The process ends, by exit or by a signal: everything it held is closed.
Ends(c) ==
    /\ at' = [at EXCEPT ![c] = "zombie"]
    /\ tab' = [tab EXCEPT ![c] = Empty]
    /\ copy' = [copy EXCEPT ![c] = NoNumbers]
    /\ io' = [io EXCEPT ![c] = NoIo]

\* redirect<0>, redirect<1> and redirect<2>, in this order.
Redirected(t, m, i) ==
    Redirection(Redirection(Redirection(t, m, 0, i.in), m, 1, i.out), m, 2, i.err)

\* prepare_for_exec<true> and posix_exec: the new program, or an exception in
\* the child, which unwinds its copies of the parent's objects (their waits
\* fail at once with ECHILD) or terminates.
Exec(c) ==
    /\ at[c] = "child"
    /\ \/ LET t == Redirected(tab[c], copy[c], io[c]) IN
          /\ t # Empty
          /\ tab' = [tab EXCEPT ![c] = t]
          /\ at' = [at EXCEPT ![c] = "runs"]
          /\ copy' = [copy EXCEPT ![c] = NoNumbers]
          /\ UNCHANGED io
       \/ Ends(c)
    /\ UNCHANGED <<parentVars, number, pipeVars, owner, spent, tidy>>

\* The program reads its input, and ends when that does.
KidReads(c) ==
    /\ at[c] = "runs"
    /\ LET d == tab[c][0]
           Got == at' = [at EXCEPT ![c] = "holds"] /\ UNCHANGED <<tab, copy, io>>
       IN  \/ /\ d = Tty /\ chars < MaxChars
              /\ chars' = chars + 1 /\ Got
              /\ UNCHANGED content
           \/ /\ d \in End /\ d.side = "r" /\ content[d.pipe] > 0
              /\ content' = [content EXCEPT ![d.pipe] = @ - 1] /\ Got
              /\ UNCHANGED chars
           \/ /\ d \in End /\ d.side = "r"
              /\ content[d.pipe] = 0 /\ Writers(d.pipe) = {}
              /\ Ends(c) /\ UNCHANGED pipeVars
           \/ /\ ~(d \in End /\ d.side = "r")
              /\ Ends(c) /\ UNCHANGED pipeVars
    /\ UNCHANGED <<parentVars, number, owner, spent, tidy>>

\* It writes what it read; a pipe without a reader ends it (SIGPIPE).
KidWrites(c) ==
    /\ at[c] = "holds"
    /\ LET d == tab[c][1]
           Wrote == at' = [at EXCEPT ![c] = "runs"] /\ UNCHANGED <<tab, copy, io>>
       IN  \/ /\ d \in End /\ d.side = "w"
              /\ content[d.pipe] < Room /\ Readers(d.pipe) # {}
              /\ content' = [content EXCEPT ![d.pipe] = @ + 1] /\ Wrote
           \/ /\ d \in End /\ d.side = "w" /\ Readers(d.pipe) = {}
              /\ Ends(c) /\ UNCHANGED content
           \/ /\ ~(d \in End /\ d.side = "w")
              /\ Wrote /\ UNCHANGED content
    /\ UNCHANGED <<parentVars, number, chars, owner, spent, tidy>>

KidStep(c) == Exec(c) \/ KidReads(c) \/ KidWrites(c)
(***************************************************************************)
(* join, detach, moves and the destructors.                                *)
(***************************************************************************)

\* The children that waitpid(n) may reap: -1 stands for any.
Awaited(n) == {c \in Alive : n \in {-1, number[c]}}

\* waitpid(n) returns: it reaped a child that had ended, or there was none to
\* wait for (ECHILD).
Waits(n) ==
    \/ \E c \in Awaited(n) :
        /\ at[c] = "zombie"
        /\ at' = [at EXCEPT ![c] = "reaped"]
    \/ Awaited(n) = {} /\ UNCHANGED at

\* The objects whose child the step reaps.
Bereft == {o \in Obj : \E c \in Alive : owner[c] = o /\ at'[c] = "reaped"}

\* A call whose waitpid(n) does not return at once.
Blocks(call, n) ==
    /\ Runs
    /\ Awaited(n) # {} /\ \A c \in Awaited(n) : at[c] # "zombie"
    /\ pc' = call
    /\ UNCHANGED <<tab, num, pid, scope, childVars, pipeVars, history>>

\* join: what it waited for stays in pid.  With ECHILD it throws, which the
\* program catches around the call or around the scope.
JoinReturns(o) ==
    /\ Waits(pid[o])
    /\ pc' = <<"runs">>
    /\ spent' = spent \cup {o} \cup Bereft
    /\ UNCHANGED <<tab, num, pid, scope, copy, number, io, pipeVars, owner, tidy>>
Join(o) ==
    Runs /\ Built(o) /\ (JoinReturns(o) \/ Blocks(<<"joins", o, o>>, pid[o]))

Detach(o) ==
    /\ Runs /\ Built(o)
    /\ pid' = [pid EXCEPT ![o] = -1]
    /\ owner' = [c \in Kid |-> IF owner[c] = o THEN None ELSE owner[c]]
    /\ spent' = spent \cup {o}
    /\ UNCHANGED <<tab, num, scope, pc, childVars, pipeVars, tidy>>

\* A bug: the source keeps its number.
TakeCopy(o, r, bereft) ==
    /\ pid' = [pid EXCEPT ![o] = pid[r]]
    /\ owner' = [c \in Kid |-> IF owner[c] = r THEN o
                               ELSE IF owner[c] = o THEN None ELSE owner[c]]
    /\ UNCHANGED spent

\* o takes the child of r, and what it had before is over; the others in
\* bereft lose theirs.
Take(o, r, bereft) ==
    /\ pid' = [pid EXCEPT ![o] = pid[r], ![r] = -1]
    /\ owner' = [c \in Kid |-> IF owner[c] = r THEN o
                               ELSE IF owner[c] = o THEN None ELSE owner[c]]
    /\ spent' = (IF r \in spent THEN spent \cup {o} ELSE spent \ {o})
                 \cup {r} \cup (bereft \ {o})

MoveConstruct(o, r) ==
    /\ Runs /\ IsNext(o, Obj) /\ Built(r)
    /\ scope' = Append(scope, o)
    /\ Take(o, r, {})
    /\ UNCHANGED <<tab, num, pc, childVars, pipeVars, tidy>>

\* close_impl: only a number above zero is waited for.
CloseImpl(o) ==
    IF pid[o] > 0 THEN Waits(pid[o]) ELSE UNCHANGED at

\* operator=: nothing happens when both hold the same number.
AssignReturns(o, r) ==
    /\ CloseImpl(o)
    /\ Take(o, r, Bereft)
    /\ pc' = <<"runs">>
    /\ UNCHANGED <<tab, num, scope, copy, number, io, pipeVars, tidy>>
MoveAssign(o, r) ==
    /\ Runs /\ Built(o) /\ Built(r) /\ pid[o] # pid[r]
    /\ \/ AssignReturns(o, r)
       \/ pid[o] > 0 /\ Blocks(<<"assigns", o, r>>, pid[o])

\* The scope ends, with a return or an exception, and its objects are
\* destroyed, the last one built first.
EndScope ==
    /\ Runs
    /\ pc' = <<"unwinds">>
    /\ UNCHANGED <<tab, num, pid, scope, childVars, pipeVars, history>>

Unwinds(x) == pc = <<"unwinds">> /\ scope # <<>> /\ Last(scope) = x

\* ~posix_jprocess: a wait that fails is ignored.
Destroy(o) ==
    /\ Unwinds(o)
    /\ CloseImpl(o)
    /\ pid' = [pid EXCEPT ![o] = -1]
    /\ owner' = [c \in Kid |-> IF owner[c] = o THEN None ELSE owner[c]]
    /\ scope' = Front(scope)
    /\ spent' = spent \cup Bereft
    /\ UNCHANGED <<tab, num, pc, copy, number, io, pipeVars, tidy>>

\* The two posix_file of a basic_posix_pipe.
DestroyPipe(p) ==
    /\ Unwinds(p)
    /\ tab' = [tab EXCEPT ![Parent] = MyClose(MyClose(@, num[p].w), num[p].r)]
    /\ num' = [num EXCEPT ![p] = [r |-> -1, w |-> -1]]
    /\ scope' = Front(scope)
    /\ UNCHANGED <<pid, pc, childVars, pipeVars, history>>

ParentGoesOn ==
    \/ \E p \in Pipe : ReadOn(p) \/ DestroyPipe(p)
    \/ \E o \in Obj : (pc = <<"joins", o, o>> /\ JoinReturns(o)) \/ Destroy(o)
    \/ \E o, r \in Obj : pc = <<"assigns", o, r>> /\ AssignReturns(o, r)

Next ==
    \/ \E p \in Pipe :
        \/ MakePipe(p) \/ PutChar(p) \/ BeginRead(p)
        \/ \E side \in {"r", "w"} : CloseEnd(p, side)
    \/ \E o \in Obj :
        \/ \E i \in Ios : Spawn(o, i)
        \/ Join(o) \/ Detach(o)
        \/ \E r \in Obj \ {o} : MoveConstruct(o, r) \/ MoveAssign(o, r)
    \/ EndScope
    \/ ParentGoesOn
    \/ \E c \in Kid : KidStep(c)

\* The kernel runs every process that can run, the parent in a call and in its
\* destructors among them; that the program makes another call is not assumed.
Spec == Init /\ [][Next]_vars /\ WF_vars(ParentGoesOn) /\ \A c \in Kid : WF_vars(KidStep(c))
-------------------------------------------------------------------------------

\* Every variable keeps its type, a child that ended holds no descriptor, and
\* each object in scope was built once.
TypeOK ==
    /\ tab \in [Proc -> [Fds -> End \cup {Tty, Free}]]
    /\ num \in [Pipe -> [{"r", "w"} -> Fds \cup {-1}]]
    /\ pid \in [Obj -> Kid \cup {-1}]
    /\ at \in [Kid -> {"unborn", "child", "runs", "holds", "zombie", "reaped"}]
    /\ number \in [Kid -> Kid \cup {0}]
    /\ content \in [Pipe -> 0 .. Room] /\ chars \in 0 .. MaxChars
    /\ owner \in [Kid -> Obj \cup {None}]
    /\ \A c \in Kid : at[c] \notin {"child", "runs", "holds"} => tab[c] = Empty
    /\ IsInjective(scope)

\* The numbers in the parent's pipes are those of the ends it holds, and an
\* end it holds has its number in the pipe: redirect<number, true> leaves no
\* number behind that a later close, or a later child, would take for another
\* descriptor, and no end that only exit closes.
NumbersAreCurrent ==
    \A e \in End, f \in Fds :
        tab[Parent][f] = e <=> num[e.pipe][e.side] = f

\* In a program that started with its three streams open, a child that got to
\* its program has the streams it was given: the ends of the pipes, a
\* descriptor as the redirections before it left it, and never both ends of
\* a pipe, of which it would not see the end.
RedirectionHolds ==
    \A c \in Kid :
        at[c] \in {"runs", "holds"} /\ (\A f \in {0, 1, 2} : tab[Parent][f] = Tty)
        => LET At(n, s, side) ==
                   io[c][s] \in Pipe =>
                      /\ tab[c][n] = [pipe |-> io[c][s], side |-> side]
                      /\ \A f \in Fds : tab[c][f] \in End =>
                            tab[c][f].pipe # io[c][s] \/ tab[c][f].side = side
           IN  /\ At(0, "in", "r") /\ At(1, "out", "w") /\ At(2, "err", "w")
               /\ io[c].err = 1 => tab[c][2] = tab[c][1]

\* A child that has not been waited for is waited for by the object that
\* forked it or that it was moved to, and by no other, except for objects
\* whose number no longer stands for a child of theirs: after a join, a detach
\* or a move, or when the join of an object without a child reaped theirs, they
\* may meet the number again in another child.
OneWaiter ==
    \A c \in Alive :
        /\ owner[c] # None => Built(owner[c]) /\ pid[owner[c]] = number[c]
        /\ \A o \in Obj : Built(o) /\ pid[o] = number[c] => o \in spent \cup {owner[c]}

\* The parent holds no end of a pipe that a child may be waiting for, except
\* for the one it reads.
HandsFree ==
    \A f \in Fds : tab[Parent][f] \in End =>
        /\ tab[Parent][f].side = "r"
        /\ pc = <<"reads", tab[Parent][f].pipe>> \/ Writers(tab[Parent][f].pipe) = {}

\* When every child was forked with no other pipe than those it was given, and
\* the parent has given away or closed the rest, then a read of a pipe to its
\* end, a join, and the waits of operator= and of the destructors come to
\* their end, whether the children get to their programs or throw.
CallsEnd == (~Runs /\ tidy /\ HandsFree) ~> (Runs \/ scope = <<>>)

\* Descriptors are where the parent and its children look for them: its numbers are
\* those of the ends it holds, and their streams are those they were given.
DescriptorsAreCurrent == TypeOK /\ NumbersAreCurrent /\ RedirectionHolds
===============================================================================
