------------------------------- MODULE FdTable -------------------------------
(***************************************************************************)
(* The kernel's file descriptor table, as the system calls in             *)
(* platforms/posix.h use it: a descriptor is free or names an open file    *)
(* description, which several descriptors may share.                       *)
(***************************************************************************)
EXTENDS Integers

CONSTANTS
    Fds,       \* the descriptors a process may have (RLIMIT_NOFILE of them)
    Desc,      \* open file descriptions
    Free       \* the entry of a free descriptor

ASSUME FdsAssumption == Fds \subseteq Nat
ASSUME FreeAssumption == Free \notin Desc

\* open, dup and pipe return the lowest descriptor that is free.
IsLowestFree(t, fd) ==
    /\ t[fd] = Free
    /\ \A g \in Fds : t[g] = Free => fd <= g

\* open made a description that no descriptor named before.
IsFresh(t, d) == \A fd \in Fds : t[fd] # d

Install(t, fd, d) == [t EXCEPT ![fd] = d]

\* dup2(from, to): to names what from names; what it named before is released.
Dup2(t, from, to) == [t EXCEPT ![to] = t[from]]

\* close(fd) of a free descriptor fails with EBADF and changes nothing.
CloseFd(t, fd) == [t EXCEPT ![fd] = Free]
===============================================================================
