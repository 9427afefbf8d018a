------------------------------- MODULE MCProcess -------------------------------
(***************************************************************************)
(* Process for TLC: two pipes, two objects and two children that may get   *)
(* the same number, so that a pipeline of two programs, a reader started   *)
(* before or after its writer, and a stray wait all occur.                 *)
(***************************************************************************)
EXTENDS Process

p == 11
q == 12

Io(in, out, err) == [in |-> in, out |-> out, err |-> err]

\* Those of examples/0016.process, whose pipeline hands the pipe of one
\* program to the next; the second program's errors go where its output goes.
MCIos == {Io(None, p, p), Io(p, q, 1)}
MCStdio == {{0, 1, 2}}
===============================================================================
