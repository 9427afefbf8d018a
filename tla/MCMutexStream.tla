----------------------------- MODULE MCMutexStream -----------------------------
(***************************************************************************)
(* MutexStream for TLC: three threads and three streams, of which a and b  *)
(* have a block.  The transmits between a and b take the mutexes in        *)
(* opposite orders, the one of c reads an array, and the one from c to c   *)
(* would lock a mutex twice.                                               *)
(***************************************************************************)
EXTENDS MutexStream

CONSTANTS a, b, c, t1, t2, t3

MCLength == [s \in Stream |-> CASE s = a -> 1 [] s = b -> 2 [] s = c -> 1]

MCCalls ==
    {[op |-> "print", out |-> a, n |-> 2],
     [op |-> "scan", in |-> b, n |-> 2],
     [op |-> "transmit", out |-> a, in |-> b],
     [op |-> "transmit", out |-> b, in |-> a],
     [op |-> "transmit", out |-> a, in |-> c],
     [op |-> "transmit", out |-> c, in |-> c]}
===============================================================================
