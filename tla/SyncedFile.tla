------------------------------ MODULE SyncedFile ------------------------------
(***************************************************************************)
(* basic_sync and basic_fsync (fast_io_core_impl/sync.h): streams that     *)
(* collect what is written to them in a string and give it to the device,  *)
(* a log opened for appending, in one write at each flush.  A basic_fsync  *)
(* flushes when it is destroyed or assigned to, unless need_sync is off.   *)
(*                                                                         *)
(* The streams share one log.  Moving one copies its descriptor (posix.h   *)
(* has no move for a file), so a stream that was moved from still has the  *)
(* log.  A character is the number of its writing.                         *)
(***************************************************************************)
EXTENDS Naturals, SequencesExt

CONSTANTS
    Syncs,          \* places for basic_fsync objects
    MaxLogged,      \* bound on the characters written
    MaxDrops        \* bound on the calls the device spoils

ASSUME DropsAssumption == MaxDrops \in Nat

VARIABLES
    sync,      \* the stream at each place: mostr, need_sync and "live" or not
    log,       \* the text of the log
    logged,    \* history: how many characters were written to the streams
    gone,      \* history: what a short write or a destructor's exception lost
    stale,     \* history: streams that were moved from, or made of one that was
    late,      \* history: what was written to them since
    drops      \* bound: how many calls the device spoiled

sVars == <<sync, log, logged, gone, stale, late, drops>>

NoSync == [live |-> FALSE, mostr |-> <<>>, need |-> FALSE]

SyncedInit ==
    /\ sync = [s \in Syncs |-> NoSync]
    /\ log = <<>>
    /\ logged = 0
    /\ gone = {} /\ stale = {} /\ late = {}
    /\ drops = 0

-------------------------------------------------------------------------------

Construct(s) ==
    /\ ~sync[s].live
    /\ sync' = [sync EXCEPT ![s] = [live |-> TRUE, mostr |-> <<>>, need |-> TRUE]]
    /\ UNCHANGED <<log, logged, gone, stale, late, drops>>

\* write, put and fill_nc go to the string.
WriteLog(s, n) ==
    /\ sync[s].live
    /\ LET t == [i \in 1..n |-> logged + i] IN
       /\ sync' = [sync EXCEPT ![s].mostr = @ \o t]
       /\ late' = late \cup (IF s \in stale THEN ToSet(t) ELSE {})
    /\ logged' = logged + n
    /\ UNCHANGED <<log, gone, stale, drops>>

\* The device takes the text, or its beginning, whose length is ignored.
Sends(text) ==
    \/ log' = log \o text /\ UNCHANGED <<gone, drops>>
    \/ /\ drops < MaxDrops
       /\ drops' = drops + 1
       /\ \E n \in 1..Len(text) - 1 :
            /\ log' = log \o SubSeq(text, 1, n)
            /\ gone' = gone \cup ToSet(SubSeq(text, n + 1, Len(text)))

\* A bug: the string is not cleared.
FlushKeeping(s) ==
    /\ sync[s].live
    /\ \/ Sends(sync[s].mostr) /\ UNCHANGED sync
       \/ /\ drops < MaxDrops /\ drops' = drops + 1
          /\ UNCHANGED <<sync, log, gone>>
    /\ UNCHANGED <<logged, stale, late>>

\* flush: write, then clear, which a throwing write does not reach.  seek
\* does the same before it moves the offset, which appending ignores.
FlushLog(s) ==
    /\ sync[s].live
    /\ \/ /\ Sends(sync[s].mostr)
          /\ sync' = [sync EXCEPT ![s].mostr = <<>>]
       \/ /\ drops < MaxDrops /\ drops' = drops + 1
          /\ UNCHANGED <<sync, log, gone>>
    /\ UNCHANGED <<logged, stale, late>>

\* sync(), before the string goes away: what throws is swallowed.
SyncsAndDrops(s) ==
    \/ sync[s].need /\ Sends(sync[s].mostr)
    \/ /\ sync[s].need
       /\ drops < MaxDrops /\ drops' = drops + 1
       /\ gone' = gone \cup ToSet(sync[s].mostr)
       /\ UNCHANGED log
    \/ ~sync[s].need /\ UNCHANGED <<log, gone, drops>>

\* basic_fsync(basic_fsync&&)
MoveConstruct(s, t) ==
    /\ ~sync[s].live /\ sync[t].live
    /\ sync' = [sync EXCEPT ![s] = sync[t],
                            ![t].mostr = <<>>, ![t].need = FALSE]
    /\ stale' = (IF t \in stale THEN stale \cup {s} ELSE stale) \cup {t}
    /\ UNCHANGED <<log, logged, gone, late, drops>>

\* A bug: what the target holds is not written first.
AssignUnsynced(s, t) ==
    /\ s # t /\ sync[s].live /\ sync[t].live
    /\ sync' = [sync EXCEPT ![s].mostr = sync[t].mostr,
                            ![t].mostr = <<>>, ![t].need = FALSE]
    /\ stale' = stale \cup {t}
    /\ UNCHANGED <<log, logged, gone, late, drops>>

\* operator=(basic_fsync&&): the target keeps its own need_sync.
MoveAssign(s, t) ==
    /\ s # t /\ sync[s].live /\ sync[t].live
    /\ SyncsAndDrops(s)
    /\ sync' = [sync EXCEPT ![s].mostr = sync[t].mostr,
                            ![t].mostr = <<>>, ![t].need = FALSE]
    /\ stale' = stale \cup {t}
    /\ late' = late \cup (IF s \in stale THEN ToSet(sync[t].mostr) ELSE {})
    /\ UNCHANGED logged

\* ~basic_fsync()
Destroy(s) ==
    /\ sync[s].live
    /\ SyncsAndDrops(s)
    /\ sync' = [sync EXCEPT ![s] = NoSync]
    /\ stale' = stale \ {s}
    /\ UNCHANGED <<logged, late>>

SyncedNext ==
    \/ \E s \in Syncs :
        \/ Construct(s)
        \/ logged < MaxLogged /\ \E n \in 1..2 : logged + n <= MaxLogged /\ WriteLog(s, n)
        \/ FlushLog(s)
        \/ Destroy(s)
    \/ \E s, t \in Syncs : MoveConstruct(s, t) \/ MoveAssign(s, t)
===============================================================================
