------------------------------- MODULE MCConsole -------------------------------
(* Arguments that fit, that do not fit, that need a reserve, and a parallel one of four pieces. *)
EXTENDS Console, SequencesExt
Arg(how, lens, size) == [how |-> how, lens |-> lens, size |-> size]
MCArgs == {Arg("text", <<2>>, 0), Arg("text", <<4>>, 0),
           Arg("chars", <<1>>, 0), Arg("reserve", <<1>>, 2),
           Arg("parallel", <<1, 2, 1, 2>>, 0)}
Sum(lens) == FoldLeft(LAMBDA a, b : a + b, 0, lens)
Placed(args, i) ==
    LET start == Sum([j \in 1 .. i - 1 |-> Sum(args[j].lens)])
    IN  [how |-> args[i].how, size |-> args[i].size,
         cuts |-> [j \in 1 .. Len(args[i].lens) + 1 |-> start + Sum(SubSeq(args[i].lens, 1, j - 1))]]
MCCalls == {[i \in 1 .. Len(args) |-> Placed(args, i)] : args \in UNION {[1 .. n -> MCArgs] : n \in 1 .. 2}}
===============================================================================
