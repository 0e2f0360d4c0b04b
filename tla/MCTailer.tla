------------------------------ MODULE MCTailer ------------------------------
(* Tailer for TLC.                                                         *)
EXTENDS Tailer

\* A line with a continuation, a line, and an unfinished one.
Long == <<"a", "\n", " ", "b", "\n", "c", "\n", "a">>

\* A shorter text to begin again with.
Short == <<"d", "\n">>

OneFile == [f \in {"f1"} |-> <<Long, Short>>]

OneName == [f \in {"f1"} |-> f]
=============================================================================
