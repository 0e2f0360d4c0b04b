------------------------------ MODULE MCEngine ------------------------------
(* Engine for TLC.                                                         *)
EXTENDS Engine

CONSTANTS f1, f2, w1, w2

\* One file of two events; two files, of three events and one.
ShortFile == [f \in {f1} |-> 2]

TwoFiles == [f \in {f1, f2} |-> IF f = f1 THEN 3 ELSE 1]

NoFile == [f \in {} |-> 0]
=============================================================================
