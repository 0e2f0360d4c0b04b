------------------------------ MODULE MCSinks -------------------------------
(* Sinks for TLC.                                                          *)
EXTENDS Sinks

E(k, v) == [kind |-> k, value |-> v]

\* Two events of one device time, and one whose clock runs behind.
Times == [id \in 0 .. 3 |-> <<3, 1, 3, 2>>[id + 1]]

Values == [id \in 0 .. 3 |->
             <<{E("ip", "a")}, {}, {E("ip", "a")},
               {E("ip", "a"), E("user", "v")}>>[id + 1]]

\* Longer lines in the second life, and one much longer than the rest.
Lengths == [l \in 1 .. 3 |->
              [id \in 0 .. 3 |-> IF id = 1 THEN 5 ELSE 1 + (l % 2)]]
=============================================================================
