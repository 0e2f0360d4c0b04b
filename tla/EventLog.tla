------------------------------ MODULE EventLog ------------------------------
(***************************************************************************)
(* What the engine promises of its output, without saying how: records are *)
(* stored one after another, and the output is a run of consecutive ids    *)
(* that only ever grows at its end, up to the last record stored.  An      *)
(* operator may ask for a new output file.                                 *)
(***************************************************************************)
EXTENDS Naturals, Sequences

VARIABLES
  stored, \* how many records are stored
  lines   \* the ids on the output's lines

Init == stored = 0 /\ lines = << >>

\* The next ids in a row are emitted.
Emitted(s) ==
  /\ \A i \in 1 .. Len(s) - 1 : s[i + 1] = s[i] + 1
  /\ lines # << >> /\ s # << >> => s[1] = lines[Len(lines)] + 1
  /\ s # << >> => s[Len(s)] < stored
  /\ lines' = lines \o s

NewOutput == lines' = << >> /\ stored' = stored

Next ==
  \/ NewOutput
  \/ /\ stored' \in Nat /\ stored' >= stored
     /\ Len(lines') >= Len(lines)
     /\ Emitted(SubSeq(lines', Len(lines) + 1, Len(lines')))

Spec == Init /\ [][Next]_<<stored, lines>>
=============================================================================
