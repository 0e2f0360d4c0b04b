------------------------------- MODULE Framer -------------------------------
(***************************************************************************)
(* Lossless event framing (crates/ulpf-store/src/frame.rs): an event is a  *)
(* line and every following line that begins with a space, a tab or a line *)
(* break.  While more bytes may arrive, an event whose end the next byte   *)
(* decides is withheld.  A buffer is a sequence of bytes; positions count  *)
(* from 1, and 0 stands for an end that is not decided yet.                *)
(***************************************************************************)
EXTENDS Integers, Sequences, SequencesExt

IsContinuation(byte) == byte \in {" ", "\t", "\r", "\n"}

\* The last byte of the line that starts at from.
LineEnd(b, from, eof) ==
  LET ends == {i \in from .. Len(b) : b[i] = "\n"} IN
  IF ends # {} THEN Min(ends) ELSE IF eof THEN Len(b) ELSE 0

\* Mutant: at the end of the buffer an event is complete.
EventEndEager(b, start, eof) ==
  LET Lines[e \in 0 .. Len(b)] ==
        IF e = 0 \/ e = Len(b) \/ ~IsContinuation(b[e + 1]) THEN e
        ELSE Lines[LineEnd(b, e + 1, eof)]
  IN  Lines[LineEnd(b, start, eof)]

\* Framer::next, the loop over the lines of one event.
EventEnd(b, start, eof) ==
  LET Lines[e \in 0 .. Len(b)] ==
        IF e = 0 THEN 0
        ELSE IF e = Len(b) THEN IF eof THEN e ELSE 0
        ELSE IF ~IsContinuation(b[e + 1]) THEN e
        ELSE Lines[LineEnd(b, e + 1, eof)]
  IN  Lines[LineEnd(b, start, eof)]

\* The events an exhausted framer has yielded.
Frames(b, eof) ==
  LET From[p \in 1 .. Len(b) + 1] ==
        LET e == IF p > Len(b) THEN 0 ELSE EventEnd(b, p, eof) IN
        IF e = 0 THEN << >> ELSE <<SubSeq(b, p, e)>> \o From[e + 1]
  IN  From[1]

\* How far it got.
Framed(b, eof) == Len(FlattenSeq(Frames(b, eof)))
=============================================================================
