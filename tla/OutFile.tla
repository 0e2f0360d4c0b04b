------------------------------ MODULE OutFile -------------------------------
(***************************************************************************)
(* Reads of the JSON Lines output (crates/ulpf/src/outfile.rs): the line   *)
(* of a raw id by binary search over byte offsets.  A file is the sequence *)
(* of its whole lines, each with its id and its length in bytes; what      *)
(* follows the last terminator is invisible, so it is left out.            *)
(***************************************************************************)
EXTENDS Integers, Sequences, SequencesExt, FiniteSetsExt

\* The offset line i begins at.
StartOfLine(lines, i) ==
  FoldLeft(LAMBDA n, l : n + l.len, 0, SubSeq(lines, 1, i - 1))

\* Output::len.
Size(lines) == StartOfLine(lines, Len(lines) + 1)

Starts(lines) == {StartOfLine(lines, i) : i \in 1 .. Len(lines) + 1}

NoLineAt == [id |-> -1, len |-> 0]

\* line_at, for an offset a line begins at.
LineAt(lines, at) ==
  IF at >= Size(lines) THEN NoLineAt
  ELSE lines[CHOOSE i \in DOMAIN lines : StartOfLine(lines, i) = at]

\* next_start: the first line start at or after an offset.
NextStart(lines, at) == Min({s \in Starts(lines) : s >= at})

\* The walk over a range no line begins in the upper half of.
SpanningLine(lines, id, lo, hi) ==
  LET w[at \in 0 .. Size(lines)] ==
        IF at >= hi THEN hi
        ELSE IF LineAt(lines, at).id >= id THEN at
        ELSE w[at + LineAt(lines, at).len]
  IN  w[lo]

\* lower_bound: the offset of the first line whose id is at least id.
LowerBound(lines, id) ==
  LET n == Size(lines)
      b[r \in (0 .. n) \X (0 .. n)] ==
        LET lo == r[1]  hi == r[2]
            s == NextStart(lines, lo + (hi - lo) \div 2)
        IN  IF lo >= hi THEN lo
            ELSE IF s >= hi THEN SpanningLine(lines, id, lo, hi)
            ELSE IF LineAt(lines, s).id >= id THEN b[<<lo, s>>]
            ELSE b[<<s + LineAt(lines, s).len, hi>>]
  IN  b[<<0, n>>]

\* Output::find.
Find(lines, id) ==
  LET l == LineAt(lines, LowerBound(lines, id))
  IN  IF l.id = id THEN l ELSE NoLineAt
=============================================================================
