------------------------------ MODULE Pattern ------------------------------
(***************************************************************************)
(* The pattern strategy (ulpf-parse/src/pattern.rs, the slot types of      *)
(* template.rs) on lines of tokens: a template is compiled to one regular  *)
(* expression anchored at the start of the line, whose engine prefers as a *)
(* backtracking one does.  A slot takes whole tokens.                      *)
(***************************************************************************)
EXTENDS Integers, Sequences

\* emit_tokens tells a slot whether it ends the whole pattern; what is inside
\* an optional group is never told so.
Emitted(template) ==
    [k \in DOMAIN template |->
       IF template[k].t # "slot" THEN template[k]
       ELSE [t |-> "slot", kind |-> template[k].kind, col |-> template[k].col,
             last |-> k = Len(template)]]

Inner(piece) ==
    [k \in DOMAIN piece.inner |->
       IF piece.inner[k].t # "slot" THEN piece.inner[k]
       ELSE [t |-> "slot", kind |-> piece.inner[k].kind,
             col |-> piece.inner[k].col, last |-> FALSE]]

One(kinds, toks, p) ==
    IF p <= Len(toks) /\ toks[p].kind \in kinds THEN <<p + 1>> ELSE <<>>

\* The end of the run of tokens other than spaces that begins at p.
RECURSIVE WordEnd(_, _)
WordEnd(toks, p) ==
    IF p <= Len(toks) /\ toks[p].kind # "space" THEN WordEnd(toks, p + 1)
    ELSE p

Upto(a, b)   == [k \in 1..(b - a + 1) |-> a + k - 1]
Downto(b, a) == [k \in 1..(b - a + 1) |-> b - k + 1]

\* Where a slot that begins at p may end (one past), the preferred end first.
Ends(piece, toks, p) ==
    LET n == Len(toks)
    IN CASE piece.kind = "word" -> Downto(WordEnd(toks, p), p + 1)
         [] piece.kind = "rest" -> Downto(n + 1, p)
         [] piece.kind = "text" -> IF piece.last THEN Downto(n + 1, p + 1)
                                   ELSE Upto(p + 1, n + 1)
         [] piece.kind = "ip" -> One({"ipv4", "ipv6"}, toks, p)
         [] piece.kind = "float" -> One({"int", "float"}, toks, p)
         [] OTHER -> One({piece.kind}, toks, p)

Failed == [ok |-> FALSE, caps |-> <<>>]

\* The first match in the engine's order of preference: the captures are
\* <<column, from, past>>.
RECURSIVE TryPieces(_, _, _, _), TryEnds(_, _, _, _, _)
TryPieces(pieces, toks, p, caps) ==
    IF pieces = <<>> THEN [ok |-> TRUE, caps |-> caps]
    ELSE LET x == Head(pieces)  rest == Tail(pieces)
         IN CASE x.t = "const" ->
                   IF p <= Len(toks) /\ toks[p] = x.tok
                     THEN TryPieces(rest, toks, p + 1, caps) ELSE Failed
              [] x.t = "opt" ->
                   LET with == TryPieces(Inner(x) \o rest, toks, p, caps)
                   IN IF with.ok THEN with
                      ELSE TryPieces(rest, toks, p, caps)
              [] OTHER -> TryEnds(pieces, Ends(x, toks, p), toks, p, caps)

TryEnds(pieces, ends, toks, p, caps) ==
    IF ends = <<>> THEN Failed
    ELSE LET e == Head(ends)
             r == TryPieces(Tail(pieces), toks, e,
                            IF e > p THEN Append(caps,
                                                 <<Head(pieces).col, p, e>>)
                            ELSE caps)
         IN IF r.ok THEN r ELSE TryEnds(pieces, Tail(ends), toks, p, caps)

\* CompiledPattern::apply.
Apply(template, toks) == TryPieces(Emitted(template), toks, 1, <<>>)

\* The first pattern of a list that matches, 0 for none.
FirstMatch(templates, toks) ==
    LET hits == {k \in DOMAIN templates : Apply(templates[k], toks).ok}
    IN IF hits = {} THEN 0 ELSE CHOOSE k \in hits : \A h \in hits : k <= h
=============================================================================
