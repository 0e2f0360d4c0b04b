------------------------------- MODULE Align -------------------------------
(***************************************************************************)
(* Sequence alignment of the inference crate (ulpf-infer/src/align.rs).    *)
(* Positions count from 1, so the suffix that begins at n + 1 is empty.    *)
(* The tables are filled from their last cell to their first, as the code  *)
(* fills them, and a score is only ever compared, never bounded by the     *)
(* width of an i32.  The code passes the comparisons as closures over two  *)
(* positions; here they are functions of the pair of positions.            *)
(***************************************************************************)
EXTENDS Integers, Sequences

GapOpen == 2
SubCost == 1
Neg == -1000

Larger(a, b) == IF a >= b THEN a ELSE b

\* The number of pairs of the longest common subsequence of the suffixes that
\* begin at i and j; nothing but the number is used.
RECURSIVE LcsFrom(_, _, _, _, _)
LcsFrom(n, m, eq, i, j) ==
    IF i > n \/ j > m THEN 0
    ELSE IF eq[i, j] THEN 1 + LcsFrom(n, m, eq, i + 1, j + 1)
    ELSE Larger(LcsFrom(n, m, eq, i + 1, j), LcsFrom(n, m, eq, i, j + 1))

Lcs(n, m, eq) == LcsFrom(n, m, eq, 1, 1)

(***************************************************************************)
(* align.  A cell holds the best score of the two remaining suffixes when  *)
(* the first step is a match, a substitution, a deletion or an insertion.  *)
(***************************************************************************)
Best(c) == Larger(Larger(c.mat, c.sub), Larger(c.del, c.ins))

Border(n, m) ==
    [c \in (1..n + 1) \X (1..m + 1) |->
       [mat |-> IF c = <<n + 1, m + 1>> THEN 0 ELSE Neg,
        sub |-> Neg,
        del |-> IF c[2] = m + 1 /\ c[1] <= n THEN -GapOpen ELSE Neg,
        ins |-> IF c[1] = n + 1 /\ c[2] <= m THEN -GapOpen ELSE Neg]]

\* A mutant: going on with a gap is charged like opening one.
OpenedAlways(a, b, c, same) ==
    Larger(a, Larger(b, Larger(c, same))) - GapOpen

\* Going on with the same gap is free; coming to it from elsewhere opens it.
Opened(a, b, c, same) == Larger(Larger(a, Larger(b, c)) - GapOpen, same)

Cell(tab, i, j, w, subst) ==
    LET diag  == Best(tab[<<i + 1, j + 1>>])
        down  == tab[<<i + 1, j>>]
        right == tab[<<i, j + 1>>]
    IN [mat |-> IF w > 0 THEN diag + w ELSE Neg,
        sub |-> IF w = 0 /\ subst THEN diag - SubCost ELSE Neg,
        del |-> Opened(down.mat, down.sub, down.ins, down.del),
        ins |-> Opened(right.mat, right.sub, right.del, right.ins)]

RECURSIVE Filled(_, _, _, _, _, _, _)
Filled(tab, n, m, weight, subst, i, j) ==
    IF i = 0 THEN tab
    ELSE IF j = 0 THEN Filled(tab, n, m, weight, subst, i - 1, m)
    ELSE Filled([tab EXCEPT ![<<i, j>>] =
                   Cell(tab, i, j, weight[i, j], subst[i, j])],
                n, m, weight, subst, i, j - 1)

Table(n, m, weight, subst) == Filled(Border(n, m), n, m, weight, subst, n, m)

\* Ties prefer a match, then a substitution, then a deletion.
Pick(c) ==
    IF c.mat = Best(c) THEN "mat"
    ELSE IF c.sub = Best(c) THEN "sub"
    ELSE IF c.del = Best(c) THEN "del" ELSE "ins"

Reaching(c, v) ==
    IF c.mat = v THEN "mat" ELSE IF c.sub = v THEN "sub"
    ELSE IF c.del = v THEN "del" ELSE "ins"

AfterDel(c, v) ==
    IF c.del = v THEN "del" ELSE IF c.mat - GapOpen = v THEN "mat"
    ELSE IF c.sub - GapOpen = v THEN "sub" ELSE "ins"

AfterIns(c, v) ==
    IF c.ins = v THEN "ins" ELSE IF c.mat - GapOpen = v THEN "mat"
    ELSE IF c.sub - GapOpen = v THEN "sub" ELSE "del"

\* The traceback from (i, j); at either border the other gap is all that is
\* left, whatever the scores say.
RECURSIVE Trace(_, _, _, _, _, _, _)
Trace(tab, n, m, weight, i, j, state) ==
    LET c == tab[<<i, j>>]
        go == IF i = n + 1 THEN "ins" ELSE IF j = m + 1 THEN "del" ELSE state
    IN IF i = n + 1 /\ j = m + 1 THEN <<>>
       ELSE CASE go = "mat" ->
                   <<<<i, j>>>> \o
                   Trace(tab, n, m, weight, i + 1, j + 1,
                         Reaching(tab[<<i + 1, j + 1>>],
                                  c.mat - weight[i, j]))
              [] go = "sub" ->
                   Trace(tab, n, m, weight, i + 1, j + 1,
                         Reaching(tab[<<i + 1, j + 1>>], c.sub + SubCost))
              [] go = "del" ->
                   Trace(tab, n, m, weight, i + 1, j,
                         AfterDel(tab[<<i + 1, j>>], c.del))
              [] OTHER ->
                   Trace(tab, n, m, weight, i, j + 1,
                         AfterIns(tab[<<i, j + 1>>], c.ins))

\* The matched pairs of the best alignment, in order.
AlignPairs(n, m, weight, subst) ==
    LET tab == Table(n, m, weight, subst)
    IN Trace(tab, n, m, weight, 1, 1, Pick(tab[<<1, 1>>]))

(***************************************************************************)
(* What the tables are for, without tables: every way to walk the two      *)
(* sequences to their ends, and what each costs.                           *)
(***************************************************************************)
RECURSIVE Walks(_, _, _, _, _, _)
Walks(n, m, weight, subst, i, j) ==
    LET then(step, di, dj) ==
          {<<<<step, i, j>>>> \o s :
             s \in Walks(n, m, weight, subst, i + di, j + dj)}
        both == i <= n /\ j <= m
    IN IF i > n /\ j > m THEN {<<>>}
       ELSE UNION
         {IF both /\ weight[i, j] > 0 THEN then("mat", 1, 1) ELSE {},
          IF both /\ weight[i, j] = 0 /\ subst[i, j]
            THEN then("sub", 1, 1) ELSE {},
          IF i <= n THEN then("del", 1, 0) ELSE {},
          IF j <= m THEN then("ins", 0, 1) ELSE {}}

RECURSIVE WalkScore(_, _, _)
WalkScore(s, weight, k) ==
    IF k > Len(s) THEN 0
    ELSE WalkScore(s, weight, k + 1) +
         CASE s[k][1] = "mat" -> weight[s[k][2], s[k][3]]
           [] s[k][1] = "sub" -> -SubCost
           [] OTHER -> IF k > 1 /\ s[k - 1][1] = s[k][1]
                         THEN 0 ELSE -GapOpen

WalkPairs(s) ==
    LET ms == SelectSeq(s, LAMBDA x : x[1] = "mat")
    IN [k \in DOMAIN ms |-> <<ms[k][2], ms[k][3]>>]

\* The pairs belong to a walk no walk beats.
IsBestAlignment(pairs, n, m, weight, subst) ==
    LET walks == Walks(n, m, weight, subst, 1, 1)
        top == CHOOSE v \in {WalkScore(t, weight, 1) : t \in walks} :
                 \A t \in walks : WalkScore(t, weight, 1) <= v
    IN \E s \in walks : WalkPairs(s) = pairs /\ WalkScore(s, weight, 1) = top
=============================================================================
