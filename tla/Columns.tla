------------------------------ MODULE Columns ------------------------------
(***************************************************************************)
(* From the lines of one cluster to one template: ulpf-infer/src/          *)
(* cluster.rs over the tokens of token.rs.  A line is a sequence of tokens *)
(* [kind, text]; how bytes become tokens is left out.  Kinds other than    *)
(* space, punct and word are variable by nature.  A column keeps, for      *)
(* every member that has it, what that member had there: the code leaves   *)
(* out the entries equal to the column's own constant and answers with the *)
(* constant, so the two say the same.  All spaces are one text, as they    *)
(* are to the pattern that is compiled in the end.                         *)
(***************************************************************************)
EXTENDS Align, FiniteSets, TLC

CONSTANTS Plain,      \* words made of letters only: possible keywords
          IdentityKeys,    \* words that announce a value, never a keyword
          EnumMax,    \* a slot with more distinct words is no keyword
          RarePercent \* rare_share, in hundredths

Variable(kind) == kind \notin {"space", "punct", "word"}

IpLike(kind)  == kind \in {"ip", "ipv4", "ipv6"}
NumLike(kind) == kind \in {"int", "float"}

\* Identical constants, or variables of one family.
SameShape(a, b) ==
    CASE a.kind \in {"word", "punct"} -> a = b
      [] IpLike(a.kind)  -> IpLike(b.kind)
      [] NumLike(a.kind) -> NumLike(b.kind)
      [] OTHER -> a.kind = b.kind

----------------------------------------------------------------------------
(* Columns *)

Value(kind, toks) == [kind |-> kind, toks |-> toks]

ColOf(t, m) ==
    [kind |-> t.kind, text |-> t, variable |-> FALSE, region |-> FALSE,
     optional |-> FALSE, vals |-> m :> Value(t.kind, <<t>>)]

Give(c, m, v) == [c EXCEPT !.vals = m :> v @@ @]

Substituted(c, m, t) ==
    [Give(c, m, Value(t.kind, <<t>>)) EXCEPT !.variable = TRUE]

IsSlot(c) == c.variable \/ c.region \/ Variable(c.kind)

Present(c) == DOMAIN c.vals

\* A slot takes only tokens of its own class.
Class(kind) ==
    IF kind \in {"word", "punct", "quoted"} THEN "free"
    ELSE IF kind \in {"space", "chain"} THEN kind ELSE "atom"

\* What the token t is worth against column c: 0 no match, 3 an exact
\* constant.
Weight(c, t) ==
    CASE c.region -> 0
      [] c.variable /\ ~c.region ->
           IF Class(c.kind) = Class(t.kind) /\ t.kind # "space" THEN 1 ELSE 0
      [] ~c.variable /\ ~c.region ->
           IF ~SameShape(c.text, t) THEN 0
           ELSE IF c.kind \in {"word", "punct"} THEN 3
           ELSE IF c.kind = "space" THEN 1 ELSE 2

CanSubst(c, t) == c.kind # "space" /\ ~c.region /\ t.kind # "space"

RECURSIVE Concat(_)
Concat(ss) == IF ss = <<>> THEN <<>> ELSE Head(ss) \o Concat(Tail(ss))

\* What member m had over a run of columns, end to end.
TextOf(cols, m) ==
    Concat([i \in DOMAIN cols |->
              IF m \in Present(cols[i]) THEN cols[i].vals[m].toks ELSE <<>>])

\* One free-text column in the place of a run.
Region(run, vals, optional) ==
    [kind |-> "word", text |-> run[1].text, variable |-> TRUE,
     region |-> TRUE, optional |-> optional, vals |-> vals]

HaveAny(run) == UNION {Present(run[i]) : i \in DOMAIN run}

----------------------------------------------------------------------------
(* consensus *)

NonSpace(toks) == {i \in DOMAIN toks : toks[i].kind # "space"}

FirstOf(S) == CHOOSE i \in S : \A j \in S : i <= j

FirstNonSpace(toks) ==
    IF NonSpace(toks) = {} THEN 1 ELSE FirstOf(NonSpace(toks))

NewCols(toks, m) == [i \in DOMAIN toks |-> ColOf(toks[i], m)]

\* Columns and tokens of different shapes between two anchors.
Collapse(pc, mt, m) ==
    LET first == FirstNonSpace(mt)
        at    == FirstNonSpace(pc)
        parts(i) == {k \in DOMAIN pc : i \in Present(pc[k])}
        old   == [i \in HaveAny(pc) |->
                    Value(IF Cardinality(parts(i)) = 1
                            THEN pc[CHOOSE k \in parts(i) : TRUE].vals[i].kind
                            ELSE "word", TextOf(pc, i))]
    IN IF Len(pc) = 1 THEN
         NewCols(SubSeq(mt, 1, first - 1), m)
           \o <<Substituted(pc[1], m, mt[first])>>
           \o NewCols(SubSeq(mt, first + 1, Len(mt)), m)
       ELSE IF Cardinality(NonSpace(mt)) = 1 THEN
         [pc EXCEPT ![at] = Substituted(@, m, mt[first])]
       ELSE <<Region(pc, m :> Value(IF Len(mt) = 1 THEN mt[1].kind ELSE "word",
                                    mt) @@ old, FALSE)>>

\* One gap between two anchors: pivot columns pc against member tokens mt.
Gap(pc, mt, m) ==
    IF pc = <<>> THEN NewCols(mt, m)
    ELSE IF mt = <<>> THEN pc
    ELSE IF Len(pc) = 1 /\ pc[1].region
    THEN <<Give(pc[1], m, Value("word", mt))>>
    ELSE IF /\ Len(pc) = Len(mt)
            /\ \A i \in DOMAIN pc : "space" \notin {pc[i].kind, mt[i].kind}
    THEN [i \in DOMAIN pc |-> Substituted(pc[i], m, mt[i])]
    ELSE Collapse(pc, mt, m)

RECURSIVE Woven(_, _, _, _, _, _)
Woven(cols, toks, m, pairs, pi, mj) ==
    LET done == pairs = <<>>
        i == IF done THEN Len(cols) + 1 ELSE Head(pairs)[1]
        j == IF done THEN Len(toks) + 1 ELSE Head(pairs)[2]
        gap == Gap(SubSeq(cols, pi, i - 1), SubSeq(toks, mj, j - 1), m)
    IN IF done THEN gap
       ELSE gap \o <<Give(cols[i], m, Value(toks[j].kind, <<toks[j]>>))>>
                \o Woven(cols, toks, m, Tail(pairs), i + 1, j + 1)

Weights(cols, toks) ==
    [c \in (DOMAIN cols) \X (DOMAIN toks) |-> Weight(cols[c[1]], toks[c[2]])]

Substs(cols, toks) ==
    [c \in (DOMAIN cols) \X (DOMAIN toks) |-> CanSubst(cols[c[1]], toks[c[2]])]

AlignMember(cols, toks, m) ==
    Woven(cols, toks, m,
          AlignPairs(Len(cols), Len(toks), Weights(cols, toks),
                     Substs(cols, toks)), 1, 1)

RECURSIVE ConsensusOf(_, _)
ConsensusOf(members, k) ==
    IF k = 1 THEN NewCols(members[1], 1)
    ELSE AlignMember(ConsensusOf(members, k - 1), members[k], k)

Consensus(members) == ConsensusOf(members, Len(members))

----------------------------------------------------------------------------
(* The rules that follow alignment *)

RareCount(n) == Larger(2, (n * RarePercent + 99) \div 100)

\* What too few members have is junk; what too few lack stays required.
PresenceRules(cols, n) ==
    LET rare == RareCount(n)
        p(c) == Cardinality(Present(c))
        kept == SelectSeq(cols, LAMBDA c : p(c) = n \/ p(c) >= rare)
    IN [i \in DOMAIN kept |->
          [kept[i] EXCEPT !.optional = n - p(kept[i]) >= rare]]

AllKinds(c) == {c.kind} \cup {c.vals[m].kind : m \in Present(c)}

WordishSlot(c) == IsSlot(c) /\ \A k \in AllKinds(c) : ~Variable(k)

IsAnchor(c) ==
    \/ ~IsSlot(c) /\ ~c.optional /\ c.kind # "space"
    \/ \E k \in AllKinds(c) : Variable(k)

\* The run a..b of cols as one text column, optional when a member has none
\* of it.
Fused(cols, a, b, n) ==
    LET run == SubSeq(cols, a, b)
    IN SubSeq(cols, 1, a - 1)
         \o <<Region(run, [m \in HaveAny(run) |-> Value("word",
                                                        TextOf(run, m))],
                     HaveAny(run) # 1..n)>>
         \o SubSeq(cols, b + 1, Len(cols))

\* The last column of the longest  slot (space slot)*  that begins at i.
RECURSIVE WordRunEnd(_, _)
WordRunEnd(cols, j) ==
    IF /\ j + 2 <= Len(cols)
       /\ cols[j + 1].kind = "space" /\ ~IsSlot(cols[j + 1])
       /\ WordishSlot(cols[j + 2])
    THEN WordRunEnd(cols, j + 2) ELSE j

RECURSIVE CollapseWordRuns(_, _, _, _)
CollapseWordRuns(cols, n, onlyVariable, i) ==
    IF i > Len(cols) THEN cols
    ELSE LET j == WordRunEnd(cols, i)
         IN IF /\ WordishSlot(cols[i])
               /\ j > i
               /\ onlyVariable => \E k \in i..j : cols[k].optional
            THEN CollapseWordRuns(Fused(cols, i, j, n), n, onlyVariable, i + 1)
            ELSE CollapseWordRuns(cols, n, onlyVariable, i + 1)

EdgeSpace(c) == c.kind = "space" /\ ~c.optional /\ ~IsSlot(c)

\* Between two anchors, optional and free-text columns are one text column.
RECURSIVE CollapseMessyRuns(_, _, _)
CollapseMessyRuns(cols, n, i) ==
    LET N == Len(cols)
        anchors == {k \in i..N : IsAnchor(cols[k])}
        j == IF anchors = {} THEN N ELSE FirstOf(anchors) - 1
        inner == {k \in i..j : ~EdgeSpace(cols[k])}
        a == IF inner = {} THEN j + 1 ELSE FirstOf(inner)
        b == IF inner = {} THEN j ELSE CHOOSE k \in inner :
                                         \A l \in inner : l <= k
        wordish  == {k \in a..b : WordishSlot(cols[k])}
        residue  == {k \in a..b : /\ cols[k].optional /\ ~IsSlot(cols[k])
                                  /\ cols[k].kind = "punct"}
        keyword  == \E k \in a..b : /\ cols[k].optional /\ ~IsSlot(cols[k])
                                    /\ cols[k].kind = "word"
    IN IF i > N THEN cols
       ELSE IF j < i THEN CollapseMessyRuns(cols, n, i + 1)
       ELSE IF \/ Cardinality(wordish) >= 2
               \/ wordish # {} /\ Cardinality(residue) >= 2 /\ ~keyword
       THEN CollapseMessyRuns(Fused(cols, a, b, n), n, a + 1)
       ELSE CollapseMessyRuns(cols, n, j + 1)

\* The nearest constant word before a column, through one separator.
RECURSIVE KeyBefore(_, _, _)
KeyBefore(cols, i, through) ==
    IF i = 1 THEN "none"
    ELSE LET c == cols[i - 1]
         IN CASE c.kind = "space" -> KeyBefore(cols, i - 1, through)
              [] c.kind # "space" /\ IsSlot(c) -> "none"
              [] c.kind = "punct" /\ ~IsSlot(c) ->
                   IF c.text.text \in {"=", ":"} /\ ~through
                     THEN KeyBefore(cols, i - 1, TRUE) ELSE "none"
              [] OTHER -> c.text.text

Distinct(c) == {c.vals[m].toks : m \in Present(c)}

KeywordLike(toks) ==
    toks # <<>> /\ \A i \in DOMAIN toks : toks[i].text \in Plain

\* The members by what they have at column i; those without it are a group.
GroupsAt(cols, i, n) ==
    LET c == cols[i]
        of(v) == {m \in Present(c) : c.vals[m].toks = v}
    IN {of(v) : v \in Distinct(c)} \cup ({(1..n) \ Present(c)} \ {{}})

SplitsAt(cols, i, n) ==
    /\ ~cols[i].region /\ WordishSlot(cols[i])
    /\ Cardinality(Distinct(cols[i])) \in 2..EnumMax
    /\ \A v \in Distinct(cols[i]) : KeywordLike(v)
    /\ KeyBefore(cols, i, FALSE) \notin IdentityKeys
    /\ \A g \in GroupsAt(cols, i, n) : Cardinality(g) >= 2

\* The columns a keyword may be split at; the first is taken.
EnumSplit(cols, n) == {i \in DOMAIN cols : SplitsAt(cols, i, n)}

----------------------------------------------------------------------------
(* The type of a slot *)

\* Families in the order the code's map keeps them; on equal counts the last
\* one is the dominant one.
FamilyOrder == <<"int", "float", "ipv4", "ipv6", "quoted", "word", "spaced">>

Family(v) ==
    CASE Variable(v.kind) /\ v.kind # "chain" -> v.kind
      [] v.kind # "chain" /\ \E i \in DOMAIN v.toks : v.toks[i].kind = "space"
           -> "spaced"
      [] OTHER -> "word"

SlotKind(c, rare) ==
    LET fam(m) == Family(c.vals[m])
        all == {fam(m) : m \in Present(c)}
        count(f) == Cardinality({m \in Present(c) : fam(m) = f})
        rank(f) == CHOOSE r \in DOMAIN FamilyOrder : FamilyOrder[r] = f
        dominant == CHOOSE f \in all : \A g \in all :
                      \/ count(f) > count(g)
                      \/ count(f) = count(g) /\ rank(f) >= rank(g)
        fams == IF Cardinality(Present(c)) - count(dominant) < rare
                  THEN {dominant} ELSE all
        atoms == {"int", "float", "ipv4", "ipv6"}
    IN CASE all \subseteq atoms /\ Cardinality(all) = 1 -> dominant
         [] Cardinality(all) > 1 /\ all \subseteq {"ipv4", "ipv6"} -> "ip"
         [] Cardinality(all) > 1 /\ all \subseteq {"int", "float"} -> "float"
         [] OTHER ->
              IF \/ "spaced" \in fams
                 \/ "quoted" \in fams /\ Cardinality(fams) > 1 THEN "text"
              ELSE IF Cardinality(fams) = 1 /\ dominant # "word" THEN dominant
              ELSE "word"

(***************************************************************************)
(* shape.  A template is a sequence of [t |-> "const", tok], [t |->        *)
(* "slot", kind, col] and [t |-> "opt", inner]: optional columns with the  *)
(* same members are one group.  A constant is kept token by token, not     *)
(* joined to its neighbour.                                                *)
(***************************************************************************)
KindAt(cols, i, rare) ==
    LET k == SlotKind(cols[i], rare)
    IN IF k = "text" /\ i = Len(cols) /\ cols[i].region THEN "rest" ELSE k

PieceAt(cols, i, rare) ==
    IF IsSlot(cols[i])
      THEN [t |-> "slot", kind |-> KindAt(cols, i, rare), col |-> i]
      ELSE [t |-> "const", tok |-> cols[i].text]

\* The last column of the optional group that begins at i.
RECURSIVE GroupEnd(_, _)
GroupEnd(cols, i) ==
    IF /\ i < Len(cols) /\ cols[i + 1].optional
       /\ Present(cols[i + 1]) = Present(cols[i])
    THEN GroupEnd(cols, i + 1) ELSE i

RECURSIVE ShapeFrom(_, _, _)
ShapeFrom(cols, rare, i) ==
    IF i > Len(cols) THEN <<>>
    ELSE IF cols[i].optional
    THEN LET j == GroupEnd(cols, i)
         IN <<[t |-> "opt",
               inner |-> [k \in 1..(j - i + 1) |->
                            PieceAt(cols, i + k - 1, rare)]]>>
              \o ShapeFrom(cols, rare, j + 1)
    ELSE <<PieceAt(cols, i, rare)>> \o ShapeFrom(cols, rare, i + 1)

Shape(cols, rare) == ShapeFrom(cols, rare, 1)
=============================================================================
