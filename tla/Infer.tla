------------------------------- MODULE Infer -------------------------------
(***************************************************************************)
(* One inference run (ulpf-infer/src/lib.rs: infer and infer_with_prior):  *)
(* the unknown lines of one source become clusters, candidate templates    *)
(* and a definition, or stay unmatched.  Every step of a loop that changes *)
(* what the later ones see is an action.  Left out: the syslog envelope,   *)
(* slot names and the wording of the evidence.                             *)
(***************************************************************************)
EXTENDS Columns, Pattern

CONSTANTS Inputs,       \* the sequences of lines a run may be given
          Priors,       \* the priors a run may be given
          NoPrior,      \* the run of a source that never had a parser
          MinSupport, MaxTemplates, HeadWords,
          MaxTokens,    \* a longer line is not clustered
          SimilarityTenths,  \* the similarity a line needs, in tenths
          MaxDepth      \* how often a cluster is split before it is kept

ASSUME InferBounds == /\ NoPrior \in Priors
                      /\ MinSupport \in Nat \ {0}
                      /\ \A ls \in Inputs : ls # <<>>

VARIABLES lines,     \* the buffered lines of the source
          prior,     \* the parser the source had, or NoPrior
          stage,     \* where the run is
          at,        \* the loop position within the stage
          drift,     \* the lines the prior does not cover, by position
          clusters,  \* seeds and members
          cands,     \* candidate templates with their members and columns
          unmatched, \* the lines no template speaks for: line -> reason
          hits,      \* the verified lines: line -> candidate
          def        \* the definition proposed

vars == <<lines, prior, stage, at, drift, clusters, cands, unmatched, hits,
          def>>

\* The tokens of a line; a line with too many is left without any.
Toks(i) == IF Len(lines[i]) > MaxTokens THEN <<>> ELSE lines[i]

LinesOf(s) == {s[k] : k \in DOMAIN s}

----------------------------------------------------------------------------
(* Similarity and clusters *)

Words(toks) == SelectSeq(toks, LAMBDA t : t.kind = "word")

Solid(toks) == SelectSeq(toks, LAMBDA t : t.kind # "space")

\* 2 LCS / (|a| + |b|) as a pair; two empty lists are alike.
Ratio(a, b, eq) ==
    IF a = <<>> /\ b = <<>> THEN <<1, 1>>
    ELSE <<2 * Lcs(Len(a), Len(b), eq), Len(a) + Len(b)>>

Above(r, s) == r[1] * s[2] > s[1] * r[2]

HeadOf(ws) == SubSeq(ws, 1, IF Len(ws) < HeadWords THEN Len(ws) ELSE HeadWords)

LineSimilarity(a, b) ==
    LET wa == Words(a)  wb == Words(b)
        sa == Solid(a)  sb == Solid(b)
        same == [c \in (DOMAIN wa) \X (DOMAIN wb) |-> wa[c[1]] = wb[c[2]]]
        like == [c \in (DOMAIN sa) \X (DOMAIN sb) |->
                   SameShape(sa[c[1]], sb[c[2]])]
        full == Ratio(wa, wb, same)
        head == Ratio(HeadOf(wa), HeadOf(wb), same)
    IN IF Len(wa) >= 2 /\ Len(wb) >= 2
       THEN IF Above(head, full) THEN head ELSE full
       ELSE Ratio(sa, sb, like)

Enough(r) == r[1] * 10 >= SimilarityTenths * r[2]

\* The cluster a line joins: the most similar seed, the earliest of equals;
\* 0 seeds a new one.
Joins(toks) ==
    LET sim == [c \in DOMAIN clusters |->
                  LineSimilarity(toks, Toks(clusters[c].seed))]
        ok  == {c \in DOMAIN clusters : Enough(sim[c])}
        best == {c \in ok : \A d \in ok : ~Above(sim[d], sim[c])}
    IN IF best = {} THEN 0 ELSE FirstOf(best)

Contains(toks, s) ==
    \E k \in 0..(Len(toks) - Len(s)) : SubSeq(toks, k + 1, k + Len(s)) = s

(***************************************************************************)
(* A signature is a set of alternatives: texts that must all occur in the  *)
(* line, or a number of columns it must have (0: any); {} is the           *)
(* catch-all.  What the prior detects and parses is not drift.             *)
(***************************************************************************)
Text(s) == [all |-> <<s>>, columns |-> 0]

ColumnCount(toks) == Len(SelectSeq(toks, LAMBDA t : t.kind = "space")) + 1

Detects(sig, toks) ==
    \/ sig = {}
    \/ \E alt \in sig : /\ alt.columns \in {0, ColumnCount(toks)}
                        /\ \A k \in DOMAIN alt.all : Contains(toks, alt.all[k])

Covered(p, toks) ==
    Detects(p.sig, toks) /\ FirstMatch(p.patterns, toks) # 0

RECURSIVE Ascending(_)
Ascending(S) == IF S = {} THEN <<>>
                ELSE <<FirstOf(S)>> \o Ascending(S \ {FirstOf(S)})

Start ==
    /\ stage = "start"
    /\ drift' = Ascending({i \in DOMAIN lines :
                             prior = NoPrior \/ ~Covered(prior, lines[i])})
    /\ stage' = "assign" /\ at' = 1
    /\ UNCHANGED <<lines, prior, clusters, cands, unmatched, hits, def>>

\* The `#fields` header of a delimited file, and the lines it is about.
Comment(toks) == toks # <<>> /\ toks[1].text = "#"

IsHeader(toks) ==
    Comment(toks) /\ Len(toks) > 4 /\ toks[2].text = "fields"
      /\ toks[3].kind = "space"

Headers == {lines[i] : i \in {j \in LinesOf(drift) : IsHeader(lines[j])}}

DataLines ==
    {i \in LinesOf(drift) : lines[i] # <<>> /\ ~Comment(lines[i])}

\* The header's own mark is a column of its line and none of the data.
FieldCount == ColumnCount(CHOOSE h \in Headers : TRUE) - 1

\* One header, enough data lines, and each with exactly its columns.
HeaderFits ==
    /\ Cardinality(Headers) = 1
    /\ Cardinality(DataLines) >= MinSupport
    /\ \A i \in DataLines : ColumnCount(lines[i]) = FieldCount

\* assign, one line at a time; an empty line is nobody's, and neither is
\* one that is too long.
Assign ==
    /\ stage = "assign" /\ at <= Len(drift) /\ ~HeaderFits
    /\ at' = at + 1
    /\ LET i == drift[at]  c == Joins(Toks(i))
       IN IF Toks(i) = <<>>
          THEN /\ unmatched' = unmatched @@ i :>
                    IF lines[i] = <<>> THEN "empty" ELSE "too_long"
               /\ UNCHANGED clusters
          ELSE /\ clusters' = IF c = 0
                    THEN Append(clusters, [seed |-> i, members |-> <<i>>])
                    ELSE [clusters EXCEPT ![c].members = Append(@, i)]
               /\ UNCHANGED unmatched
    /\ UNCHANGED <<lines, prior, stage, drift, cands, hits, def>>

Assigned ==
    /\ stage = "assign" /\ at > Len(drift) /\ ~HeaderFits
    /\ stage' = "build" /\ at' = 1
    /\ UNCHANGED <<lines, prior, drift, clusters, cands, unmatched, hits, def>>

----------------------------------------------------------------------------
(* Candidates *)

\* The groups of a split, the larger first; the code breaks ties by the
\* keyword's text, the model by the first member.
RECURSIVE BySize(_)
BySize(G) ==
    IF G = {} THEN <<>>
    ELSE LET g == CHOOSE g \in G : \A h \in G \ {g} :
                    \/ Cardinality(g) > Cardinality(h)
                    \/ Cardinality(g) = Cardinality(h)
                         /\ FirstOf(g) < FirstOf(h)
         IN <<g>> \o BySize(G \ {g})

Aligned(members) ==
    PresenceRules(Consensus([k \in DOMAIN members |-> Toks(members[k])]),
                  Len(members))

Leaf(members) ==
    LET n == Len(members)
        cols0 == CollapseWordRuns(Aligned(members), n, TRUE, 1)
        cols == CollapseMessyRuns(CollapseWordRuns(cols0, n, FALSE, 1), n, 1)
    IN [members |-> members, cols |-> cols,
        template |-> Shape(cols, RareCount(n))]

\* candidates_for: split on keyword slots, to a bounded depth.
RECURSIVE CandidatesFor(_, _)
CandidatesFor(members, depth) ==
    LET n == Len(members)
        cols == CollapseWordRuns(Aligned(members), n, TRUE, 1)
        splits == EnumSplit(cols, n)
        groups == BySize(GroupsAt(cols, FirstOf(splits), n))
        part(g) == LET idx == Ascending(g)
                   IN [k \in DOMAIN idx |-> members[idx[k]]]
    IN IF depth >= MaxDepth \/ splits = {} THEN <<Leaf(members)>>
       ELSE Concat([k \in DOMAIN groups |->
                      CandidatesFor(part(groups[k]), depth + 1)])

Dropped(S, reason) == [i \in S |-> reason] @@ unmatched

MembersOf(c) == {c.members[k] : k \in DOMAIN c.members}

Build ==
    /\ stage = "build" /\ at <= Len(clusters)
    /\ at' = at + 1
    /\ LET c == clusters[at]
       IN IF Len(c.members) < MinSupport
          THEN /\ unmatched' = Dropped(MembersOf(c), "below_support")
               /\ UNCHANGED cands
          ELSE /\ cands' = cands \o CandidatesFor(c.members, 0)
               /\ UNCHANGED unmatched
    /\ UNCHANGED <<lines, prior, stage, drift, clusters, hits, def>>

Built ==
    /\ stage = "build" /\ at > Len(clusters)
    /\ stage' = "dedupe" /\ at' = 1
    /\ UNCHANGED <<lines, prior, drift, clusters, cands, unmatched, hits, def>>

----------------------------------------------------------------------------
(* Dedupe *)

Slot == [kind |-> "slot", text |-> "{}"]

RECURSIVE Flat(_)
Flat(template) ==
    IF template = <<>> THEN <<>>
    ELSE LET x == Head(template)
         IN (CASE x.t = "const" -> <<x.tok>>
               [] x.t = "slot" -> <<Slot>>
               [] OTHER -> Flat(x.inner)) \o Flat(Tail(template))

RECURSIVE SplitOnSpace(_, _)
SplitOnSpace(toks, word) ==
    IF toks = <<>> THEN <<word>>
    ELSE IF Head(toks).kind = "space"
    THEN <<word>> \o SplitOnSpace(Tail(toks), <<>>)
    ELSE SplitOnSpace(Tail(toks), Append(word, Head(toks)))

ShapeWords(template) == SplitOnSpace(Flat(template), <<>>)

\* A differing word is an identifier, never a keyword, on both sides.
Identifier(word) ==
    ~KeywordLike(SelectSeq(word, LAMBDA t : t.kind = "word"))

SlotsIn(word) == Len(SelectSeq(word, LAMBDA t : t = Slot))

Mergeable(x, y) ==
    LET a == ShapeWords(x.template)  b == ShapeWords(y.template)
        differ == {k \in DOMAIN a : a[k] # b[k]}
    IN /\ Len(a) = Len(b)
       /\ \/ differ = {}
          \/ \E k \in DOMAIN a : /\ differ = {k}
                                 /\ SlotsIn(a[k]) = SlotsIn(b[k])
                                 /\ Identifier(a[k]) /\ Identifier(b[k])

Without(s, j) == SubSeq(s, 1, j - 1) \o SubSeq(s, j + 1, Len(s))

\* A mutant: the candidate merged into another one is not taken out.
MergeKeeps ==
    /\ stage = "dedupe" /\ at <= Len(cands)
    /\ LET js == {j \in (at + 1)..Len(cands) : Mergeable(cands[at], cands[j])}
           j  == FirstOf(js)
           both == Ascending(MembersOf(cands[at]) \cup MembersOf(cands[j]))
       IN IF js = {}
          THEN at' = at + 1 /\ UNCHANGED cands
          ELSE /\ cands' = [cands EXCEPT ![at] = Leaf(both)]
               /\ UNCHANGED at
    /\ UNCHANGED <<lines, prior, stage, drift, clusters, unmatched, hits, def>>

\* The candidate `at` takes the first later one it can merge with and is
\* built again, without splitting; when there is none the next one is tried.
Merge ==
    /\ stage = "dedupe" /\ at <= Len(cands)
    /\ LET js == {j \in (at + 1)..Len(cands) : Mergeable(cands[at], cands[j])}
           j  == FirstOf(js)
           both == Ascending(MembersOf(cands[at]) \cup MembersOf(cands[j]))
       IN IF js = {}
          THEN at' = at + 1 /\ UNCHANGED cands
          ELSE /\ cands' = [Without(cands, j) EXCEPT
                              ![at] = CandidatesFor(both, MaxDepth)[1]]
               /\ UNCHANGED at
    /\ UNCHANGED <<lines, prior, stage, drift, clusters, unmatched, hits, def>>

----------------------------------------------------------------------------
(* Ranking, verification, definition *)

RECURSIVE Trimmed(_)
Trimmed(toks) ==
    CASE toks = <<>> -> <<>>
      [] toks # <<>> /\ Head(toks).kind = "space" -> Trimmed(Tail(toks))
      [] toks # <<>> /\ Head(toks).kind # "space"
           /\ toks[Len(toks)].kind = "space" ->
             Trimmed(SubSeq(toks, 1, Len(toks) - 1))
      [] OTHER -> toks

\* The required constants, as the runs of tokens between slots and groups.
RECURSIVE ConstRuns(_, _)
ConstRuns(template, run) ==
    IF template = <<>> THEN <<Trimmed(run)>>
    ELSE IF Head(template).t = "const"
    THEN ConstRuns(Tail(template), Append(run, Head(template).tok))
    ELSE <<Trimmed(run)>> \o ConstRuns(Tail(template), <<>>)

ConstantSize(c) == Len(Concat(ConstRuns(c.template, <<>>)))

Before(x, y) ==
    \/ ConstantSize(x) > ConstantSize(y)
    \/ ConstantSize(x) = ConstantSize(y) /\ Len(x.members) > Len(y.members)

\* A stable sort, the specific before the general.
RECURSIVE Ranked(_)
Ranked(cs) ==
    IF cs = <<>> THEN <<>>
    ELSE LET k == FirstOf({k \in DOMAIN cs :
                             \A l \in DOMAIN cs : ~Before(cs[l], cs[k])})
         IN <<cs[k]>> \o Ranked(Without(cs, k))

\* What is beyond max_templates sends its lines to unmatched.
Cut ==
    /\ stage = "dedupe" /\ at > Len(cands)
    /\ LET ranked == Ranked(cands)
           n == IF Len(ranked) < MaxTemplates THEN Len(ranked)
                ELSE MaxTemplates
           cut == {k \in DOMAIN ranked : k > n}
       IN /\ cands' = SubSeq(ranked, 1, n)
          /\ unmatched' = Dropped(UNION {MembersOf(ranked[k]) : k \in cut},
                                  "template_cap")
    /\ stage' = "verify" /\ at' = 1
    /\ UNCHANGED <<lines, prior, drift, clusters, hits, def>>

\* A mutant: every candidate takes part, whatever its support.
EligibleAll(c) == TRUE

Eligible(c) == Len(c.members) >= MinSupport

\* Verification, one line at a time, against the candidates the definition
\* may hold, in their order.
Verify ==
    /\ stage = "verify" /\ at <= Len(drift)
    /\ at' = at + 1
    /\ LET i == drift[at]
           ok == {k \in DOMAIN cands : /\ Eligible(cands[k])
                                       /\ Apply(cands[k].template, Toks(i)).ok}
       IN IF i \in DOMAIN unmatched
          THEN UNCHANGED <<hits, unmatched>>
          ELSE IF ok = {}
          THEN unmatched' = i :> "no_template" @@ unmatched /\ UNCHANGED hits
          ELSE hits' = i :> FirstOf(ok) @@ hits /\ UNCHANGED unmatched
    /\ UNCHANGED <<lines, prior, stage, drift, clusters, cands, def>>

VerifiedOf(k) == {i \in DOMAIN hits : hits[i] = k}

InDefinition(k) ==
    VerifiedOf(k) # {} /\ Len(cands[k].members) >= MinSupport

\* What a template gives the signature: its leading constant, else the first
\* constant word in it.
LeadOf(template) ==
    LET runs == ConstRuns(template, <<>>)
        ws == Words(Concat(runs))
    IN IF Words(runs[1]) # <<>> THEN {Text(runs[1])}
       ELSE IF ws # <<>> THEN {Text(<<ws[1]>>)} ELSE {}

\* A word of every line, else the templates' leads, else the catch-all {}.
Signature ==
    LET used == {i \in {drift[k] : k \in DOMAIN drift} : Toks(i) # <<>>}
        common == {w \in UNION {{Toks(i)[k] : k \in DOMAIN Toks(i)} :
                                  i \in used} :
                     /\ w.kind = "word"
                     /\ \A i \in used : \E k \in DOMAIN Toks(i) :
                          Toks(i)[k] = w}
    IN IF common # {} THEN {Text(<<CHOOSE w \in common : TRUE>>)}
       ELSE UNION {LeadOf(cands[k].template) : k \in DOMAIN cands}

Standing(patterns) ==
    [kind |-> "pattern", sig |-> Signature, patterns |-> patterns]

\* A mutant: the generated signature takes the prior's place.
WidenedNot(a, b) == b

\* union_matcher accepts what either accepts: of a list only the first text
\* is kept, which is looser.
Widened(a, b) ==
    IF a = {} THEN {}
    ELSE {[alt EXCEPT !.all = IF @ = <<>> THEN @ ELSE <<@[1]>>] :
            alt \in a \cup b}

\* The composition of what was generated onto the prior: the prior's patterns
\* come first, and its signature is kept when it missed nothing or the
\* generated one is the catch-all.
Composed(new) ==
    LET detected == {i \in DOMAIN lines : Detects(prior.sig, lines[i])}
        parsed == {i \in DOMAIN lines :
                     FirstMatch(prior.patterns, lines[i]) # 0}
        sig == IF detected = DOMAIN lines \/ new.sig = {} THEN prior.sig
               ELSE Widened(prior.sig, new.sig)
    IN CASE prior.kind = "pattern" /\ new.kind = "pattern"
              /\ new.patterns # <<>> ->
              [kind |-> "pattern", sig |-> sig,
               patterns |-> prior.patterns \o new.patterns]
         [] prior.kind # "pattern" /\ Cardinality(parsed) * 10 >=
                                        9 * Len(lines) ->
              [kind |-> prior.kind, sig |-> sig, patterns |-> prior.patterns]
         [] OTHER -> new

Proposed(new) == IF prior = NoPrior THEN new ELSE Composed(new)

Define ==
    /\ stage = "verify" /\ at > Len(drift)
    /\ LET in == Ascending({k \in DOMAIN cands : InDefinition(k)})
       IN def' = Proposed(Standing([k \in DOMAIN in |->
                                      cands[in[k]].template]))
    /\ stage' = "done" /\ at' = 1
    /\ UNCHANGED <<lines, prior, drift, clusters, cands, unmatched, hits>>

\* infer_delimited: nothing is clustered; the definition splits at the
\* separator and its signature is the number of columns.
Delimited ==
    /\ stage = "assign" /\ HeaderFits
    /\ cands' = <<[members |-> Ascending(DataLines), cols |-> <<>>,
                   template |-> <<>>]>>
    /\ unmatched' = [i \in LinesOf(drift) \ DataLines |->
                       IF lines[i] = <<>> THEN "empty" ELSE "header"]
    /\ LET sig == {[all |-> <<>>, columns |-> FieldCount]}
       IN /\ hits' = [i \in {j \in DataLines : Detects(sig, lines[j])} |-> 1]
          /\ def' = Proposed([kind |-> "delimiter", sig |-> sig,
                              patterns |-> <<>>])
    /\ stage' = "done" /\ at' = 1
    /\ UNCHANGED <<lines, prior, drift, clusters>>

\* The proposal is handed over.
Done == stage = "done" /\ UNCHANGED vars

Next ==
    \/ Start \/ Assign \/ Assigned \/ Build \/ Built \/ Merge \/ Cut
    \/ Verify \/ Define \/ Delimited \/ Done

Nothing == [kind |-> "none", sig |-> {}, patterns |-> <<>>]

Init ==
    /\ lines \in Inputs /\ prior \in Priors
    /\ stage = "start" /\ at = 1 /\ drift = <<>> /\ clusters = <<>>
    /\ cands = <<>> /\ unmatched = <<>> /\ hits = <<>> /\ def = Nothing

Spec == Init /\ [][Next]_vars

----------------------------------------------------------------------------
(* Properties *)

Reasons == {"empty", "too_long", "below_support", "template_cap",
            "no_template", "header"}

\* The types; and a column is required only where fewer than rare_count of
\* the members lack it (presence_rules), whatever was fused or split since.
TypeOK ==
    /\ stage \in {"start", "assign", "build", "dedupe", "verify", "done"}
    /\ at \in 1..(Len(lines) + 1)
    /\ LinesOf(drift) \subseteq DOMAIN lines
    /\ \A c \in DOMAIN clusters :
         clusters[c].seed = clusters[c].members[1]
    /\ \A k \in DOMAIN cands :
         /\ MembersOf(cands[k]) \subseteq DOMAIN lines
         /\ \A x \in DOMAIN cands[k].cols :
              LET col == cands[k].cols[x]
              IN /\ Present(col) \subseteq DOMAIN cands[k].members
                 /\ col.optional \/ col.region \/
                      Len(cands[k].members) - Cardinality(Present(col))
                        < RareCount(Len(cands[k].members))
    /\ DOMAIN unmatched \subseteq DOMAIN lines
    /\ \A i \in DOMAIN unmatched : unmatched[i] \in Reasons
    /\ \A i \in DOMAIN hits : hits[i] \in DOMAIN cands

\* The lines still in a cluster no template was built for.
Waiting ==
    CASE stage = "assign" -> {drift[k] : k \in at..Len(drift)} \cup
                             UNION {MembersOf(clusters[c]) :
                                      c \in DOMAIN clusters}
      [] stage = "build" -> UNION {MembersOf(clusters[c]) :
                                     c \in at..Len(clusters)}
      [] OTHER -> {}

\* Every line of the run waits, or is spoken for by exactly one candidate, or
\* is counted unmatched once (note_unmatched); in the end it is verified or
\* unmatched, never both, so lines_used is what the templates cover.
LinesAccountedOnce ==
    LET spoken == UNION {MembersOf(cands[k]) : k \in DOMAIN cands}
        noted  == {i \in DOMAIN unmatched : unmatched[i] # "no_template"}
    IN stage # "start" =>
       /\ LinesOf(drift) = Waiting \cup spoken \cup noted
       /\ Waiting \cap spoken = {} /\ noted \cap (Waiting \cup spoken) = {}
       /\ \A k \in DOMAIN cands : \A l \in DOMAIN cands \ {k} :
            MembersOf(cands[k]) \cap MembersOf(cands[l]) = {}
       /\ DOMAIN hits \cap DOMAIN unmatched = {}
       /\ stage = "done" =>
            DOMAIN hits \cup DOMAIN unmatched = LinesOf(drift)

\* Aligning the members of a cluster, substituting, collapsing and fusing
\* columns loses no token but spaces and the columns the presence rules
\* drop (cluster.rs): each line can be read back from the columns.
TextKept ==
    stage = "verify" /\ at = 1 =>
      \A k \in DOMAIN cands :
        LET ms == cands[k].members
            all == Consensus([x \in DOMAIN ms |-> Toks(ms[x])])
            kept == PresenceRules(all, Len(ms))
        IN \A x \in DOMAIN ms :
             /\ Solid(TextOf(all, x)) = Solid(Toks(ms[x]))
             /\ Solid(TextOf(cands[k].cols, x)) = Solid(TextOf(kept, x))

Accepts(kind, v) ==
    LET n == Len(v.toks)
    IN \E e \in 1..Len(Ends([kind |-> kind, last |-> FALSE], v.toks, 1)) :
         Ends([kind |-> kind, last |-> FALSE], v.toks, 1)[e] = n + 1

\* A member the columns hold whole, that has every required column and whose
\* values are of the slots' kinds.
Typical(c, x) ==
    /\ TextOf(c.cols, x) = Toks(c.members[x])
    /\ \A y \in DOMAIN c.cols :
         IF x \in Present(c.cols[y])
         THEN IsSlot(c.cols[y]) =>
                Accepts(KindAt(c.cols, y, RareCount(Len(c.members))),
                        c.cols[y].vals[x])
         ELSE c.cols[y].optional

\* A template matches the lines it was made from: optional groups are made of
\* columns present together, and no slot's greed costs a match.
OwnLinesMatch ==
    stage = "verify" /\ at = 1 =>
      \A k \in DOMAIN cands : \A x \in DOMAIN cands[k].members :
        Typical(cands[k], x) =>
          Apply(cands[k].template, Toks(cands[k].members[x])).ok

\* The traceback of align follows a best path through its tables: the pairs it
\* returns score as much as the best walk does.
AlignIsBest ==
    stage = "assign" /\ at = 1 /\ Len(lines) > 1 /\ prior = NoPrior =>
      LET a == NewCols(Toks(1), 1)  b == Toks(2)
          w == Weights(a, b)  s == Substs(a, b)
      IN IsBestAlignment(AlignPairs(Len(a), Len(b), w, s),
                         Len(a), Len(b), w, s)

\* `verified` describes the file that will be approved: each verified line is
\* parsed, by the patterns of the definition in their order, by the template
\* the evidence counts it under.
DefinitionRunsAsVerified ==
    stage = "done" =>
      \A i \in DOMAIN hits :
        LET in == Ascending({k \in DOMAIN cands : InDefinition(k)})
            k == FirstMatch([x \in DOMAIN in |-> cands[in[x]].template],
                            Toks(i))
        IN k # 0 /\ in[k] = hits[i]

\* Composed onto the prior: old lines parse as before.
OnPrior == /\ stage = "done" /\ prior # NoPrior
           /\ def.kind = prior.kind
           /\ Len(def.patterns) >= Len(prior.patterns)
           /\ SubSeq(def.patterns, 1, Len(prior.patterns)) = prior.patterns

\* Every line the prior detected and parsed is still detected by the widened
\* signature and parsed by the same pattern ("its behaviour on old lines
\* cannot change").
OldLinesParseAsBefore ==
    OnPrior =>
      \A i \in DOMAIN lines :
        Covered(prior, lines[i]) =>
          /\ Detects(def.sig, lines[i])
          /\ FirstMatch(def.patterns, lines[i]) =
               FirstMatch(prior.patterns, lines[i])

\* How much is left to do: the stages to come, then the steps of this one; a
\* merge leaves one candidate less and goes back by none.
Left ==
    CASE stage = "start"  -> <<5, 0>>
      [] stage = "assign" -> <<4, Len(drift) - at>>
      [] stage = "build"  -> <<3, Len(clusters) - at>>
      [] stage = "dedupe" -> <<2, 2 * Len(cands) - at>>
      [] stage = "verify" -> <<1, Len(drift) - at>>
      [] OTHER            -> <<0, 0>>

\* Inference ends whatever it is given: every step leaves less to do, though
\* dedupe starts over on each candidate it merged, and no state but "done" is
\* without a step (deadlock is checked).
EveryStepIsProgress ==
    [][\/ Left'[1] < Left[1]
       \/ Left'[1] = Left[1] /\ Left'[2] < Left[2]]_vars

\* Each line is accounted for once, and what is made of a cluster is made of
\* all of its lines (ulpf-infer/src/lib.rs, cluster.rs, align.rs).
InferSound ==
  /\ TypeOK
  /\ LinesAccountedOnce
  /\ TextKept
  /\ OwnLinesMatch
  /\ AlignIsBest
=============================================================================
