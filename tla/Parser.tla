------------------------------- MODULE Parser -------------------------------
(***************************************************************************)
(* Detection and parsing (ulpf-parse/src/detect.rs, compile.rs).  A parser *)
(* has a priority, a signature (marks an event must all bear), perhaps an  *)
(* envelope to strip, a strategy, subs and timestamp candidates.  How a    *)
(* strategy splits a text is the table Yields: [ok, fields].  Fields are a *)
(* sequence of [key, value]; the first one with a key answers for it.      *)
(***************************************************************************)
EXTENDS Integers, Sequences, FiniteSets

CONSTANT Yields   \* Yields[strategy][text]

Least(S) == CHOOSE i \in S : \A j \in S : i <= j

Find(fields, key) == {i \in DOMAIN fields : fields[i].key = key}

Has(fields, key) == Find(fields, key) # {}

Get(fields, key) == fields[Least(Find(fields, key))].value

----------------------------------------------------------------------------
(* Registry *)

Matches(p, marks) == p.sig \subseteq marks

\* Parsers stand in the order of their names.
Matching(registry, marks) ==
    {i \in DOMAIN registry : Matches(registry[i], marks)}

Highest(registry, S) ==
    {i \in S : \A j \in S : registry[i].priority >= registry[j].priority}

TopPriority(registry) == Highest(registry, DOMAIN registry)

\* The hint first, if no parser outranks it; then by priority and name.  0 is
\* no parser.
Detect(registry, marks, hint) ==
    LET S == Matching(registry, marks)
    IN IF hint \in S \cap TopPriority(registry) THEN hint
       ELSE IF S = {} THEN 0 ELSE Least(Highest(registry, S))

----------------------------------------------------------------------------
(* The strategy and its subs *)

Apply(strategy, text) == Yields[strategy][text]

\* A header that is stripped leaves its parts as fields; what is left, or all
\* of the event, goes to the strategy.
Stripped(p, event) == IF p.syslog THEN event.header ELSE <<>>

TextFor(p, event) == IF p.syslog THEN event.body ELSE event.whole

\* The first sub on the same field speaks for the group.
GroupOf(p, k) == Least({j \in 1..k : p.subs[j].field = p.subs[k].field})

Gated(sub, fields) ==
    \A g \in sub.when : Has(fields, g.key) /\ Get(fields, g.key) \in g.values

\* A mutant: a sub that is not gated says so even after a gated one failed.
RunSubForgets(p, k, fields, state) ==
    LET sub == p.subs[k]
        g   == GroupOf(p, k)
        y   == Apply(sub.strategy, Get(fields, sub.field))
        set(v, fs) == [fields |-> fs, state |-> [state EXCEPT ![g] = v]]
    IN IF state[g] = 3 \/ ~Has(fields, sub.field)
       THEN [fields |-> fields, state |-> state]
       ELSE IF ~Gated(sub, fields) THEN set(1, fields)
       ELSE IF y.ok THEN set(3, fields \o y.fields \o sub.constants)
       ELSE set(2, fields)

\* The state of a group: 0 field absent, 1 present and no sub gated for it,
\* 2 a gated sub failed, 3 matched.
RunSub(p, k, fields, state) ==
    LET sub == p.subs[k]
        g   == GroupOf(p, k)
        y   == Apply(sub.strategy, Get(fields, sub.field))
        set(v, fs) == [fields |-> fs, state |-> [state EXCEPT ![g] = v]]
    IN IF state[g] = 3 \/ ~Has(fields, sub.field)
       THEN [fields |-> fields, state |-> state]
       ELSE IF ~Gated(sub, fields)
       THEN set(IF state[g] = 0 THEN 1 ELSE state[g], fields)
       ELSE IF y.ok THEN set(3, fields \o y.fields \o sub.constants)
       ELSE set(2, fields)

SubStatus(state) ==
    LET seen == {state[g] : g \in DOMAIN state}
    IN IF 2 \in seen THEN "no_match" ELSE IF 1 \in seen THEN "uncovered"
       ELSE IF 3 \in seen THEN "matched" ELSE "not_applicable"

----------------------------------------------------------------------------
(* Timestamp candidates, in order: [format, text] *)

\* A candidate's text is the values of its fields, joined; one that lacks a
\* part is none at all.  The header's own stamp is the last resort.
Candidates(p, fields) ==
    LET specs   == Append(p.timestamps, [format |-> "auto",
                            fields |-> <<<<"syslog_timestamp">>>>])
        present == SelectSeq(specs, LAMBDA s : \A i \in DOMAIN s.fields :
                                                 Has(fields, s.fields[i]))
    IN [c \in DOMAIN present |->
          LET s == present[c]
          IN [format |-> s.format,
              text |-> [i \in DOMAIN s.fields |-> Get(fields, s.fields[i])]]]
=============================================================================
