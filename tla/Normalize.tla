----------------------------- MODULE Normalize -----------------------------
(***************************************************************************)
(* The normalizer (ulpf-normalize/src/mapping.rs): parsed fields become    *)
(* the schema's paths, and what no path takes stays under `unmapped`.  A   *)
(* source field's name is a sequence, so that the name `a#2` is <<"a", 2>>.*)
(* A dotted path is one name: no path of a mapping is a prefix of another. *)
(* Values are told apart without regard to letter case.                    *)
(***************************************************************************)
EXTENDS Integers, Sequences, FiniteSets, TLC

CONSTANT Mapping
    \* [fields: sequence of [path, names, int, enum], absent, classes,
    \*  default, enums: sequence of [id, unknown, other, raw, rawBy],
    \*  ints: numerals, hexadecimal too -> the number as JSON writes it]

Schema == Mapping.fields

Nil == [name |-> "nil", id |-> 0]

\* What a field, an enum's id and a class constant set is theirs alone.
PathsOf ==
    [fields |-> {Schema[x].path : x \in DOMAIN Schema},
     ids |-> {Mapping.enums[e].id : e \in DOMAIN Mapping.enums},
     constants |-> UNION {DOMAIN Mapping.classes[c].constants :
                            c \in DOMAIN Mapping.classes}
                     \cup DOMAIN Mapping.default.constants]

ASSUME PathsAreDisjoint ==
    /\ PathsOf.fields \cap (PathsOf.ids \cup PathsOf.constants) = {}
    /\ PathsOf.ids \cap PathsOf.constants = {}
    /\ \A x, y \in DOMAIN Schema : Schema[x].path = Schema[y].path => x = y

Absent(v) == v \in Mapping.absent

First(S) == CHOOSE i \in S : \A j \in S : i <= j

----------------------------------------------------------------------------
(* select_class *)

ValueOf(fields, key) ==
    LET found == {i \in DOMAIN fields : fields[i].key = key}
    IN IF found = {} THEN "" ELSE fields[First(found)].value

\* "*" asks for any value that is not an absent one.
Satisfied(test, fields) ==
    LET v == ValueOf(fields, test.key)
    IN /\ \E i \in DOMAIN fields : fields[i].key = test.key
       /\ ~Absent(v)
       /\ "*" \in test.values \/ v \in test.values

ClassOf(fields) ==
    LET hit == {c \in DOMAIN Mapping.classes :
                  \E alt \in Mapping.classes[c].when :
                    \A test \in alt : Satisfied(test, fields)}
    IN IF hit = {} THEN Mapping.default ELSE Mapping.classes[First(hit)]

----------------------------------------------------------------------------
(* choose *)

RankOf(x, key) == First({r \in DOMAIN Schema[x].names :
                           Schema[x].names[r] = key})

Feeds(fields, x) ==
    {i \in DOMAIN fields : /\ ~Absent(fields[i].value)
                           /\ \E r \in DOMAIN Schema[x].names :
                                Schema[x].names[r] = fields[i].key}

\* The field that wins schema field x, 0 for none: the lowest rank, then the
\* first.
WinnerOf(fields, x) ==
    LET S == Feeds(fields, x)
        rank(i) == RankOf(x, fields[i].key)
    IN IF S = {} THEN 0
       ELSE First({i \in S : \A j \in S : rank(i) <= rank(j)})

Winners(fields) ==
    {WinnerOf(fields, x) : x \in DOMAIN Schema} \ {0}

\* Those that win nothing and say something.
Losers(fields) ==
    {i \in DOMAIN fields : ~Absent(fields[i].value)} \ Winners(fields)

----------------------------------------------------------------------------
(* normalize *)

\* A mutant: a repeated name takes the place of the value before.
UnmappedInsertOver(unmapped, key, value) == key :> value @@ unmapped

\* A repeated name lands under name#2, name#3, ...
UnmappedInsert(unmapped, key, value) ==
    LET free == {n \in 2..(Cardinality(DOMAIN unmapped) + 2) :
                   Append(key, n) \notin DOMAIN unmapped}
    IN IF key \notin DOMAIN unmapped THEN key :> value @@ unmapped
       ELSE Append(key, First(free)) :> value @@ unmapped

RECURSIVE InsertAll(_, _, _)
InsertAll(unmapped, fields, S) ==
    IF S = {} THEN unmapped
    ELSE LET i == First(S)
         IN InsertAll(UnmappedInsert(unmapped, fields[i].key,
                                     fields[i].value), fields, S \ {i})

\* The field's own table answers before the one of all fields.
Lookup(table, key, value) ==
    IF <<key, value>> \in DOMAIN table.rawBy
    THEN table.rawBy[<<key, value>>]
    ELSE IF value \in DOMAIN table.raw THEN table.raw[value] ELSE Nil

\* What schema field x emits: the canonical value of an enum, else its
\* `other`; an enum nothing feeds emits `unknown`.
EnumOut(fields, x) ==
    LET table == Mapping.enums[Schema[x].enum]
        w     == WinnerOf(fields, x)
        found == Lookup(table, fields[w].key, fields[w].value)
    IN IF w = 0 THEN table.unknown
       ELSE IF found # Nil THEN found ELSE table.other

Missed(fields, x) ==
    LET w == WinnerOf(fields, x)
    IN /\ Schema[x].enum # 0 /\ w # 0
       /\ Lookup(Mapping.enums[Schema[x].enum], fields[w].key,
                 fields[w].value) = Nil

AsInt(v) == IF v \in DOMAIN Mapping.ints THEN Mapping.ints[v] ELSE v

Plain(x, v) == IF Schema[x].int THEN AsInt(v) ELSE v

Written(fields, x) ==
    LET w == WinnerOf(fields, x)
        e == EnumOut(fields, x)
    IN IF Schema[x].enum # 0
       THEN IF e = Nil THEN <<>>
            ELSE Schema[x].path :> e.name @@
                 (IF e.id = 0 THEN <<>>
                  ELSE Mapping.enums[Schema[x].enum].id :> e.id)
       ELSE IF w = 0 THEN <<>>
       ELSE Schema[x].path :> Plain(x, fields[w].value)

RECURSIVE Root(_, _)
Root(fields, x) ==
    IF x = 0 THEN <<>> ELSE Written(fields, x) @@ Root(fields, x - 1)

\* The emitted line: the losers under `unmapped`, then the enum values no
\* table knows, in the order of the schema; the class and its constants last.
Normalized(fields) ==
    LET missed == {x \in DOMAIN Schema : Missed(fields, x)}
        class  == ClassOf(fields)
        RECURSIVE Keep(_, _)
        Keep(u, X) ==
            IF X = {} THEN u
            ELSE LET w == WinnerOf(fields, First(X))
                 IN Keep(UnmappedInsert(u, fields[w].key, fields[w].value),
                         X \ {First(X)})
    IN [root |-> class.constants @@ Root(fields, Len(Schema)),
        class |-> class.uid,
        mapped |-> Cardinality({x \in DOMAIN Schema :
                                  WinnerOf(fields, x) # 0}),
        unmapped |-> Keep(InsertAll(<<>>, fields, Losers(fields)), missed)]

----------------------------------------------------------------------------
(* provenance: computed again for a traceback, from the same choice *)

Shown(fields, x) ==
    LET w == WinnerOf(fields, x)
        table == Mapping.enums[Schema[x].enum]
        found == Lookup(table, fields[w].key, fields[w].value)
    IN IF Schema[x].enum = 0 THEN Plain(x, fields[w].value)
       ELSE IF found # Nil THEN found.name ELSE table.other.name

ProvenanceOf(fields) ==
    {[path |-> Schema[x].path, field |-> WinnerOf(fields, x),
      value |-> Shown(fields, x)] :
       x \in {x \in DOMAIN Schema : /\ WinnerOf(fields, x) # 0
                                    /\ Shown(fields, x) # "nil"}}
=============================================================================
