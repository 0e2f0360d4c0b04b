---------------------------- MODULE EntityIndex -----------------------------
(***************************************************************************)
(* The entity index beside the output (crates/ulpf/src/pivot.rs) as data.  *)
(* A posting is one (event, entity) pair with the event's device time and  *)
(* the place of its line; a row packs the postings of one entity in one    *)
(* group of batches.  The counts table is the number of postings of each   *)
(* entity, written in the same transaction.                                *)
(***************************************************************************)
EXTENDS Integers, Sequences, FiniteSets, FiniteSetsExt, SequencesExt

EntitiesOf(postings) == {[kind |-> p.kind, value |-> p.value] :
                           p \in ToSet(postings)}

\* Writer::write: one row per entity, its postings in the order they came.
RowsOf(postings) ==
  {LET own == SelectSeq(postings, LAMBDA p : p.kind = e.kind
                                             /\ p.value = e.value)
       ids == {own[i].id : i \in DOMAIN own}
   IN  [kind |-> e.kind, value |-> e.value, first |-> Min(ids),
        last |-> Max(ids), blob |-> own] : e \in EntitiesOf(postings)}

\* max_span: the widest row of the group.
SpanOf(rows) == IF rows = {} THEN 0 ELSE Max({r.last - r.first : r \in rows})

RowsFor(rows, e) == {r \in rows : r.kind = e.kind /\ r.value = e.value}

PostingsIn(rows) == UNION {ToSet(r.blob) : r \in rows}

Before(a, b) == a.time < b.time \/ (a.time = b.time /\ a.id < b.id)

\* Mutant: the cursor is the time alone.
PastByTime(p, cursor) == cursor = << >> \/ p.time < cursor[1].time

\* Strictly past the cursor, the (time, id) of the last event shown.
Past(p, cursor) == cursor = << >> \/ Before(p, cursor[1])

\* walk, newest first: rows by descending first id, until `candidates` wanted
\* postings and `window` postings of any kind were read.
Scanned(rows, cursor, limit, window) ==
  LET order == SetToSortSeq(rows, LAMBDA a, b : a.first > b.first)
      want(n) == Cardinality({p \in PostingsIn({order[i] : i \in 1 .. n}) :
                                Past(p, cursor)})
      read(n) == Cardinality(PostingsIn({order[i] : i \in 1 .. n}))
      stops == {n \in DOMAIN order : want(n) >= 4 * limit /\ read(n) >= window}
      last == IF stops = {} THEN Len(order) ELSE Min(stops)
  IN  PostingsIn({order[i] : i \in 1 .. last})

\* One page of an entity's timeline.
Page(rows, cursor, limit, window) ==
  LET all == SetToSortSeq({p \in Scanned(rows, cursor, limit, window) :
                             Past(p, cursor)}, LAMBDA a, b : Before(b, a))
  IN  SubSeq(all, 1, IF Len(all) < limit THEN Len(all) ELSE limit)

\* The pages a client gets by following next_before, which a full page has;
\* fuel bounds the number of pages.
Timeline(rows, limit, window, fuel) ==
  LET t[f \in 0 .. fuel, cursor \in {<< >>} \cup
                                    {<<p>> : p \in PostingsIn(rows)}] ==
        LET page == Page(rows, cursor, limit, window)
        IN  IF Len(page) < limit \/ f = 0 THEN page
            ELSE page \o t[f - 1, <<Last(page)>>]
  IN  t[fuel, << >>]

\* The lowest first id a row with a posting in the window can have.
Floor(lo, span) == IF lo > span THEN lo - span ELSE 0

\* related: how often each value of another kind occurs in the events `ids`.
Related(rows, kind, ids, span) ==
  LET read == {r \in rows : r.kind = kind /\ r.first >= Floor(Min(ids), span)
                                          /\ r.first <= Max(ids)}
      hits(v) == {p \in PostingsIn({r \in read : r.value = v}) : p.id \in ids}
  IN  {[value |-> v, n |-> Cardinality(hits(v))] :
         v \in {r.value : r \in {q \in read : hits(q.value) # {}}}}
=============================================================================
