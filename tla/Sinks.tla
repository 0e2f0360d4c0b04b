------------------------------- MODULE Sinks --------------------------------
(***************************************************************************)
(* The output thread and everything it feeds (output_thread in             *)
(* crates/ulpf/src/engine.rs): the output file behind its buffer, the tail *)
(* ring and its stream clients (server.rs), the entity index behind its    *)
(* own thread (pivot.rs), the Parquet files (sink.rs, ulpf-parquet), over  *)
(* clean stops, kills and the recovery that follows them.                  *)
(*                                                                         *)
(* Batches reach the output thread in sequence order (module Engine), here *)
(* from one producer, so in raw id order too.  The parser files may change *)
(* between two lives of the process, and with them a line's length.        *)
(***************************************************************************)
EXTENDS OutFile, TailRing, EntityIndex

CONSTANTS
  EventTime,     \* EventTime[id]: the device time of a record
  EventValue,    \* EventValue[id]: the entities of a record, a set
  LineLength,    \* LineLength[life][id]: bytes of its line in that life
  RingCapacity, QueueCap, TailPerTick, Initial, RollRows, RelatedWindow,
  Limits,        \* page sizes a client asks for
  MaxBatch, MaxLives, MaxKills, MaxFaults

Ids == DOMAIN EventTime
MaxRecords == Cardinality(Ids)

ASSUME SinksAssumption ==
  /\ Ids = 0 .. MaxRecords - 1 /\ DOMAIN EventValue = Ids
  /\ {RingCapacity, QueueCap, TailPerTick, Initial, RollRows, RelatedWindow,
      MaxBatch} \subseteq Nat \ {0}
  /\ {MaxLives, MaxKills, MaxFaults} \subseteq Nat
  /\ Limits \subseteq Nat \ {0}

VARIABLES
  stored,    \* records 0 .. stored - 1 are in the store
  main,      \* "down", "truncate", "plan", "recover", "ingest", "closing"
  todo,      \* first record the recovery has not sent, and the last one
  queue,     \* batches on their way to the output thread
  file, torn, buf,   \* whole lines on disk, a torn line after them, unflushed
  pos,       \* the offset of the next line, NoPos before the first write
  ring,
  index,     \* the index at its path: exists, rows, span, total
  linked,    \* the writer has the index at the path open, not an unlinked one
  pivot,     \* "none", "open", or "done"
  pq,        \* the writer's queue: sequences of postings
  client,    \* a stream client, NoClient when there is none
  sink,      \* the Parquet sink: on, file number, rows in it
  parts,     \* parts[n]: rows of the complete Parquet file n, or NoFile
  life, kills, faults,
  due, spoiled, moved   \* history: see Kill, PivotWrite and Move

mv == <<stored, main, todo, queue>>
ov == <<file, torn, buf, pos, ring>>
xv == <<index, linked, pivot, pq>>
sv == <<sink, parts, moved>>
bv == <<life, kills, faults, due, spoiled>>
vars == <<mv, ov, xv, client, sv, bv>>

NoPos == -1
NoIndex == [exists |-> FALSE, rows |-> {}, span |-> 0, total |-> 0]
NoClient == [at |-> "none"]
NoSink == [on |-> FALSE, seq |-> 0, rows |-> << >>]
NoFile == <<-1>>
FileNumbers == 0 .. MaxRecords

Init ==
  /\ stored = 0 /\ main = "down" /\ todo = [next |-> 0, total |-> 0]
  /\ queue = << >> /\ file = << >> /\ torn = FALSE /\ buf = << >>
  /\ pos = NoPos /\ ring = << >>
  /\ index = NoIndex /\ linked = FALSE /\ pivot = "none" /\ pq = << >>
  /\ client = NoClient /\ sink = NoSink
  /\ parts = [n \in FileNumbers |-> NoFile]
  /\ life = 0 /\ kills = 0 /\ faults = 0
  /\ due = FALSE /\ spoiled = FALSE /\ moved = FALSE
-----------------------------------------------------------------------------
(* The thread that recovers the output and then ingests.                   *)

\* Sink::open: a file of an earlier run is never written over.
OpenedSink == [NoSink EXCEPT !.on = parts[0] = NoFile]

Open ==
  /\ main = "down" /\ life < MaxLives /\ life' = life + 1
  /\ main' = IF torn THEN "truncate" ELSE "plan"
  /\ pos' = NoPos /\ ring' = << >> /\ pivot' = "none" /\ linked' = FALSE
  /\ sink' = OpenedSink
  /\ UNCHANGED <<stored, todo, queue, file, torn, buf, index, pq, client,
                 parts, moved, kills, faults, due, spoiled>>

\* drop_stale_pivot: an open writer goes on writing to the unlinked file.
DropStale ==
  /\ index' = NoIndex /\ linked' = FALSE

Truncate ==
  /\ main = "truncate" /\ main' = "plan" /\ torn' = FALSE /\ DropStale
  /\ UNCHANGED <<stored, todo, queue, file, buf, pos, ring, pivot, pq, client,
                 sv, bv>>

Plan ==
  /\ main = "plan"
  /\ LET first == IF file = << >> THEN 0 ELSE Last(file).id + 1
     IN  IF first >= stored THEN main' = "ingest" /\ UNCHANGED todo
         ELSE main' = "recover" /\ todo' = [next |-> first, total |-> stored]
  /\ UNCHANGED <<stored, queue, ov, xv, client, sv, bv>>

Batch(first, n) == [first |-> first, n |-> n]

RecoverBatch ==
  /\ main = "recover" /\ todo.next < todo.total /\ Len(queue) < QueueCap
  /\ LET left == todo.total - todo.next
         n == IF left < MaxBatch THEN left ELSE MaxBatch
     IN  /\ queue' = Append(queue, Batch(todo.next, n))
         /\ todo' = [todo EXCEPT !.next = @ + n]
  /\ due' = TRUE
  /\ UNCHANGED <<stored, main, ov, xv, client, sv, life, kills, faults,
                 spoiled>>

\* Mutant: the index is kept.
RecoverEndKeeps ==
  /\ main = "recover" /\ todo.next = todo.total /\ main' = "ingest"
  /\ due' = FALSE
  /\ UNCHANGED <<stored, todo, queue, ov, xv, client, sv, life, kills, faults,
                 spoiled>>

RecoverEnd ==
  /\ main = "recover" /\ todo.next = todo.total /\ main' = "ingest"
  /\ DropStale /\ due' = FALSE
  /\ UNCHANGED <<stored, todo, queue, ov, pivot, pq, client, sv, life, kills,
                 faults, spoiled>>

Ingest(n) ==
  /\ main = "ingest" /\ Len(queue) < QueueCap /\ stored + n <= MaxRecords
  /\ stored' = stored + n /\ queue' = Append(queue, Batch(stored, n))
  /\ UNCHANGED <<main, todo, ov, xv, client, sv, bv>>

Stop ==
  /\ main = "ingest" /\ main' = "closing"
  /\ UNCHANGED <<stored, todo, queue, ov, xv, client, sv, bv>>
-----------------------------------------------------------------------------
(* The output thread.                                                      *)

\* PivotWriter::start, once, before the first batch.
PivotOpen ==
  /\ main # "down" /\ pivot = "none" /\ pivot' = "open"
  /\ index' = [index EXCEPT !.exists = TRUE] /\ linked' = TRUE
  /\ UNCHANGED <<mv, ov, pq, client, sv, bv>>

LinesOf(b) ==
  [i \in 1 .. b.n |-> [id |-> b.first + i - 1,
                       len |-> LineLength[life][b.first + i - 1]]]

\* One posting per entity of an event, with the place of its line.
PostingsOf(lines, at) ==
  FlattenSeq([i \in DOMAIN lines |->
    SetToSeq({[id |-> lines[i].id, time |-> EventTime[lines[i].id],
               kind |-> e.kind, value |-> e.value,
               off |-> at + StartOfLine(lines, i), len |-> lines[i].len] :
                e \in EventValue[lines[i].id]})])

\* The offset of the next line: the file's length at the first write, counted
\* from then on.
Offset == IF pos = NoPos THEN Size(file) + (IF torn THEN 1 ELSE 0) ELSE pos

\* Mutant: rolling begins a new file with the rows of the old one.
RolledOver(rows) == rows

\* The rows the next file begins with.
Rolled(rows) == << >>

\* Sink::push and Sink::end_batch: roll by rows, or because time passed.
FeedSink(rows) ==
  LET all == sink.rows \o rows
  IN  \/ ~sink.on /\ UNCHANGED <<sink, parts, faults>>
      \/ /\ sink.on /\ Len(all) < RollRows
         /\ sink' = [sink EXCEPT !.rows = all] /\ UNCHANGED <<parts, faults>>
      \/ /\ sink.on
         /\ parts' = [parts EXCEPT ![sink.seq] = all]
         /\ sink' = [sink EXCEPT !.seq = @ + 1, !.rows = Rolled(all)]
         /\ UNCHANGED faults
      \/ /\ sink.on /\ faults < MaxFaults /\ faults' = faults + 1
         /\ sink' = NoSink /\ UNCHANGED parts

\* One batch: the buffered file, the index's queue (which may block), the
\* Parquet sink, the ring.
WriteBatch ==
  /\ queue # << >> /\ pivot = "open" /\ Len(pq) < QueueCap
  /\ LET b == Head(queue)
         lines == LinesOf(b)
         posts == PostingsOf(lines, Offset)
     IN  /\ buf' = buf \o lines
         /\ pq' = IF posts = << >> THEN pq ELSE Append(pq, posts)
         /\ pos' = Offset + Size(lines)
         /\ FeedSink([i \in 1 .. b.n |-> b.first + i - 1])
         /\ ring' = PushBatch(ring, RingCapacity, b.first, b.n)
  /\ queue' = Tail(queue)
  /\ UNCHANGED <<stored, main, todo, file, torn, index, linked, pivot, client,
                 moved, life, kills, due, spoiled>>

\* At least every half second, and when the buffer is full.
Flush ==
  /\ main # "down" /\ buf # << >> /\ file' = file \o buf /\ buf' = << >>
  /\ UNCHANGED <<mv, torn, pos, ring, xv, client, sv, bv>>

\* The last flush, the index's thread joined, the Parquet footer.
OutputDone ==
  /\ main = "closing" /\ queue = << >> /\ pivot = "open" /\ pq = << >>
  /\ file' = file \o buf /\ buf' = << >>
  /\ parts' = IF sink.on THEN [parts EXCEPT ![sink.seq] = sink.rows]
              ELSE parts
  /\ main' = "down" /\ pivot' = "none" /\ client' = NoClient
  /\ ring' = << >> /\ sink' = NoSink
  /\ UNCHANGED <<stored, todo, queue, torn, pos, index, linked, pq, moved, bv>>
-----------------------------------------------------------------------------
(* The index's thread: everything queued is one transaction.               *)

PivotWrite ==
  /\ pq # << >> /\ pq' = << >>
  /\ LET posts == FlattenSeq(pq)
         rows == RowsOf(posts)
     IN  \/ /\ index' = IF ~linked THEN index
                        ELSE [index EXCEPT
                                !.rows = @ \cup rows, !.total = @ + Len(posts),
                                !.span = Max({@, SpanOf(rows)})]
            /\ UNCHANGED faults
         \/ /\ faults < MaxFaults /\ faults' = faults + 1 /\ UNCHANGED index
  /\ UNCHANGED <<mv, ov, linked, pivot, client, sv, life, kills, due, spoiled>>
-----------------------------------------------------------------------------
(* Stream clients (server.rs): a greeting, then a frame per tick.          *)

Hello ==
  /\ main # "down" /\ client = NoClient
  /\ LET f == Since(ring, NoPosition, Initial)
     IN  client' = [at |-> "on", base |-> f.latest, last |-> f.latest, n |-> 0]
  /\ UNCHANGED <<mv, ov, xv, sv, bv>>

ClientTick ==
  /\ main # "down" /\ client # NoClient
  /\ LET f == Since(ring, client.last, TailPerTick)
     IN  /\ f.events # << >>
         /\ client' = [client EXCEPT !.last = f.latest,
                                     !.n = @ + Len(f.events) + f.skipped]
  /\ UNCHANGED <<mv, ov, xv, sv, bv>>
-----------------------------------------------------------------------------
\* A kill: some of the buffer may have reached the disk.  A kill between the
\* first recovered batch and the drop of the index is remembered.
Kill ==
  /\ main # "down" /\ kills < MaxKills /\ kills' = kills + 1
  /\ \E k \in 0 .. Len(buf) :
       /\ file' = file \o SubSeq(buf, 1, k)
       /\ torn' \in IF k < Len(buf) THEN {FALSE, TRUE} ELSE {torn}
  /\ buf' = << >> /\ queue' = << >> /\ pq' = << >> /\ ring' = << >>
  /\ main' = "down" /\ pivot' = "none" /\ client' = NoClient
  /\ sink' = NoSink /\ spoiled' = (spoiled \/ due) /\ due' = FALSE
  /\ UNCHANGED <<stored, todo, pos, index, linked, parts, moved, life, faults>>

\* The operator moves the first Parquet file away, as the refusal suggests.
Move ==
  /\ main = "down" /\ parts[0] # NoFile /\ ~moved /\ moved' = TRUE
  /\ parts' = [parts EXCEPT ![0] = NoFile]
  /\ UNCHANGED <<mv, ov, xv, client, sink, bv>>
-----------------------------------------------------------------------------
Output == PivotOpen \/ WriteBatch \/ Flush \/ OutputDone

Next ==
  \/ Open \/ Truncate \/ Plan \/ RecoverBatch \/ RecoverEnd \/ Stop
  \/ \E n \in 1 .. MaxBatch : Ingest(n)
  \/ Output \/ PivotWrite \/ Hello \/ ClientTick \/ Kill \/ Move

Spec == Init /\ [][Next]_vars
-----------------------------------------------------------------------------
Lines == [id : Ids, len : Nat]

\* The types and the bounds of the queues and of the ring; and the output's
\* lines, written and buffered, have consecutive ids.
TypeOK ==
  /\ stored \in 0 .. MaxRecords
  /\ main \in {"down", "truncate", "plan", "recover", "ingest", "closing"}
  /\ Len(queue) <= QueueCap /\ Len(pq) <= QueueCap
  /\ file \in Seq(Lines) /\ buf \in Seq(Lines) /\ torn \in BOOLEAN
  /\ Len(ring) <= RingCapacity /\ ToSet(ring) \subseteq Ids
  /\ pos \in Nat \cup {NoPos} /\ pivot \in {"none", "open"}
  /\ \A p \in PostingsIn(index.rows) : p.id \in Ids /\ p.off \in Nat
  /\ \A n \in FileNumbers : parts[n] = NoFile \/ ToSet(parts[n]) \subseteq Ids
  /\ \A i \in 1 .. Len(file \o buf) - 1 :
       (file \o buf)[i + 1].id = (file \o buf)[i].id + 1

\* Once a start's recovery is over, every posting a reader of the index can
\* reach names the line of its event, or a place past the end of the output:
\* although the index is committed ahead of the buffered output, although a
\* torn line is cut away and lines are written again with other lengths
\* (engine.rs, output_thread and drop_stale_pivot).  The kill that strikes
\* between the recovered lines and the drop of the index is excepted.
RowsNameTheirLines ==
  main \in {"ingest", "closing"} /\ ~spoiled =>
    LET all == file \o buf
    IN  \A p \in PostingsIn(index.rows) :
          p.off < Size(all) => \E i \in DOMAIN all :
            /\ all[i].id = p.id /\ all[i].len = p.len
            /\ StartOfLine(all, i) = p.off

\* rebuild: the postings of the output's lines.
Rebuilt == ToSet(PostingsOf(file, 0))

\* After clean stops the index is what a rebuild would make of the output,
\* each posting counted once (pivot.rs, rebuild).
IndexIsWhole ==
  main = "down" /\ kills = 0 /\ faults = 0 =>
    /\ PostingsIn(index.rows) = Rebuilt
    /\ index.total = Cardinality(Rebuilt)

Entities == UNION {EventValue[id] : id \in Ids}

\* Following next_before shows every event of an entity once, newest device
\* time first, as long as the entity has no more events than the window the
\* scan reads at least (pivot.rs, walk).
TimelineIsExact ==
  \A e \in Entities, limit \in Limits :
    LET rows == RowsFor(index.rows, e)
        all == PostingsIn(rows)
    IN  ~spoiled /\ ~due /\ Cardinality(all) <= RelatedWindow =>
          Timeline(rows, limit, RelatedWindow, MaxRecords)
            = SetToSortSeq(all, LAMBDA a, b : Before(b, a))

\* The co-occurrence counts miss no posting row: the widest row ever written
\* bounds how far before the window one can begin (pivot.rs, related).
RelatedIsComplete ==
  \A e \in Entities, k \in {f.kind : f \in Entities} :
    LET ids == {p.id : p \in PostingsIn(RowsFor(index.rows, e))}
        own == {p \in PostingsIn(index.rows) : p.kind = k /\ p.id \in ids}
    IN  ids # {} /\ k # e.kind /\ ~spoiled /\ ~due =>
          Related(index.rows, k, ids, index.span)
            = {[value |-> v, n |-> Cardinality({p \in own : p.value = v})] :
                 v \in {p.value : p \in own}}

\* The binary search finds the line of every id that is on disk, and of no
\* other (outfile.rs, lower_bound and find).
OutputIsSearchable ==
  \A id \in Ids : Find(file, id) =
    IF \E i \in DOMAIN file : file[i].id = id
    THEN CHOOSE l \in ToSet(file) : l.id = id ELSE NoLineAt

\* What a stream client was sent and what it was told it missed add up to the
\* lines emitted since it was greeted, unless there were none by then
\* (tail.rs, since; server.rs, stream).
StreamAccountsForAll ==
  client # NoClient /\ client.base # NoPosition =>
    client.n = client.last - client.base

Complete == SelectSeq([i \in 1 .. MaxRecords + 1 |-> parts[i - 1]],
                      LAMBDA rows : rows # NoFile)

\* Read in the order of their numbers, the complete Parquet files hold a run
\* of events without a hole and none twice, over rolls by rows and by time, a
\* dead sink, kills and starts that find an earlier run's file (sink.rs;
\* ulpf-parquet).
ParquetIsARun ==
  ~moved => LET all == FlattenSeq(Complete)
            IN  \A i \in 1 .. Len(all) - 1 : all[i + 1] = all[i] + 1

\* The types, and what is derived from the output is whole: the entity index
\* after clean stops and the Parquet files at any time (pivot.rs, sink.rs).
SinksSound == TypeOK /\ IndexIsWhole /\ ParquetIsARun

\* A reader is answered exactly: timelines, co-occurrence and lookups by id
\* (pivot.rs, outfile.rs).
QueriesAreExact == TimelineIsExact /\ RelatedIsComplete /\ OutputIsSearchable
=============================================================================
