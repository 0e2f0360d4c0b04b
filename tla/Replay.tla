------------------------------- MODULE Replay -------------------------------
(***************************************************************************)
(* Replays and output versions (crates/ulpf/src/replay.rs, start_replay    *)
(* and replay_diff in engine.rs, `ulpf replay` in cli.rs).  A replay reads *)
(* the stored records through a bounded snapshot, its workers parse them,  *)
(* the batches are written in order to the next version's file, that file  *)
(* is compared with the newest complete version below it, and the meta     *)
(* file, written last, is what makes the version complete.  Version 1 is   *)
(* the live output, which may grow meanwhile.                              *)
(*                                                                         *)
(* A line is the id of its record and the parse; the parse of a record in  *)
(* Affected depends on the parser files it was made with.  The `cancel`    *)
(* flag of a replay is left out: no caller ever sets it.                   *)
(***************************************************************************)
EXTENDS Integers, Sequences, FiniteSets, SequencesExt

CONSTANTS
  Workers,     \* the replay's worker threads
  BatchSize,   \* events per batch
  Stride,      \* DIFF_INDEX_STRIDE
  FileSets,    \* contents the parsers and mappings directories may have
  Affected,    \* ids of the records whose parse depends on them
  Unreadable,  \* sets of ids the store may turn out not to be able to read
  Limits,      \* page sizes a client asks for
  Asked,       \* versions whose diff it pages through
  MaxRecords, MaxVersion, MaxReloads,
  MaxFaults    \* bound: kills and failures together

ASSUME ReplayAssumption ==
  /\ {BatchSize, Stride} \subseteq Nat \ {0} /\ IsFiniteSet(Workers)
  /\ Workers # {} /\ FileSets # {} /\ Limits \subseteq Nat \ {0}
  /\ {MaxRecords, MaxReloads, MaxFaults} \subseteq Nat
  /\ MaxVersion \in Nat \ {0}

VARIABLES
  stored,   \* records 0 .. stored - 1 are in the store
  bad,      \* the ones that cannot be read
  files,    \* the parser files of the live pipeline
  live,     \* "off", "serve", or "cli": a replay from the command line
  exists,   \* the versions that have a file
  out,      \* out[v]: the whole lines of v on disk
  torn,     \* what kind of cut line v1 ends in
  meta,     \* meta[v]: the meta file, NoMeta when there is none
  diff,     \* diff[v]: the entries of its diff file
  seen,     \* seen[v]: how many of them are on disk, or NoDiff
  index,    \* index[v]: entries there when it was indexed, or NoIndex
  slot,     \* "free", "running", or "lost": its thread could not be made
  job,      \* the replay under way, NoJob when there is none
  rd,       \* its reader thread: next id to read, and its state
  wk,       \* wk[w]: the batch worker w holds, Idle, Gone or Panicked
  batches, outs,        \* the two channels
  pend, nxt, buf,       \* reorder buffer, its next batch, unflushed lines
  cur,      \* the comparison: current line of each side, if it has one
  reloads, faults

lv  == <<stored, bad, files, live>>
fv  == <<exists, out, torn, meta, diff, seen, index>>
tv  == <<rd, wk, batches, outs, pend, nxt, buf>>
bv  == <<reloads, faults>>
vars == <<lv, fv, slot, job, tv, cur, bv>>

Versions == 1 .. MaxVersion
NoMeta == [complete |-> FALSE]
NoIndex == -1
NoDiff == -1
NoId == -1
NoJob == [at |-> "none"]
Idle == [first |-> -1]
Gone == [first |-> -2]
Panicked == [first |-> -3]
NoLine == [id |-> NoId, text |-> "none"]
NoCur == [oi |-> 0, old |-> NoLine, ho |-> FALSE,
          ni |-> 0, new |-> NoLine, hn |-> FALSE]

Line(id, set) ==
  [id |-> id, text |-> IF id \in Affected THEN set ELSE "same"]

Lines(b, set) == [i \in 1 .. b.n |-> Line(b.first + i - 1, set)]

Init ==
  /\ stored = 0 /\ bad \in Unreadable
  /\ files = CHOOSE s \in FileSets : TRUE
  /\ live = "off"
  /\ exists = {} /\ torn = "no"
  /\ out = [v \in Versions |-> << >>]
  /\ meta = [v \in Versions |-> NoMeta]
  /\ diff = [v \in Versions |-> << >>]
  /\ seen = [v \in Versions |-> NoDiff]
  /\ index = [v \in Versions |-> NoIndex]
  /\ slot = "free" /\ job = NoJob
  /\ rd = [id |-> 0, at |-> "done"] /\ wk = [w \in Workers |-> Gone]
  /\ batches = << >> /\ outs = << >> /\ pend = {} /\ nxt = 0 /\ buf = << >>
  /\ cur = NoCur /\ reloads = 0 /\ faults = 0
-----------------------------------------------------------------------------
(* The live engine, as far as a replay sees it.                            *)

\* `serve` opens: the torn line goes, and what the store holds beyond the
\* output will be emitted (module Engine, Recover).
Open ==
  /\ live = "off" /\ live' = "serve" /\ exists' = exists \cup {1}
  /\ torn' = "no"
  /\ UNCHANGED <<stored, bad, files, out, meta, diff, seen, index, slot, job,
                 tv, cur, bv>>

Store ==
  /\ live = "serve" /\ stored < MaxRecords /\ stored' = stored + 1
  /\ UNCHANGED <<bad, files, live, fv, slot, job, tv, cur, bv>>

\* A flush of the output: the events up to some record reach the disk.
EmitLive ==
  /\ live = "serve" /\ Len(out[1]) < stored
  /\ out' = [out EXCEPT ![1] = Append(@, Line(Len(@), files))]
  /\ UNCHANGED <<lv, exists, torn, meta, diff, seen, index, slot, job, tv,
                 cur, bv>>

Reload ==
  /\ live = "serve" /\ reloads < MaxReloads /\ reloads' = reloads + 1
  /\ files' \in FileSets \ {files}
  /\ UNCHANGED <<stored, bad, live, fv, slot, job, tv, cur, faults>>

\* The process dies: threads, buffers, the slot and the cached indexes go.
\* The last line of the live output may be cut.
Kill ==
  /\ live # "off" /\ faults < MaxFaults /\ faults' = faults + 1
  /\ live' = "off" /\ slot' = "free" /\ job' = NoJob /\ cur' = NoCur
  /\ torn' \in IF live = "serve" /\ Len(out[1]) \in 1 .. stored - 1
               THEN {"no", "noid", "short", "cut"} ELSE {torn}
  /\ rd' = [id |-> 0, at |-> "done"] /\ wk' = [w \in Workers |-> Gone]
  /\ batches' = << >> /\ outs' = << >> /\ pend' = {} /\ nxt' = 0
  /\ buf' = << >> /\ index' = [v \in Versions |-> NoIndex]
  /\ UNCHANGED <<stored, bad, files, exists, out, meta, diff, seen, reloads>>
-----------------------------------------------------------------------------
(* Versions.                                                               *)

HasMeta(v) == meta[v] # NoMeta

Taken(v) == v \in exists \/ (v \in Versions /\ HasMeta(v))

\* Versions::next.
NextVersion == CHOOSE v \in 2 .. MaxVersion + 1 :
                 ~Taken(v) /\ \A u \in 2 .. v - 1 : Taken(u)

Comparable(v) == v \in exists /\ (v = 1 \/ meta[v].complete)

\* Versions::previous_of, 0 for none.
PreviousOf(version) ==
  LET c == {v \in 1 .. version - 1 : Comparable(v)}
  IN  IF c = {} THEN 0 ELSE CHOOSE v \in c : \A u \in c : u <= v
-----------------------------------------------------------------------------
(* Starting a replay.  The version is chosen before its file is made.      *)

NewJob ==
  [at |-> "create", version |-> NextVersion, total |-> stored,
   set |-> files, prev |-> 0, torn |-> FALSE]

\* Live::start_replay.  When the thread cannot be made the slot stays taken.
StartReplay ==
  /\ live = "serve" /\ slot = "free" /\ NextVersion <= MaxVersion
  /\ \/ slot' = "running" /\ job' = NewJob /\ UNCHANGED faults
     \/ /\ faults < MaxFaults /\ faults' = faults + 1
        /\ slot' = "lost" /\ UNCHANGED job
  /\ UNCHANGED <<lv, fv, tv, cur, reloads>>

\* `ulpf replay`: refused while a `serve` holds the store.
CliReplay ==
  /\ live = "off" /\ NextVersion <= MaxVersion
  /\ live' = "cli" /\ job' = NewJob
  /\ UNCHANGED <<stored, bad, files, fv, slot, tv, cur, bv>>

\* run returned: the slot is freed, or the command ends.
Returned ==
  /\ job' = NoJob /\ cur' = NoCur
  /\ slot' = IF live = "serve" THEN "free" ELSE slot
  /\ live' = IF live = "cli" THEN "off" ELSE live

Create ==
  /\ job.at = "create"
  /\ job' = [job EXCEPT !.at = "run"]
  /\ exists' = exists \cup {job.version}
  /\ out' = [out EXCEPT ![job.version] = << >>]
  /\ rd' = [id |-> 0, at |-> "reading"] /\ wk' = [w \in Workers |-> Idle]
  /\ batches' = << >> /\ outs' = << >> /\ pend' = {} /\ nxt' = 0
  /\ buf' = << >>
  /\ UNCHANGED <<lv, torn, meta, diff, seen, index, slot, cur, bv>>

\* A file that cannot be created, opened, written or renamed.
StageFails ==
  /\ job.at \in {"create", "compare", "diff", "meta"}
  /\ faults < MaxFaults /\ faults' = faults + 1
  /\ Returned
  /\ UNCHANGED <<stored, bad, files, fv, tv, reloads>>
-----------------------------------------------------------------------------
(* The reader thread.                                                      *)

Ended(w) == wk[w] \in {Gone, Panicked}

BatchAt(id) ==
  LET left == job.total - id
  IN  [seq |-> id \div BatchSize, first |-> id,
       n |-> IF left < BatchSize THEN left ELSE BatchSize]

Readable(b) == \A i \in b.first .. b.first + b.n - 1 : i \notin bad

\* The workers hold the only receivers: the starting thread dropped its own.
Disconnected == \A w \in Workers : Ended(w)

ReaderStep ==
  /\ rd.at = "reading"
  /\ LET b == BatchAt(rd.id)
     IN  \/ /\ rd.id >= job.total
            /\ rd' = [rd EXCEPT !.at = "done"] /\ UNCHANGED batches
         \/ /\ rd.id < job.total /\ ~Readable(b)
            /\ rd' = [rd EXCEPT !.at = "failed"] /\ UNCHANGED batches
         \/ /\ rd.id < job.total /\ Readable(b) /\ Disconnected
            /\ rd' = [rd EXCEPT !.at = "done"] /\ UNCHANGED batches
         \/ /\ rd.id < job.total /\ Readable(b) /\ ~Disconnected
            /\ Len(batches) < 2 * Cardinality(Workers)
            /\ batches' = Append(batches, b)
            /\ rd' = [rd EXCEPT !.id = @ + b.n]
  /\ UNCHANGED <<lv, fv, slot, job, wk, outs, pend, nxt, buf, cur, bv>>
-----------------------------------------------------------------------------
(* The workers.                                                            *)

Holds(w) == wk[w].first >= 0

WorkerStep(w) ==
  /\ \/ /\ wk[w] = Idle /\ batches # << >>
        /\ wk' = [wk EXCEPT ![w] = Head(batches)]
        /\ batches' = Tail(batches) /\ UNCHANGED outs
     \/ /\ wk[w] = Idle /\ batches = << >> /\ rd.at # "reading"
        /\ wk' = [wk EXCEPT ![w] = Gone] /\ UNCHANGED <<batches, outs>>
     \/ /\ Holds(w) /\ job.at = "run"
        /\ Len(outs) < 4 * Cardinality(Workers)
        /\ outs' = Append(outs, wk[w])
        /\ wk' = [wk EXCEPT ![w] = Idle] /\ UNCHANGED batches
     \/ /\ Holds(w) /\ job.at = "failed"
        /\ wk' = [wk EXCEPT ![w] = Gone] /\ UNCHANGED <<batches, outs>>
  /\ UNCHANGED <<lv, fv, slot, job, rd, pend, nxt, buf, cur, bv>>

Panic(w) ==
  /\ Holds(w) /\ faults < MaxFaults /\ faults' = faults + 1
  /\ wk' = [wk EXCEPT ![w] = Panicked]
  /\ UNCHANGED <<lv, fv, slot, job, rd, batches, outs, pend, nxt, buf, cur,
                 reloads>>
-----------------------------------------------------------------------------
(* The thread that writes: batches in sequence order, through a BufWriter  *)
(* that empties itself when a batch does not fit.                          *)

\* The batches that are next in turn, up to the first that is missing.
InSequence(p) ==
  LET there == {b.seq : b \in p}
      gap == Min({s \in nxt .. nxt + job.total : s \notin there})
  IN  [i \in 1 .. gap - nxt |-> CHOOSE b \in p : b.seq = nxt + i - 1]

Receive ==
  /\ job.at = "run" /\ outs # << >> /\ outs' = Tail(outs)
  /\ LET p == pend \cup {Head(outs)}
         turn == InSequence(p)
         new == FlattenSeq([i \in 1 .. Len(turn) |-> Lines(turn[i], job.set)])
     IN  /\ pend' = p \ ToSet(turn) /\ nxt' = nxt + Len(turn)
         /\ \/ buf' = buf \o new /\ UNCHANGED out
            \/ /\ new # << >> /\ buf # << >> /\ buf' = new
               /\ out' = [out EXCEPT ![job.version] = @ \o buf]
  /\ UNCHANGED <<lv, exists, torn, meta, diff, seen, index, slot, job, rd,
                 wk, batches, cur, bv>>

\* A write or the last flush fails: the receiver is dropped, which ends the
\* workers, which ends the reader.
WriteFails ==
  /\ job.at = "run" /\ faults < MaxFaults /\ faults' = faults + 1
  /\ outs # << >> \/ \A w \in Workers : Ended(w)
  /\ job' = [job EXCEPT !.at = "failed"]
  /\ outs' = << >> /\ pend' = {} /\ buf' = << >>
  /\ UNCHANGED <<lv, fv, slot, rd, wk, batches, nxt, cur, reloads>>

Joined == rd.at # "reading" /\ \A w \in Workers : Ended(w)

FailedReturns ==
  /\ job.at = "failed" /\ Joined /\ Returned
  /\ UNCHANGED <<stored, bad, files, fv, tv, bv>>

\* Mutant: the receiver waits until every batch has been written.
ClosedWhenAllWritten ==
  outs = << >> /\ Joined /\ nxt * BatchSize >= job.total

\* Every worker dropped its sender, and so did the starting thread.
Closed == outs = << >> /\ Joined

\* Mutant: only the workers' panics are looked at.
SoundWorkers == \A w \in Workers : wk[w] # Panicked

Sound == rd.at # "failed" /\ \A w \in Workers : wk[w] # Panicked

Drained ==
  /\ job.at = "run" /\ Closed
  /\ out' = [out EXCEPT ![job.version] = @ \o buf] /\ buf' = << >>
  /\ IF Sound THEN job' = [job EXCEPT !.at = "compare"]
                   /\ UNCHANGED <<slot, live, cur>>
     ELSE Returned
  /\ UNCHANGED <<stored, bad, files, exists, torn, meta, diff, seen, index,
                 rd, wk, batches, outs, pend, nxt, bv>>
-----------------------------------------------------------------------------
(* The comparison: both files are read in step, by raw id.                 *)

\* The line a kill cut: without its id, with some of the id's digits only, or
\* with the id and no end.
TornLine ==
  [id |-> CASE torn = "noid" -> NoId [] torn = "short" -> 0
            [] OTHER -> Len(out[1]),
   text |-> "torn"]

ReadableLines(v) ==
  IF v = 1 /\ torn # "no" THEN Append(out[1], TornLine) ELSE out[v]

LineAt(s, i) == IF i \in DOMAIN s THEN s[i] ELSE NoLine

ReadOld(c, p) ==
  LET s == ReadableLines(p)
  IN  [c EXCEPT !.oi = @ + 1, !.old = LineAt(s, c.oi + 1),
                !.ho = c.oi + 1 \in DOMAIN s]

ReadNew(c) ==
  LET s == out[job.version]
  IN  [c EXCEPT !.ni = @ + 1, !.new = LineAt(s, c.ni + 1),
                !.hn = c.ni + 1 \in DOMAIN s]

\* previous_of, then diff opens the three files and reads a line of two.
Compare ==
  /\ job.at = "compare"
  /\ LET p == PreviousOf(job.version)
     IN  IF p = 0 THEN /\ job' = [job EXCEPT !.at = "meta"]
                       /\ UNCHANGED <<cur, diff, seen>>
         ELSE /\ job' = [job EXCEPT !.at = "diff", !.prev = p,
                                    !.torn = (p = 1 /\ torn # "no")]
              /\ diff' = [diff EXCEPT ![job.version] = << >>]
              /\ seen' = [seen EXCEPT ![job.version] = 0]
              /\ cur' = ReadNew(ReadOld(NoCur, p))
  /\ UNCHANGED <<lv, exists, out, torn, meta, index, slot, tv, bv>>

\* Mutant: what one file has beyond the end of the other is passed over.
StepOfShorter(c) ==
  LET o == c.old.id  n == c.new.id
  IN  IF o = n /\ o # NoId
      THEN <<IF c.old = c.new THEN "unchanged" ELSE "changed", TRUE, TRUE>>
      ELSE IF o = NoId \/ n = NoId THEN <<"skip", c.ho, c.hn>>
      ELSE IF o < n THEN <<"only_in_old", TRUE, FALSE>>
      ELSE <<"only_in_new", FALSE, TRUE>>

\* One turn of the loop: what is found, and which sides are read on.  A line
\* without an id is passed over; the end of a file has no id either.
StepOf(c) ==
  LET o == c.old.id  n == c.new.id
      noOld == c.ho /\ o = NoId  noNew == c.hn /\ n = NoId
  IN  IF o = n /\ o # NoId
      THEN <<IF c.old = c.new THEN "unchanged" ELSE "changed", TRUE, TRUE>>
      ELSE IF noOld \/ noNew THEN <<"skip", noOld, noNew>>
      ELSE IF o # NoId /\ (n = NoId \/ o < n)
      THEN <<"only_in_old", TRUE, FALSE>>
      ELSE <<"only_in_new", FALSE, TRUE>>

DiffStep ==
  /\ job.at = "diff" /\ (cur.ho \/ cur.hn)
  /\ LET s == StepOf(cur)
         v == job.version
         id == IF s[1] = "only_in_new" THEN cur.new.id ELSE cur.old.id
         c == IF s[2] THEN ReadOld(cur, job.prev) ELSE cur
     IN  /\ cur' = IF s[3] THEN ReadNew(c) ELSE c
         /\ IF s[1] \in {"unchanged", "skip"} THEN UNCHANGED <<diff, seen>>
            ELSE /\ diff' = [diff EXCEPT ![v] =
                               Append(@, [id |-> id, kind |-> s[1]])]
                 /\ \E n \in {seen[v], Len(diff[v])} :
                      seen' = [seen EXCEPT ![v] = n]
  /\ UNCHANGED <<lv, exists, out, torn, meta, index, slot, job, tv, bv>>

DiffEnd ==
  /\ job.at = "diff" /\ ~cur.ho /\ ~cur.hn
  /\ seen' = [seen EXCEPT ![job.version] = Len(diff[job.version])]
  /\ job' = [job EXCEPT !.at = "meta"]
  /\ UNCHANGED <<lv, exists, out, torn, meta, diff, index, slot, tv, cur, bv>>

\* write_meta, renamed into place, and run's return.  `read` and `torn` are
\* history: the whole lines the comparison read of the older version, and
\* whether a cut line followed them.
WriteMeta ==
  /\ job.at = "meta"
  /\ meta' = [meta EXCEPT ![job.version] =
                [complete |-> TRUE, events |-> job.total, set |-> job.set,
                 prev |-> job.prev, torn |-> job.torn,
                 read |-> IF job.prev = 0 THEN 0
                          ELSE cur.oi - 1 - (IF job.torn THEN 1 ELSE 0)]]
  /\ Returned
  /\ UNCHANGED <<stored, bad, files, exists, out, torn, diff, seen, index, tv,
                 bv>>
-----------------------------------------------------------------------------
(* Pages of a diff.                                                        *)

\* Live::replay_diff: the first request indexes what is on disk by then, and
\* the index is kept.
IndexDiff(v) ==
  /\ live = "serve" /\ v \in Asked
  /\ seen[v] # NoDiff /\ index[v] = NoIndex
  /\ index' = [index EXCEPT ![v] = seen[v]]
  /\ UNCHANGED <<lv, exists, out, torn, meta, diff, seen, slot, job, tv, cur,
                 bv>>

\* The last indexed entry at or below `after`, of an index of n entries.
StartOf(entries, n, after) ==
  LET s == {i \in 1 .. n : i % Stride = 1 % Stride /\ entries[i].id <= after}
  IN  IF s = {} THEN 1 ELSE CHOOSE i \in s : \A j \in s : j <= i

\* Mutant: the next page begins after the first entry that did not fit.
NextAfterMore(hits, limit) ==
  IF Len(hits) <= limit THEN NoId ELSE hits[limit + 1].id

NextAfter(hits, limit) ==
  IF Len(hits) <= limit THEN NoId ELSE hits[limit].id

\* page: no `after` is NoId, every kind is "all".
Wanted(e, after, kind) == e.id > after /\ kind \in {"all", e.kind}

Hits(entries, n, after, kind) ==
  LET start == StartOf(entries, n, after)
      h[i \in 0 .. Len(entries)] ==
        IF i < start THEN << >>
        ELSE IF Wanted(entries[i], after, kind)
        THEN Append(h[i - 1], entries[i]) ELSE h[i - 1]
  IN  h[Len(entries)]

\* What a client gets that follows next_after to the end.
Walk(entries, n, limit, kind) ==
  LET w[after \in NoId .. MaxRecords] ==
        LET hits == Hits(entries, n, after, kind)
            next == NextAfter(hits, limit)
        IN  IF next = NoId THEN hits ELSE SubSeq(hits, 1, limit) \o w[next]
  IN  w[NoId]
-----------------------------------------------------------------------------
Main == \/ Create \/ Receive \/ FailedReturns \/ Drained \/ Compare
        \/ DiffStep \/ DiffEnd \/ WriteMeta

Next == \/ Open \/ Store \/ EmitLive \/ Reload \/ Kill
        \/ StartReplay \/ CliReplay \/ StageFails \/ WriteFails
        \/ ReaderStep \/ Main
        \/ \E w \in Workers : WorkerStep(w) \/ Panic(w)
        \/ \E v \in Versions : IndexDiff(v)

\* Some thread of a replay that can run does; nothing else is promised.
Fairness ==
  WF_vars(ReaderStep \/ Main \/ \E w \in Workers : WorkerStep(w))

Spec == Init /\ [][Next]_vars

FairSpec == Spec /\ Fairness
-----------------------------------------------------------------------------
Ids == 0 .. MaxRecords - 1
Kinds == {"changed", "only_in_old", "only_in_new"}
LineSet == [id : Ids \cup {NoId},
            text : FileSets \cup {"same", "torn", "none"}]
BatchSet == [seq : Nat, first : Ids, n : 1 .. BatchSize]

\* Types, the channels within their capacities, and no two batches in flight
\* with the same records.
TypeOK ==
  /\ stored \in 0 .. MaxRecords /\ files \in FileSets
  /\ live \in {"off", "serve", "cli"} /\ slot \in {"free", "running", "lost"}
  /\ exists \subseteq Versions /\ torn \in {"no", "noid", "short", "cut"}
  /\ \A v \in Versions :
       /\ \A i \in DOMAIN out[v] : out[v][i] \in LineSet
       /\ \A i \in DOMAIN diff[v] : diff[v][i] \in [id : Ids, kind : Kinds]
       /\ seen[v] \in NoDiff .. Len(diff[v])
       /\ index[v] \in NoIndex .. Len(diff[v])
  /\ batches \in Seq(BatchSet) /\ Len(batches) <= 2 * Cardinality(Workers)
  /\ outs \in Seq(BatchSet) /\ Len(outs) <= 4 * Cardinality(Workers)
  /\ \A w \in Workers : wk[w] \in BatchSet \cup {Idle, Gone, Panicked}
  /\ pend \subseteq BatchSet /\ nxt \in Nat
  /\ cur.old \in LineSet /\ cur.new \in LineSet
  /\ \A v, w \in Workers : v # w /\ Holds(v) => wk[v] # wk[w]

\* A version whose meta file exists holds one line for every record of its
\* snapshot, in order, parsed with the files its meta names: an unreadable
\* record, a full disk, a worker's panic or a kill leave a version without a
\* meta (replay.rs, run).
CompleteIsWhole ==
  \A v \in Versions \ {1} : HasMeta(v) =>
    out[v] = [i \in 1 .. meta[v].events |-> Line(i - 1, meta[v].set)]

IdsOf(lines) == {lines[i].id : i \in DOMAIN lines}

\* The differences of two files as a set of ids.
Differences(old, new) ==
  LET both == IdsOf(old) \cap IdsOf(new)
      entry(id, k) == [id |-> id, kind |-> k]
  IN  {entry(i, "only_in_old") : i \in IdsOf(old) \ both}
        \cup {entry(i, "only_in_new") : i \in IdsOf(new) \ both}
        \cup {entry(i, "changed") : i \in
               {j \in both : \E a \in DOMAIN old, b \in DOMAIN new :
                  old[a].id = j /\ new[b].id = j /\ old[a] # new[b]}}

Previous(v) == SubSeq(out[meta[v].prev], 1, meta[v].read)

HasPrevious(v) == HasMeta(v) /\ meta[v].prev # 0

Ascending(entries) ==
  \A i, j \in DOMAIN entries : i < j => entries[i].id < entries[j].id

\* The diff of a complete version lists exactly the events that differ from
\* the version before it, once each and in id order, although that version
\* may be the live output and grow while it is read (replay.rs, diff).  A
\* previous version that ended in a cut line adds one that is of no event.
DiffIsFaithful ==
  \A v \in Versions \ {1} : HasPrevious(v) /\ ~meta[v].torn =>
    /\ Ascending(diff[v]) /\ seen[v] = Len(diff[v])
    /\ ToSet(diff[v]) = Differences(Previous(v), out[v])

\* Following next_after from the first page yields every entry of a complete
\* diff once, whatever the page size and the kind asked for, also from an
\* index that was made while the diff was being written (engine.rs,
\* replay_diff; replay.rs, page).
PagesAreWhole ==
  \A v \in Versions \ {1} : HasPrevious(v) /\ ~meta[v].torn =>
    \A limit \in Limits, kind \in Kinds \cup {"all"} :
      LET w == Walk(diff[v], IF index[v] = NoIndex THEN seen[v] ELSE index[v],
                    limit, kind)
      IN  /\ Ascending(w)
          /\ ToSet(w) = {e \in ToSet(diff[v]) : kind \in {"all", e.kind}}

\* A complete version is never touched again: no later replay, failed or not,
\* and no restart writes its files (replay.rs, Versions::next).
CompleteStays ==
  [][\A v \in Versions \ {1} : HasMeta(v) =>
       UNCHANGED <<out[v], meta[v], diff[v], seen[v]>>]_vars

\* A replay that runs ends, whichever of its threads fails: it completes, or
\* the slot is freed with an error (replay.rs, run; engine.rs, start_replay).
ReplayEnds == job # NoJob ~> job = NoJob

\* The types, and complete versions are whole (replay.rs, run).
ReplaySound == TypeOK /\ CompleteIsWhole

\* A replay ends, and what is complete by then stays as it is (replay.rs,
\* run and Versions::next).
CompleteOrFreed == CompleteStays /\ ReplayEnds
=============================================================================
