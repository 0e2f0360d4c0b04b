------------------------------ MODULE RawStore ------------------------------
(***************************************************************************)
(* The append-only raw event store (crates/ulpf-store/src/store.rs): the   *)
(* segment raw.seg, the index raw.idx, the writer with its two buffers,    *)
(* crash recovery, and a read-only reader beside the writer.               *)
(*                                                                         *)
(* Granularity.  A file is a sequence of cells and an offset counts cells: *)
(* the file magic is one cell, a record is one header cell followed by one *)
(* cell per unit of payload, an index entry is one cell.  A torn write     *)
(* stops between two cells, or inside an index entry (offset written,      *)
(* chain value not).  SHA-256 is ideal: the digest of a payload is the     *)
(* payload, and a chain value is the sequence of the digests it covers.    *)
(***************************************************************************)
EXTENDS Naturals, Sequences

CONSTANTS
  Data,         \* the values a payload cell can hold
  Zero,         \* what zero_tail writes
  Magic,        \* the file magic of raw.seg
  Payloads,     \* the events offered to append: sequences over Data
  MaxRecords,   \* bound: ids issued
  Batch,        \* events appended under one store lock before the flush
  IdxCap,       \* entries the index BufWriter holds (65536 / 40 = 1638)
  MaxCrashes,   \* bound: process kills and power losses together
  MaxPower,     \* bound: power losses
  MaxFails,     \* bound: failing writes inside append
  StopAtFailure \* TRUE: no producer appends after a failed append (`run`);
                \* FALSE: the other producers of `serve` still do

\* A record header: the record magic with an id, a length and a digest.
Headers == [id : Nat, len : Nat, sum : Payloads]

\* Zeros are neither a header (they lack the record magic) nor a digest.
ASSUME StoreAssumption ==
  /\ Zero \notin Data /\ Magic \notin Data /\ Zero # Magic
  /\ Zero \notin Headers /\ Zero \notin Payloads
  /\ Payloads \subseteq Seq(Data)
  /\ {MaxRecords, MaxCrashes, MaxPower, MaxFails} \subseteq Nat
  /\ {Batch, IdxCap} \subseteq Nat \ {0}
  /\ StopAtFailure \in BOOLEAN

VARIABLES
  seg, idx,       \* the two files as the operating system holds them
  hdr,            \* the index header: "absent", "good" or "zeroed"
  segDur, idxDur, \* leading cells of each that are synced for good: what lies
                  \* behind the records will be written over
  pc,             \* what the process that owns the store is doing
  segBuf, idxBuf, \* the two BufWriters
  segPos, idxPos, \* the two file cursors
  nextId, segLen, head,
  indexed,        \* recover's local: entries the index file's length implies
  inBatch,        \* events appended since the last flush
  failed,         \* an append has returned an error since open
  reader,         \* a RawReader in another process
  log,            \* history: log[n] is the payload of record n - 1
  promised,       \* history: records that must survive: their ids escaped,
                  \* and after power loss they were also synced
  outgrew,        \* history: a batch has outgrown the index's buffer
  kills, powers, fails

fileVars   == <<seg, idx, hdr, segDur, idxDur>>
writerVars == <<segBuf, idxBuf, segPos, idxPos, nextId, segLen, head>>
boundVars  == <<kills, powers, fails, outgrew>>
vars == <<fileVars, pc, writerVars, indexed, inBatch, failed, reader, log,
          promised, boundVars>>
-----------------------------------------------------------------------------
(* Cells, records, entries.                                                *)

Header(id, p) == [id |-> id, len |-> Len(p), sum |-> p]

IsHeader(cell) == cell \in Headers

BadChain == <<Zero>>       \* no digest: a zeroed or half-written chain value

ZeroEntry == [off |-> 0, chain |-> BadChain]

TornEntry(e) == [e EXCEPT !.chain = BadChain]

Genesis == << >>

ChainStep(prev, digest) == Append(prev, digest)

\* write_all at a file cursor: overwrites, then extends.
WriteAt(f, at, cells) ==
  [i \in 1 .. (IF Len(f) > at + Len(cells) THEN Len(f) ELSE at + Len(cells)) |->
     IF i > at /\ i <= at + Len(cells) THEN cells[i - at] ELSE f[i]]

Fill(n, cell) == [i \in 1 .. n |-> cell]

\* The body of the record whose header is at off, and the offset behind it.
RecordEnd(f, off) == off + 1 + f[off + 1].len

Body(f, off) == SubSeq(f, off + 2, RecordEnd(f, off))

\* record_end returns Some: a complete record carrying id is at off.
Complete(f, off, id, checkDigest) ==
  /\ off >= 1 /\ off + 1 <= Len(f)
  /\ IsHeader(f[off + 1]) /\ f[off + 1].id = id
  /\ RecordEnd(f, off) <= Len(f)
  /\ checkDigest => Body(f, off) = f[off + 1].sum

\* The bytes the store hands out for entry n (record n - 1).
Content(n) == Body(seg, idx[n].off)

StoredChain(x, n) == IF n = 0 THEN Genesis ELSE x[n].chain

\* RawReader::check finds nothing wrong with record n - 1: it is there, hashes
\* to its digest, and its chain value follows from its predecessor's.
Checks(f, n) ==
  /\ Complete(f, idx[n].off, n - 1, TRUE)
  /\ idx[n].chain = ChainStep(StoredChain(idx, n - 1), f[idx[n].off + 1].sum)
-----------------------------------------------------------------------------
(* Recovery.                                                               *)

\* The backward loop's test of entry n: the shape and the link, not the bytes.
EntryHolds(n) ==
  /\ Complete(seg, idx[n].off, n - 1, FALSE)
  /\ idx[n].chain = ChainStep(StoredChain(idx, n - 1), seg[idx[n].off + 1].sum)

\* Where the backward loop stops.
LastGoodEntry ==
  CHOOSE n \in 0 .. Len(idx) :
    /\ n = 0 \/ EntryHolds(n)
    /\ \A m \in n + 1 .. Len(idx) : ~EntryHolds(m)

Init ==
  /\ seg = << >> /\ idx = << >> /\ hdr = "absent" /\ segDur = 0 /\ idxDur = 0
  /\ pc = "down"
  /\ segBuf = << >> /\ idxBuf = << >> /\ segPos = 0 /\ idxPos = 0
  /\ nextId = 0 /\ segLen = 0 /\ head = Genesis
  /\ indexed = 0 /\ inBatch = 0 /\ failed = FALSE
  /\ reader = [at |-> "none", idx |-> 0, seg |-> 0, count |-> 0]
  /\ log = << >> /\ promised = 0
  /\ kills = 0 /\ powers = 0 /\ fails = 0 /\ outgrew = FALSE

\* What the next id, the segment's end and the chain head are once the
\* backward loop has stopped at entry n.
StartAt(n) ==
  /\ nextId' = n
  /\ segLen' = IF n = 0 THEN 1 ELSE RecordEnd(seg, idx[n].off)
  /\ head' = StoredChain(idx, n)

\* open and idx_header turn the store away: the segment does not start with
\* its magic, or there are records and no readable index header.
Refused ==
  \/ seg # << >> /\ seg[1] # Magic
  \/ hdr = "zeroed"
  \/ hdr = "absent" /\ Len(seg) > 1

OpenRefused ==
  /\ pc = "down" /\ Refused
  /\ pc' = "refused"
  /\ UNCHANGED <<fileVars, writerVars, indexed, inBatch, failed, reader, log,
                 promised, boundVars>>

\* RawStore::open up to the end of recover's backward loop: the magic of a new
\* segment and a missing index header are written, the index is scanned from
\* its end.
Open ==
  /\ pc = "down" /\ ~Refused
  /\ seg' = IF seg = << >> THEN <<Magic>> ELSE seg
  /\ hdr' = "good"
  /\ StartAt(LastGoodEntry)
  /\ indexed' = Len(idx)
  /\ pc' = "reindex"
  /\ UNCHANGED <<idx, segDur, idxDur, segBuf, idxBuf, segPos, idxPos, inBatch,
                 failed, reader, log, promised, boundVars>>

\* Mutant: the forward loop adopts a record without hashing its bytes.
ReindexUnchecked ==
  /\ pc = "reindex"
  /\ Complete(seg, segLen, nextId, FALSE)
  /\ LET chain == ChainStep(head, seg[segLen + 1].sum) IN
     /\ idx' = WriteAt(idx, nextId, << [off |-> segLen, chain |-> chain] >>)
     /\ head' = chain
  /\ nextId' = nextId + 1
  /\ segLen' = RecordEnd(seg, segLen)
  /\ UNCHANGED <<seg, hdr, segDur, idxDur, pc, segBuf, idxBuf, segPos, idxPos,
                 indexed, inBatch, failed, reader, log, promised, boundVars>>

\* One turn of the forward loop: a complete record behind the last good entry
\* is given its entry again.
Reindex ==
  /\ pc = "reindex"
  /\ Complete(seg, segLen, nextId, nextId >= indexed)
  /\ LET chain == ChainStep(head, seg[segLen + 1].sum) IN
     /\ idx' = WriteAt(idx, nextId, << [off |-> segLen, chain |-> chain] >>)
     /\ head' = chain
  /\ nextId' = nextId + 1
  /\ segLen' = RecordEnd(seg, segLen)
  /\ UNCHANGED <<seg, hdr, segDur, idxDur, pc, segBuf, idxBuf, segPos, idxPos,
                 indexed, inBatch, failed, reader, log, promised, boundVars>>

\* Mutant: zero_tail starts one cell early in a segment with records.
ReindexDoneCutsSeg ==
  /\ pc = "reindex"
  /\ ~Complete(seg, segLen, nextId, nextId >= indexed)
  /\ pc' = "zeroIdx" /\ idxPos' = nextId
  /\ segPos' = IF nextId = 0 THEN segLen ELSE segLen - 1
  /\ UNCHANGED <<fileVars, segBuf, idxBuf, nextId, segLen, head, indexed,
                 inBatch, failed, reader, log, promised, boundVars>>

\* The record behind the last good one is missing or incomplete.
ReindexDone ==
  /\ pc = "reindex"
  /\ ~Complete(seg, segLen, nextId, nextId >= indexed)
  /\ pc' = "zeroIdx" /\ idxPos' = nextId /\ segPos' = segLen
  /\ UNCHANGED <<fileVars, segBuf, idxBuf, nextId, segLen, head, indexed,
                 inBatch, failed, reader, log, promised, boundVars>>

\* zero_tail over the index, then over the segment, a chunk at a time.
ZeroIdx ==
  /\ pc = "zeroIdx"
  /\ \/ /\ idxPos >= indexed
        /\ pc' = "zeroSeg"
        /\ idxPos' = nextId
        /\ UNCHANGED idx
     \/ \E n \in 1 .. indexed - idxPos :
        /\ idx' = WriteAt(idx, idxPos, Fill(n, ZeroEntry))
        /\ idxPos' = idxPos + n
        /\ UNCHANGED pc
  /\ UNCHANGED <<seg, hdr, segDur, idxDur, segBuf, idxBuf, segPos, nextId,
                 segLen, head, indexed, inBatch, failed, reader, log, promised,
                 boundVars>>

\* The end of recover and of open: both cursors stand at the recovered end,
\* and what recovery found is the store from here on.  recover_output may now
\* send any of it into the output, so all of it is promised; what was promised
\* before still is, with the bytes it had.
ZeroSeg ==
  /\ pc = "zeroSeg"
  /\ \/ /\ segPos >= Len(seg)
        /\ pc' = "open"
        /\ segPos' = segLen
        /\ log' = [i \in 1 .. nextId |->
                     IF i <= promised THEN log[i] ELSE Content(i)]
        /\ promised' = IF promised > nextId THEN promised ELSE nextId
        /\ UNCHANGED seg
     \/ \E n \in 1 .. Len(seg) - segPos :
        /\ seg' = WriteAt(seg, segPos, Fill(n, Zero))
        /\ segPos' = segPos + n
        /\ UNCHANGED <<pc, log, promised>>
  /\ UNCHANGED <<idx, hdr, segDur, idxDur, segBuf, idxBuf, idxPos, nextId,
                 segLen, head, indexed, inBatch, failed, reader, boundVars>>
-----------------------------------------------------------------------------
(* The writer.                                                             *)

\* append: the header and the payload go through the segment's BufWriter, the
\* entry through the index's.  A BufWriter empties itself before a write that
\* does not fit; where that falls in the segment depends on byte sizes, so
\* any of the places it can fall is allowed.
Write(p, drained) ==
  LET out == segBuf \o <<Header(nextId, p)>> \o p IN
  /\ drained \in {0, Len(segBuf), Len(segBuf) + 1, Len(out)}
  /\ seg' = WriteAt(seg, segPos, SubSeq(out, 1, drained))
  /\ segPos' = segPos + drained
  /\ segBuf' = SubSeq(out, drained + 1, Len(out))

MayAppend ==
  /\ pc = "open"
  /\ nextId < MaxRecords
  /\ inBatch < Batch
  /\ failed => ~StopAtFailure

DoAppend(p) ==
  /\ MayAppend
  /\ \E drained \in 0 .. Len(segBuf) + 1 + Len(p) : Write(p, drained)
  /\ LET entry == [off |-> segLen, chain |-> ChainStep(head, p)] IN
     IF Len(idxBuf) = IdxCap
     THEN /\ idx' = WriteAt(idx, idxPos, idxBuf)
          /\ idxPos' = idxPos + Len(idxBuf)
          /\ idxBuf' = <<entry>>
     ELSE /\ idxBuf' = Append(idxBuf, entry)
          /\ UNCHANGED <<idx, idxPos>>
  /\ segLen' = segLen + 1 + Len(p)
  /\ nextId' = nextId + 1
  /\ head' = ChainStep(head, p)
  /\ inBatch' = inBatch + 1
  /\ log' = Append(log, p)
  /\ outgrew' = (outgrew \/ Len(idxBuf) = IdxCap)
  /\ UNCHANGED <<hdr, segDur, idxDur, pc, indexed, failed, reader, promised,
                 kills, powers, fails>>

\* A write inside append fails and `?` returns: what was already handed to the
\* segment's buffer (nothing, the header, the whole record) stays there, while
\* seg_len, next_id and head do not move.
AppendFails(p) ==
  /\ MayAppend
  /\ fails < MaxFails
  /\ \E n \in {0, 1, 1 + Len(p)} :
       segBuf' = segBuf \o SubSeq(<<Header(nextId, p)>> \o p, 1, n)
  /\ failed' = TRUE
  /\ fails' = fails + 1
  /\ UNCHANGED <<fileVars, pc, idxBuf, segPos, idxPos, nextId, segLen, head,
                 indexed, inBatch, reader, log, promised, kills, powers,
                 outgrew>>

\* Mutant: flush leaves the segment's buffer alone.
FlushSegForgotten ==
  /\ pc = "open"
  /\ pc' = "flushIdx"
  /\ UNCHANGED <<fileVars, writerVars, indexed, inBatch, failed, reader, log,
                 promised, boundVars>>

\* flush(false), first half: the segment's buffer reaches the OS.
FlushSeg ==
  /\ pc = "open"
  /\ seg' = WriteAt(seg, segPos, segBuf)
  /\ segPos' = segPos + Len(segBuf)
  /\ segBuf' = << >>
  /\ pc' = "flushIdx"
  /\ UNCHANGED <<idx, hdr, segDur, idxDur, idxBuf, idxPos, nextId, segLen, head,
                 indexed, inBatch, failed, reader, log, promised, boundVars>>

\* Second half: the index's buffer follows, and only now may the batch's ids
\* escape into the output.  After a failed append the batch is not sent.
FlushIdx ==
  /\ pc = "flushIdx"
  /\ idx' = WriteAt(idx, idxPos, idxBuf)
  /\ idxPos' = idxPos + Len(idxBuf)
  /\ idxBuf' = << >>
  /\ pc' = "open"
  /\ inBatch' = 0
  /\ promised' = IF failed /\ StopAtFailure THEN promised ELSE nextId
  /\ UNCHANGED <<seg, hdr, segDur, idxDur, segBuf, segPos, nextId, segLen, head,
                 indexed, failed, reader, log, boundVars>>

\* Mutant: flush(true) syncs the index and not the segment.
CloseSyncsIdx ==
  /\ pc = "open" /\ segBuf = << >> /\ idxBuf = << >>
  /\ idxDur' = nextId
  /\ pc' = "down"
  /\ segPos' = 0 /\ idxPos' = 0 /\ nextId' = 0 /\ segLen' = 0
  /\ head' = Genesis /\ indexed' = 0 /\ inBatch' = 0 /\ failed' = FALSE
  /\ UNCHANGED <<seg, idx, hdr, segDur, segBuf, idxBuf, reader, log, promised,
                 boundVars>>

\* flush(true) and drop at the end of a run: both buffers are already in the
\* OS (the flush above), both files are synced, the process ends.
Close ==
  /\ pc = "open" /\ segBuf = << >> /\ idxBuf = << >>
  /\ segDur' = segLen /\ idxDur' = nextId
  /\ pc' = "down"
  /\ segPos' = 0 /\ idxPos' = 0 /\ nextId' = 0 /\ segLen' = 0
  /\ head' = Genesis /\ indexed' = 0 /\ inBatch' = 0 /\ failed' = FALSE
  /\ UNCHANGED <<seg, idx, hdr, segBuf, idxBuf, reader, log, promised,
                 boundVars>>
-----------------------------------------------------------------------------
(* Crashes.                                                                *)

ProcessGone ==
  /\ pc' = "down"
  /\ segBuf' = << >> /\ idxBuf' = << >> /\ segPos' = 0 /\ idxPos' = 0
  /\ nextId' = 0 /\ segLen' = 0 /\ head' = Genesis /\ indexed' = 0
  /\ inBatch' = 0 /\ failed' = FALSE
  /\ reader' = [at |-> "none", idx |-> 0, seg |-> 0, count |-> 0]

\* What a write of buf at position at leaves behind when it is cut after n
\* cells.
CutSeg(n) == WriteAt(seg, segPos, SubSeq(segBuf, 1, n))

CutIdx(n, torn) ==
  LET whole == SubSeq(idxBuf, 1, n) IN
  WriteAt(idx, idxPos, IF torn THEN Append(whole, TornEntry(idxBuf[n + 1]))
                               ELSE whole)

\* The index's buffer is written by the second half of flush, or by an append
\* that finds it full.
IdxDraining ==
  pc = "flushIdx" \/ (pc = "open" /\ Len(idxBuf) = IdxCap /\ inBatch < Batch)

\* SIGKILL: what the OS has stays, the buffers go; a write under way may have
\* got part of its cells out.  An entry cut in the middle is visible only
\* where the index already reaches that far.
Kill ==
  /\ pc \notin {"down", "refused"} /\ kills + powers < MaxCrashes
  /\ \/ /\ \E n \in 0 .. Len(segBuf) : seg' = CutSeg(n)
        /\ UNCHANGED <<idx, outgrew>>
     \/ /\ IdxDraining
        /\ outgrew' = (outgrew \/ pc = "open")
        /\ \E n \in {0, Len(segBuf)} : seg' = CutSeg(n)
        /\ \E n \in 0 .. Len(idxBuf), torn \in BOOLEAN :
             /\ torn => n < Len(idxBuf) /\ idxPos + n < Len(idx)
             /\ idx' = CutIdx(n, torn)
  /\ ProcessGone
  /\ kills' = kills + 1
  /\ UNCHANGED <<hdr, segDur, idxDur, log, promised, powers, fails>>

\* What power loss leaves of a file of which dur cells were synced: any
\* prefix that holds them, cut off there or followed by zeros.
Survives(f, dur, zero) ==
  {SubSeq(f, 1, n) : n \in dur .. Len(f)} \cup
  {SubSeq(f, 1, n) \o Fill(Len(f) - n, zero) : n \in dur .. Len(f)}

\* Power loss.  The index header and the entries are one file: the header is
\* safe once the file has been synced.  The promise shrinks to the records
\* that were synced.
PowerLoss ==
  /\ pc # "refused" /\ powers < MaxPower
  /\ kills + powers < MaxCrashes
  /\ seg' \in Survives(seg, segDur, Zero)
  /\ \/ /\ idx' \in Survives(idx, idxDur, ZeroEntry)
        /\ UNCHANGED hdr
     \/ /\ segDur = 0
        /\ \/ hdr' = "absent" /\ idx' = << >>
           \/ hdr' = "zeroed" /\ idx' = Fill(Len(idx), ZeroEntry)
  /\ ProcessGone
  /\ promised' = IF promised < idxDur THEN promised ELSE idxDur
  /\ powers' = powers + 1
  /\ UNCHANGED <<segDur, idxDur, log, kills, fails,
                 outgrew>>
-----------------------------------------------------------------------------
(* RawReader in another process (`ulpf verify`, `ulpf attest`).  A mapping *)
(* has the length the file had, and shows what is written there later.     *)

ReaderMapIdx ==
  /\ reader.at = "none" /\ pc \in {"open", "flushIdx"}
  /\ reader' = [at |-> "idx", idx |-> Len(idx), seg |-> 0, count |-> 0]
  /\ UNCHANGED <<fileVars, pc, writerVars, indexed, inBatch, failed, log,
                 promised, boundVars>>

ReaderMapSeg ==
  /\ reader.at = "idx"
  /\ reader' = [reader EXCEPT !.at = "seg", !.seg = Len(seg)]
  /\ UNCHANGED <<fileVars, pc, writerVars, indexed, inBatch, failed, log,
                 promised, boundVars>>

\* The end of RawReader::open: trailing entries that point below the file
\* magic are not counted.
ReaderCount ==
  /\ reader.at = "seg"
  /\ \E n \in 0 .. reader.idx :
       /\ n > 0 => idx[n].off >= 1
       /\ \A m \in n + 1 .. reader.idx : idx[m].off < 1
       /\ reader' = [reader EXCEPT !.at = "ready", !.count = n]
  /\ UNCHANGED <<fileVars, pc, writerVars, indexed, inBatch, failed, log,
                 promised, boundVars>>

ReaderClose ==
  /\ reader.at = "ready"
  /\ reader' = [at |-> "none", idx |-> 0, seg |-> 0, count |-> 0]
  /\ UNCHANGED <<fileVars, pc, writerVars, indexed, inBatch, failed, log,
                 promised, boundVars>>

Next ==
  \/ Open \/ OpenRefused \/ Reindex \/ ReindexDone \/ ZeroIdx \/ ZeroSeg
  \/ \E p \in Payloads : DoAppend(p) \/ AppendFails(p)
  \/ FlushSeg \/ FlushIdx \/ Close
  \/ Kill \/ PowerLoss
  \/ ReaderMapIdx \/ ReaderMapSeg \/ ReaderCount \/ ReaderClose

Spec == Init /\ [][Next]_vars
-----------------------------------------------------------------------------
(* Properties.                                                             *)

Entry == [off : Nat, chain : Seq(Payloads) \cup {BadChain}]

Cell == Data \cup {Zero, Magic} \cup Headers

\* The types of the store's state: cells in the segment and its buffer,
\* entries in the index and its buffer, counters and cursors natural numbers.
TypeOK ==
  /\ seg \in Seq(Cell) /\ segBuf \in Seq(Cell)
  /\ idx \in Seq(Entry) /\ idxBuf \in Seq(Entry)
  /\ hdr \in {"absent", "good", "zeroed"}
  /\ pc \in {"down", "refused", "reindex", "zeroIdx", "zeroSeg", "open",
             "flushIdx"}
  /\ {segDur, idxDur, segPos, idxPos, nextId, segLen, indexed, inBatch,
      promised, kills, powers, fails} \subseteq Nat
  /\ head \in Seq(Payloads)
  /\ failed \in BOOLEAN
  /\ reader \in [at : {"none", "idx", "seg", "ready"}, idx : Nat, seg : Nat,
                 count : Nat]
  /\ log \in Seq(Seq(Cell))

Running == pc \in {"open", "flushIdx"}

\* Record n - 1 reads back: its entry points at a complete record with its id,
\* and the bytes are the ones the id was issued for.
ReadsBack(n) ==
  /\ n <= Len(idx)
  /\ Complete(seg, idx[n].off, n - 1, FALSE)
  /\ Content(n) = log[n]

\* An id that escaped is never lost, reissued or given other bytes: in every
\* run of the writer, after any sequence of kills, interrupted recoveries and
\* (for synced records) power losses, get on it returns what was appended;
\* and a store that open refuses held no synced record (store.rs append,
\* flush, recover, idx_header).
PromiseKept ==
  /\ Running => promised <= nextId /\ \A n \in 1 .. promised : ReadsBack(n)
  /\ pc = "refused" => promised = 0

\* Neither a power loss, after which the length of the index spares records
\* it does not hold their hash, nor a batch larger than the index's buffer,
\* whose entries reach the file before its records do.
Ordinary == powers = 0 /\ ~outgrew

\* Recovery hands the writer a store that verify finds clean: every record's
\* bytes hash to the digest in its header and every chain value follows from
\* its predecessor (store.rs recover, RawReader::check).
RecoveredClean ==
  pc = "zeroSeg" /\ Ordinary => \A n \in 1 .. nextId : Checks(seg, n)

\* A reader opened beside a live writer maps the index before the segment,
\* and so never calls a record corrupt: every record it counts lies whole
\* inside its mapping, hashes to its digest, and its chain value follows
\* (RawReader::open, check).
ReaderClean ==
  reader.at = "ready" /\ Ordinary =>
    \A n \in 1 .. reader.count : Checks(SubSeq(seg, 1, reader.seg), n)

\* No step of anyone, crashes apart, changes or removes a byte of a promised
\* record: the store is append-only, and recovery and its zeroing touch
\* nothing below the recovered end (store.rs recover, zero_tail).
AppendOnly ==
  [][ (kills' = kills /\ powers' = powers) =>
        \A n \in 1 .. promised :
          n <= Len(idx) /\ Complete(seg, idx[n].off, n - 1, FALSE) =>
            /\ idx'[n].off = idx[n].off
            /\ SubSeq(seg', idx[n].off + 1, RecordEnd(seg, idx[n].off)) =
               SubSeq(seg, idx[n].off + 1, RecordEnd(seg, idx[n].off)) ]_vars

\* The store is well formed, and recovery leaves it clean: the types of the
\* files and buffers together with RecoveredClean (store.rs, recover).
StoreIsClean == TypeOK /\ RecoveredClean
=============================================================================
