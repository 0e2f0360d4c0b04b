------------------------------- MODULE Engine -------------------------------
(***************************************************************************)
(* The engine of crates/ulpf/src/engine.rs: producers that append batches  *)
(* to the raw store and queue them, workers that process them, the output  *)
(* thread that puts them back in sequence and writes the JSON Lines file,  *)
(* and the start-up recovery that reconciles that file with the store      *)
(* after a kill.                                                           *)
(*                                                                         *)
(* The store is what module RawStore promises of it: a sequence of records *)
(* whose length is the next id, of which a killed append leaves a prefix.  *)
(* An output line is the raw id it carries.  What a worker makes of an     *)
(* event is not modelled here: it emits one line per event.                *)
(***************************************************************************)
EXTENDS Integers, Sequences, FiniteSets

CONSTANTS
  Files,       \* input files, each a source of its own
  FileLen,     \* the number of events each holds
  Listeners,   \* syslog listeners (none in `run`)
  Serve,       \* TRUE: `serve`, stopped from outside; FALSE: `run`
  Workers,     \* worker threads
  QueueCap,    \* --queue: batches between ingest and the workers
  BatchMax,    \* --batch: events per batch
  MaxStore,    \* bound: records a listener may bring the store to
  MaxLives,    \* bound: starts of the process
  MaxOutFails, \* bound: failures of the output stage
  MayFail      \* TRUE: the store, the files and the sockets may fail ingest

Main == "main"

Producers == {Main} \cup Listeners

ASSUME EngineAssumption ==
  /\ FileLen \in [Files -> Nat]
  /\ Main \notin Listeners /\ Files \cap Listeners = {}
  /\ Workers # {}
  /\ Serve \in BOOLEAN /\ MayFail \in BOOLEAN
  /\ Listeners # {} => Serve
  /\ QueueCap \in Nat \ {0} /\ BatchMax \in Nat \ {0}
  /\ MaxStore \in Nat /\ MaxLives \in Nat /\ MaxOutFails \in Nat

VARIABLES
  store,     \* the raw store: record i + 1 has id i
  output,    \* the whole lines of the output file, each a raw id
  torn,      \* the output file ends in a part of a line
  meta,      \* the output's version meta names this store
  main,      \* what the main thread is doing
  prior,     \* Live::prior_output_store named this store at this start
  rec,       \* recover_output's locals
  consumed,  \* ingest_file's offset into each file, in events
  listening, \* listeners whose thread runs
  stop,      \* Live::stop has been called
  failed,    \* ingest or a listener has returned an error
  seq,       \* Live::seq, the next batch sequence number
  hold,      \* hold[p]: the batch p has stored and not yet sent, if any
  queue,     \* the batch channel
  alive,     \* workers whose thread runs
  work,      \* work[w]: the batch w is processing, if any
  outq,      \* the channel to the output thread
  out,       \* the output thread: "off", "running", "failed", "done"
  pending,   \* its reorder map
  next,      \* the sequence number it writes next
  wbuf,      \* its BufWriter: lines not yet in the file
  base,      \* history: the first id this output answers for
  lives, outFails

disk    == <<store, output, torn, meta>>
chans   == <<hold, queue, work, outq, pending>>
writer  == <<out, next, wbuf>>
ingestV == <<consumed, listening, stop, failed, seq>>
vars == <<disk, main, prior, rec, ingestV, chans, alive, writer, base, lives,
          outFails>>

OutCap == 2 * QueueCap

\* Mutant: the ids of a batch start one below its first raw id.
IdsOneBelow(first, n) == [i \in 1 .. n |-> first + i - 2]

\* The ids on the lines of a batch.
Ids(first, n) == [i \in 1 .. n |-> first + i - 1]

\* A line appended behind a torn one: the two read as one line, which is
\* neither's.
Glued == -1

\* The file after lines reach it.
Appended(lines) ==
  output \o (IF torn /\ lines # << >> THEN <<Glued>> \o Tail(lines) ELSE lines)

NoRec == [keep |-> 0, first |-> 0, next |-> 0, total |-> 0]

Init ==
  /\ store = << >> /\ output = << >> /\ torn = FALSE /\ meta = FALSE
  /\ main = "down" /\ prior = FALSE /\ rec = NoRec
  /\ consumed = [f \in Files |-> 0]
  /\ listening = {} /\ stop = FALSE /\ failed = FALSE /\ seq = 0
  /\ hold = [p \in Producers |-> {}] /\ queue = << >>
  /\ alive = {} /\ work = [w \in Workers |-> {}]
  /\ outq = << >> /\ out = "off" /\ pending = {} /\ next = 0 /\ wbuf = << >>
  /\ base = 0 /\ lives = 0 /\ outFails = 0
-----------------------------------------------------------------------------
(* Start, recovery of the output, ingest: the main thread.                 *)

\* Live::open and start: the previous meta is read before this one replaces
\* it; all threads and, in serve, the listeners run before recover_output.  A
\* listener that cannot bind its socket returns its error and asks nobody to
\* stop.
Start ==
  /\ main = "down" /\ lives < MaxLives
  /\ main' = "scan" /\ lives' = lives + 1
  /\ prior' = meta /\ meta' = TRUE
  /\ base' = IF meta THEN base ELSE Len(store)
  /\ listening' \in SUBSET Listeners
  /\ failed' = (listening' # Listeners) /\ (failed' => MayFail)
  /\ alive' = Workers /\ out' = "running"
  /\ stop' = FALSE /\ seq' = 0 /\ next' = 0
  /\ UNCHANGED <<store, output, torn, rec, consumed, chans, wbuf, outFails>>

\* An operator names an output path that does not exist yet.
NewOutput ==
  /\ main = "down" /\ meta /\ lives < MaxLives
  /\ output' = << >> /\ torn' = FALSE /\ meta' = FALSE
  /\ UNCHANGED <<store, main, prior, rec, ingestV, chans, alive, writer, base,
                 lives, outFails>>

\* Mutant: a restart reads every file from its start.
IngestedNothing(f) == 0

\* The resume map: what the store holds of each file.
Ingested(f) == Cardinality({i \in DOMAIN store : store[i].src = f})

BeginIngest ==
  /\ main' = "ingest"
  /\ consumed' = [f \in Files |-> Ingested(f)]

\* Mutant: the id behind the last line's is taken for the last line's.
RawIdPast(line) == {line + 1}

\* replay::raw_id_of.  In a glued line it finds the id of one of the two.
RawIdOf(line) == IF line = Glued THEN 0 .. Len(store) - 1 ELSE {line}

\* recover_output reads the tail of the file: the id on its last whole line,
\* and how much of the file is whole lines.
RecoverScan ==
  /\ main = "scan"
  /\ IF ~prior
     THEN BeginIngest /\ UNCHANGED rec
     ELSE /\ main' = IF torn THEN "truncate" ELSE "plan"
          /\ \E first \in IF output = << >> THEN {0}
                         ELSE {id + 1 : id \in RawIdOf(output[Len(output)])} :
               rec' = [keep |-> Len(output), first |-> first, next |-> 0,
                       total |-> 0]
          /\ UNCHANGED consumed
  /\ UNCHANGED <<disk, prior, listening, stop, failed, seq, chans, alive,
                 writer, base, lives, outFails>>

\* Mutant: the last whole line is cut off with the torn one.
RecoverTruncateLine ==
  /\ main = "truncate"
  /\ output' = SubSeq(output, 1, rec.keep - 1) /\ torn' = FALSE
  /\ main' = "plan"
  /\ UNCHANGED <<store, meta, prior, rec, ingestV, chans, alive, writer, base,
                 lives, outFails>>

\* set_len to the end of the last whole line.
RecoverTruncate ==
  /\ main = "truncate"
  /\ output' = SubSeq(output, 1, rec.keep) /\ torn' = FALSE
  /\ main' = "plan"
  /\ UNCHANGED <<store, meta, prior, rec, ingestV, chans, alive, writer, base,
                 lives, outFails>>

\* Under the store lock: which records the output lacks.
RecoverPlan ==
  /\ main = "plan"
  /\ IF rec.first >= Len(store)
     THEN BeginIngest /\ UNCHANGED rec
     ELSE /\ main' = "recover"
          /\ rec' = [rec EXCEPT !.next = rec.first, !.total = Len(store)]
          /\ UNCHANGED consumed
  /\ UNCHANGED <<disk, prior, listening, stop, failed, seq, chans, alive,
                 writer, base, lives, outFails>>

\* One batch of recovered records; its sequence number is taken under the
\* store lock.
RecoverBatch ==
  /\ main = "recover" /\ hold[Main] = {} /\ rec.next < rec.total
  /\ LET left == rec.total - rec.next
         n == IF left < BatchMax THEN left ELSE BatchMax
     IN  /\ hold' = [hold EXCEPT ![Main] =
                       {[seq |-> seq, first |-> rec.next, n |-> n]}]
         /\ rec' = [rec EXCEPT !.next = rec.next + n]
  /\ seq' = seq + 1
  /\ UNCHANGED <<disk, main, prior, consumed, listening, stop, failed, queue,
                 work, outq, pending, alive, writer, base, lives, outFails>>

RecoverDone ==
  /\ main = "recover" /\ hold[Main] = {} /\ rec.next = rec.total
  /\ BeginIngest
  /\ UNCHANGED <<disk, prior, rec, listening, stop, failed, seq, chans, alive,
                 writer, base, lives, outFails>>

\* Under one store lock: n records appended and flushed, the sequence taken.
StoreBatch(p, records) ==
  /\ hold[p] = {}
  /\ hold' = [hold EXCEPT ![p] =
                {[seq |-> seq, first |-> Len(store), n |-> Len(records)]}]
  /\ store' = store \o records
  /\ seq' = seq + 1

\* The next n events of file f.
FileEvents(f, n) == [i \in 1 .. n |-> [src |-> f, at |-> consumed[f] + i]]

\* ingest_file, one batch: full, or short at the end of what the file holds,
\* which in `serve` is still growing.  A stop ends a file between two batches;
\* the other files of poll_loop's round still get theirs.
IngestBatch(f, n) ==
  /\ main = "ingest"
  /\ consumed[f] + n <= FileLen[f]
  /\ Serve \/ n = BatchMax \/ consumed[f] + n = FileLen[f]
  /\ StoreBatch(Main, FileEvents(f, n))
  /\ consumed' = [consumed EXCEPT ![f] = @ + n]
  /\ UNCHANGED <<output, torn, meta, main, prior, rec, listening, stop, failed,
                 queue, work, outq, pending, alive, writer, base, lives,
                 outFails>>

\* `run` is through its files; `serve` has been stopped and asks the listeners
\* to stop too.
IngestDone ==
  /\ main = "ingest" /\ hold[Main] = {}
  /\ IF Serve THEN stop ELSE \A f \in Files : consumed[f] = FileLen[f]
  /\ main' = "join" /\ stop' = TRUE
  /\ UNCHANGED <<disk, prior, rec, consumed, listening, failed, seq, chans,
                 alive, writer, base, lives, outFails>>

\* Live::stop from a signal, the API or the parent watcher.
Stop ==
  /\ Serve /\ main # "down" /\ ~stop
  /\ stop' = TRUE
  /\ UNCHANGED <<disk, main, prior, rec, consumed, listening, failed, seq,
                 chans, alive, writer, base, lives, outFails>>

\* finish: with the listeners joined, the last sender is dropped.
JoinListeners ==
  /\ main = "join" /\ listening = {}
  /\ main' = "finish"
  /\ UNCHANGED <<disk, prior, rec, ingestV, chans, alive, writer, base, lives,
                 outFails>>

\* finish has joined the workers and the output thread; the process ends.
Finish ==
  /\ main = "finish" /\ alive = {} /\ out \in {"failed", "done"}
  /\ main' = "down" /\ out' = "off" /\ prior' = FALSE /\ rec' = NoRec
  /\ queue' = << >> /\ pending' = {}
  /\ consumed' = [f \in Files |-> 0]
  /\ stop' = FALSE /\ failed' = FALSE /\ seq' = 0 /\ next' = 0
  /\ UNCHANGED <<disk, listening, hold, work, outq, alive, wbuf, base, lives,
                 outFails>>
-----------------------------------------------------------------------------
(* The listeners (syslog.rs) and the batch channel.                        *)

ListenerEvents(l, n) == [i \in 1 .. n |-> [src |-> l, at |-> 0]]

ListenerBatch(l, n) ==
  /\ l \in listening
  /\ Len(store) + n <= MaxStore
  /\ StoreBatch(l, ListenerEvents(l, n))
  /\ UNCHANGED <<output, torn, meta, main, prior, rec, consumed, listening,
                 stop, failed, queue, work, outq, pending, alive, writer, base,
                 lives, outFails>>

ListenerExit(l) ==
  /\ l \in listening /\ stop /\ hold[l] = {}
  /\ listening' = listening \ {l}
  /\ UNCHANGED <<disk, main, prior, rec, consumed, stop, failed, seq, chans,
                 alive, writer, base, lives, outFails>>

\* send_batch: blocks while the channel is full.
Send(p) ==
  /\ hold[p] # {} /\ alive # {} /\ Len(queue) < QueueCap
  /\ \E b \in hold[p] : queue' = Append(queue, b)
  /\ hold' = [hold EXCEPT ![p] = {}]
  /\ UNCHANGED <<disk, main, prior, rec, ingestV, work, outq, pending, alive,
                 writer, base, lives, outFails>>

\* Mutant: a listener whose send fails tries again.
SendFailsOnMain(p) ==
  /\ p = Main
  /\ hold[p] # {} /\ alive = {}
  /\ hold' = [hold EXCEPT ![p] = {}]
  /\ stop' = TRUE /\ failed' = TRUE
  /\ main' = "join"
  /\ UNCHANGED <<disk, prior, rec, consumed, listening, seq, queue, work, outq,
                 pending, alive, writer, base, lives, outFails>>

\* Every worker is gone and the channel with them: the producer gives up and
\* the run ends.
SendFails(p) ==
  /\ hold[p] # {} /\ alive = {}
  /\ hold' = [hold EXCEPT ![p] = {}]
  /\ stop' = TRUE /\ failed' = TRUE
  /\ IF p = Main THEN main' = "join" /\ UNCHANGED listening
                 ELSE listening' = listening \ {p} /\ UNCHANGED main
  /\ UNCHANGED <<disk, prior, rec, consumed, seq, queue, work, outq, pending,
                 alive, writer, base, lives, outFails>>

\* Producer p's append is cut short by an error or a kill: a prefix of the
\* batch is in the store, and no sequence number was taken for it.
HalfStored(p) ==
  \/ UNCHANGED store
  \/ \E f \in Files, n \in 1 .. BatchMax :
       /\ p = Main /\ main = "ingest" /\ hold[p] = {}
       /\ consumed[f] + n <= FileLen[f]
       /\ store' = store \o FileEvents(f, n)
  \/ \E n \in 1 .. BatchMax :
       /\ p \in listening /\ hold[p] = {} /\ Len(store) + n <= MaxStore
       /\ store' = store \o ListenerEvents(p, n)

\* An error on the way from recover_output's reads to the store's appends: `?`
\* leaves ingest, `run` and `serve` go on to finish with the error.
MainFails ==
  /\ MayFail /\ hold[Main] = {}
  /\ main \in {"scan", "truncate", "plan", "recover", "ingest"}
  /\ HalfStored(Main)
  /\ main' = "join" /\ stop' = TRUE /\ failed' = TRUE
  /\ UNCHANGED <<output, torn, meta, prior, rec, consumed, listening, seq,
                 chans, alive, writer, base, lives, outFails>>

\* flush_or_stop: a listener whose flush fails stops the run.
ListenerFails(l) ==
  /\ MayFail /\ l \in listening /\ hold[l] = {}
  /\ HalfStored(l)
  /\ listening' = listening \ {l} /\ stop' = TRUE /\ failed' = TRUE
  /\ UNCHANGED <<output, torn, meta, main, prior, rec, consumed, seq, chans,
                 alive, writer, base, lives, outFails>>
-----------------------------------------------------------------------------
(* worker_thread.                                                          *)

\* A worker takes the batch at the head of the channel.
Take(w) ==
  /\ w \in alive /\ work[w] = {} /\ queue # << >>
  /\ work' = [work EXCEPT ![w] = {Head(queue)}]
  /\ queue' = Tail(queue)
  /\ UNCHANGED <<disk, main, prior, rec, ingestV, hold, outq, pending, alive,
                 writer, base, lives, outFails>>

\* Mutant: a batch that does not fit the channel to the output is dropped.
EmitOrDrop(w) ==
  /\ w \in alive /\ work[w] # {}
  /\ out = "running"
  /\ \E b \in work[w] : outq' = IF Len(outq) < OutCap THEN Append(outq, b)
                                                     ELSE outq
  /\ work' = [work EXCEPT ![w] = {}]
  /\ UNCHANGED <<disk, main, prior, rec, ingestV, hold, queue, pending, alive,
                 writer, base, lives, outFails>>

\* The processed batch goes to the output thread; the send blocks while that
\* channel is full.
Emit(w) ==
  /\ w \in alive /\ work[w] # {}
  /\ out = "running" /\ Len(outq) < OutCap
  /\ \E b \in work[w] : outq' = Append(outq, b)
  /\ work' = [work EXCEPT ![w] = {}]
  /\ UNCHANGED <<disk, main, prior, rec, ingestV, hold, queue, pending, alive,
                 writer, base, lives, outFails>>

WorkerExitAtEnd(w) ==
  /\ w \in alive
  /\ work[w] = {} /\ queue = << >> /\ main = "finish"
  /\ alive' = alive \ {w}
  /\ UNCHANGED <<disk, main, prior, rec, ingestV, chans, writer, base, lives,
                 outFails>>

\* The receiver is gone, or every sender is and the channel is empty.
WorkerExit(w) ==
  /\ w \in alive
  /\ \/ work[w] # {} /\ out = "failed"
     \/ work[w] = {} /\ queue = << >> /\ main = "finish"
  /\ alive' = alive \ {w}
  /\ work' = [work EXCEPT ![w] = {}]
  /\ UNCHANGED <<disk, main, prior, rec, ingestV, hold, queue, outq, pending,
                 writer, base, lives, outFails>>
-----------------------------------------------------------------------------
(* output_thread.                                                          *)

\* Mutant: batches are written as they come.
InTurnAny == pending

\* The batch whose sequence number comes next, if it has arrived.
InTurn == {b \in pending : b.seq = next}

Receive ==
  /\ out = "running" /\ InTurn = {} /\ outq # << >>
  /\ pending' = pending \cup {Head(outq)}
  /\ outq' = Tail(outq)
  /\ UNCHANGED <<disk, main, prior, rec, ingestV, hold, queue, work, alive,
                 writer, base, lives, outFails>>

\* The batch whose turn it is goes through the BufWriter, which first empties
\* itself when the batch does not fit and passes on a batch larger than itself.
Write ==
  /\ out = "running"
  /\ \E b \in InTurn :
       /\ pending' = pending \ {b}
       /\ \/ wbuf' = wbuf \o Ids(b.first, b.n) /\ UNCHANGED <<output, torn>>
          \/ /\ wbuf # << >>
             /\ output' = Appended(wbuf) /\ torn' = FALSE
             /\ wbuf' = Ids(b.first, b.n)
          \/ /\ output' = Appended(wbuf \o Ids(b.first, b.n)) /\ torn' = FALSE
             /\ wbuf' = << >>
  /\ next' = next + 1
  /\ UNCHANGED <<store, meta, main, prior, rec, ingestV, hold, queue, work,
                 outq, alive, out, base, lives, outFails>>

\* The half-second flush, between batches.
Flush ==
  /\ out = "running" /\ InTurn = {} /\ wbuf # << >>
  /\ output' = Appended(wbuf) /\ torn' = FALSE /\ wbuf' = << >>
  /\ UNCHANGED <<store, meta, main, prior, rec, ingestV, chans, alive, out,
                 next, base, lives, outFails>>

\* What a write of the buffer leaves when it stops early: k whole lines, and
\* perhaps a part of the next.
PartWritten(k, cut) ==
  /\ k \in 0 .. Len(wbuf)
  /\ output' = Appended(SubSeq(wbuf, 1, k))
  /\ torn' = IF k = 0 THEN torn \/ (cut /\ wbuf # << >>)
                      ELSE cut /\ k < Len(wbuf)

\* A write or a flush fails: the thread returns its error and drops the
\* receiver with everything in it.
OutputFails ==
  /\ out = "running" /\ outFails < MaxOutFails
  /\ \E k \in 0 .. Len(wbuf), cut \in BOOLEAN : PartWritten(k, cut)
  /\ out' = "failed" /\ outFails' = outFails + 1
  /\ outq' = << >> /\ pending' = {} /\ wbuf' = << >>
  /\ UNCHANGED <<store, meta, main, prior, rec, ingestV, hold, queue, work,
                 alive, next, base, lives>>

\* Every worker is gone and the channel is empty: the last flush.
OutputDone ==
  /\ out = "running" /\ alive = {} /\ outq = << >> /\ InTurn = {}
  /\ output' = Appended(wbuf) /\ wbuf' = << >>
  /\ torn' = IF wbuf = << >> THEN torn ELSE FALSE
  /\ out' = "done"
  /\ UNCHANGED <<store, meta, main, prior, rec, ingestV, chans, alive, next,
                 base, lives, outFails>>
-----------------------------------------------------------------------------
(* SIGKILL.                                                                *)

Kill ==
  /\ main # "down"
  /\ \E p \in Producers : HalfStored(p)
  /\ IF out = "running"
     THEN \E k \in 0 .. Len(wbuf), cut \in BOOLEAN : PartWritten(k, cut)
     ELSE UNCHANGED <<output, torn>>
  /\ main' = "down" /\ prior' = FALSE /\ rec' = NoRec /\ out' = "off"
  /\ consumed' = [f \in Files |-> 0]
  /\ listening' = {} /\ stop' = FALSE /\ failed' = FALSE /\ seq' = 0
  /\ hold' = [p \in Producers |-> {}] /\ queue' = << >>
  /\ alive' = {} /\ work' = [w \in Workers |-> {}]
  /\ outq' = << >> /\ pending' = {} /\ next' = 0 /\ wbuf' = << >>
  /\ UNCHANGED <<meta, base, lives, outFails>>
-----------------------------------------------------------------------------
MainStep ==
  \/ RecoverScan \/ RecoverTruncate \/ RecoverPlan \/ RecoverBatch
  \/ RecoverDone \/ IngestDone \/ JoinListeners \/ Finish
  \/ \E f \in Files, n \in 1 .. BatchMax : IngestBatch(f, n)
  \/ Send(Main) \/ SendFails(Main)

WorkerStep(w) == Take(w) \/ Emit(w) \/ WorkerExit(w)

OutputStep == Receive \/ Write \/ Flush \/ OutputDone

ListenerStep(l) ==
  \/ \E n \in 1 .. BatchMax : ListenerBatch(l, n)
  \/ Send(l) \/ SendFails(l) \/ ListenerExit(l)

Next ==
  \/ Start \/ NewOutput \/ Stop \/ MainStep \/ OutputStep
  \/ MainFails \/ OutputFails \/ Kill
  \/ \E w \in Workers : WorkerStep(w)
  \/ \E l \in Listeners : ListenerStep(l) \/ ListenerFails(l)

Spec == Init /\ [][Next]_vars

\* Every thread that can go on does (no thread is suspended forever); nothing
\* obliges the operator to start, stop or kill the process, nor a device to
\* send.
Fairness ==
  /\ WF_vars(MainStep) /\ WF_vars(OutputStep)
  /\ \A w \in Workers : WF_vars(WorkerStep(w))
  /\ \A l \in Listeners : WF_vars(Send(l) \/ SendFails(l) \/ ListenerExit(l))

FairSpec == Spec /\ Fairness
-----------------------------------------------------------------------------
(* Properties.                                                             *)

Batch == [seq : Nat, first : Nat, n : Nat]

TypeFiles ==
  /\ store \in Seq([src : Files \cup Listeners, at : Nat])
  /\ output \in Seq(Nat \cup {Glued}) /\ wbuf \in Seq(Nat)

TypeFlags ==
  /\ torn \in BOOLEAN /\ meta \in BOOLEAN /\ prior \in BOOLEAN
  /\ stop \in BOOLEAN /\ failed \in BOOLEAN

TypeThreads ==
  /\ main \in {"down", "scan", "truncate", "plan", "recover", "ingest", "join",
               "finish"}
  /\ rec \in [keep : Nat, first : Nat, next : Nat, total : Nat]
  /\ consumed \in [Files -> Nat]
  /\ listening \subseteq Listeners /\ alive \subseteq Workers
  /\ hold \in [Producers -> SUBSET Batch] /\ work \in [Workers -> SUBSET Batch]
  /\ queue \in Seq(Batch) /\ outq \in Seq(Batch) /\ pending \subseteq Batch
  /\ out \in {"off", "running", "failed", "done"}
  /\ seq \in Nat /\ next \in Nat /\ base \in Nat
  /\ lives \in Nat /\ outFails \in Nat

\* The types of the engine's state: what is on disk and on its way there, the
\* flags, and the threads with their channels.
TypeOK == TypeFiles /\ TypeFlags /\ TypeThreads

Contiguous(s) == \A i \in 1 .. Len(s) - 1 : s[i + 1] = s[i] + 1

\* The whole lines of the output carry consecutive raw ids of stored records:
\* raw id order, no duplicate and no gap, at every moment and after any number
\* of kills and failed runs (recover_output, output_thread; outfile.rs relies
\* on it to search the file by id).
OutputInOrder ==
  /\ Contiguous(output)
  /\ output # << >> => output[Len(output)] < Len(store)

\* With listeners racing the tailer in one life of `serve`, the ids in the
\* output ascend, which the search by id needs (outfile.rs), and leave one out
\* only where a failed append stored records that no batch carries.
OutputAscends ==
  /\ \A i \in 1 .. Len(output) - 1 : output[i] < output[i + 1]
  /\ main # "down" /\ ~failed => Contiguous(output)

\* Every event of a file is stored once, in file order, however often the
\* process was killed inside an append: the events of f in the store are 1, 2,
\* ... (the resume offset of `run`, ingest_file, ingested_bytes).
FileStoredOnce ==
  \A i \in DOMAIN store :
    store[i].src \in Files =>
      store[i].at = Cardinality({j \in 1 .. i : store[j].src = store[i].src})

\* When neither ingest nor the output thread has failed, every record this
\* output answers for is a line of it in the end: a clean stop loses nothing
\* that is stored, the records earlier runs stored and never emitted included
\* (finish, output_thread, recover_output).
CleanStopIsComplete ==
  out = "done" /\ ~failed =>
    \A id \in base .. Len(store) - 1 : \E i \in DOMAIN output : output[i] = id

\* The batches between a producer and the output thread.
InFlight ==
  (UNION {hold[p] : p \in Producers})
    \cup (UNION {work[w] : w \in Workers})
    \cup {queue[i] : i \in DOMAIN queue} \cup {outq[i] : i \in DOMAIN outq}
    \cup pending

\* A batch sequence number that was taken is still somewhere on its way to the
\* output thread, which otherwise would wait for it forever and hold back
\* every later batch (output_thread's `next`, StoreBatch, worker_thread).
NoSequenceHole ==
  out = "running" =>
    \A s \in next .. seq - 1 : \E b \in InFlight : b.seq = s

\* A `run`, and a `serve` that was asked to stop, ends: also when the output
\* stage fails with full channels, nobody waits for a thread that is gone
\* (D34; finish, send_batch, worker_thread).
Terminates == (main # "down" /\ (stop \/ ~Serve)) ~> (main = "down")

\* Nothing that was stored is lost on its way to the output: a clean stop is
\* complete, and until then no sequence number is missing (finish,
\* output_thread).
NothingLost == CleanStopIsComplete /\ NoSequenceHole

\* In `serve`: ids ascend, and nothing stored is lost (serve, output_thread).
ServeSound == OutputAscends /\ NothingLost

\* The store and the output as the abstract log sees them.
Log == INSTANCE EventLog WITH stored <- Len(store), lines <- output

\* The output is a run of consecutive ids of stored records that only grows
\* at its end: the engine implements EventLog (recover_output: "with no
\* duplicate and no gap").
ImplementsEventLog == Log!Spec
=============================================================================
