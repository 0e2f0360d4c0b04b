------------------------------- MODULE Review -------------------------------
(***************************************************************************)
(* The learning loop for one source: workers hand events no parser took to *)
(* inference.rs, the inference thread writes proposals into the pending    *)
(* directory (pending.rs), a reviewer edits, approves or rejects them, and *)
(* the registry is reloaded.  A source that drifts gets its parser as the  *)
(* prior of its next proposal (module Drift).                              *)
(*                                                                         *)
(* The operations on the pending directory hold one lock and are one file  *)
(* operation per step, because the process may be killed between two; each *)
(* of them is atomic on disk (atomic_write, rename).  A text is told apart *)
(* by where it came from: the fingerprint of its lines, the hand-written   *)
(* parser, or a human's edit.  All proposals carry the parser's one name.  *)
(***************************************************************************)
EXTENDS Drift, FiniteSets, Functions

CONSTANTS
  Threshold,   \* lines before a source's first proposal
  MinSupport,  \* Params::min_support
  MaxBuffer,   \* max_buffer
  Batch,       \* the most events of a worker's batch
  MaxBatches,  \* bound: batches
  MaxOps,      \* bound: operations of the reviewer
  MaxKills     \* bound: kills

ASSUME ReviewAssumption ==
  /\ {Threshold, MinSupport, Batch} \subseteq Nat \ {0}
  /\ MaxBuffer \in Nat /\ MaxBuffer >= Threshold
  /\ {MaxBatches, MaxOps, MaxKills} \subseteq Nat

VARIABLES
  json, toml, lines, \* the three files of the proposal, or None
  active,            \* parsers/<name>.toml, or None
  kept,              \* approved/<name>.v<N>.toml: a function from versions
  rejDir,            \* the fingerprints under rejected/
  rejected,          \* Pending::rejected
  buf,               \* the source's Buffer, or None
  run,               \* the proposal run_one is about to write, or None
  op,                \* the operation that holds Pending::ops, or NoOp
  rev, revLoad,      \* the reviewer's request, and the registry it loaded
  poll, pollLoad,    \* the poller's reload
  pipeline, sig, dir,\* the registry, parsers_signature, the directory's state
  stats,             \* SourceStats
  worker,            \* the worker's place, and its batch
  batches, ops, kills,
  edit,              \* history: the text of the last edit that was confirmed
  seen               \* history: events judged since the source was cleared

files == <<json, toml, lines, active, kept, rejDir>>
registry == <<pipeline, sig, revLoad, poll, pollLoad>>
counters == <<batches, ops, kills>>
vars == <<files, rejected, buf, run, op, rev, registry, dir, stats, worker,
          counters, edit, seen>>

None == [none |-> TRUE]

NoOp == [kind |-> "none", step |-> "none"]

NoBatch == [at |-> "idle", n |-> 0, unknown |-> 0, failed |-> 0]

Fresh == [n |-> 0, ranAt |-> 0, nextRun |-> Threshold, prior |-> None]

Hand == [by |-> "hand"]

\* A hand-written parser may already be there.
Init ==
  /\ json = None /\ toml = None /\ lines = None
  /\ active \in {None, [text |-> Hand, ver |-> 1]}
  /\ kept = << >> /\ rejDir = {} /\ rejected = {}
  /\ buf = None /\ run = None /\ op = NoOp
  /\ rev = "idle" /\ revLoad = None /\ poll = "idle" /\ pollLoad = None
  /\ pipeline = active /\ sig = 0 /\ dir = 0
  /\ stats = NoStats /\ worker = NoBatch
  /\ batches = 0 /\ ops = 0 /\ kills = 0 /\ edit = None /\ seen = 0
-----------------------------------------------------------------------------
(* Inference: the buffers.                                                 *)

\* Inference::offer_batch: what exceeds the buffer is counted, not kept.
Offer(b, n) ==
  IF n = 0 THEN b
  ELSE LET o == IF b = None THEN Fresh ELSE b IN
       [o EXCEPT !.n = IF @ + n > MaxBuffer THEN MaxBuffer ELSE @ + n]

\* Inference::set_prior.
SetPrior(b, def) ==
  [(IF b = None THEN Fresh ELSE b) EXCEPT !.ranAt = 0, !.nextRun = Threshold,
                                          !.prior = def]

\* A source take_due may take: over its threshold, or quiet (which time
\* decides) with enough lines the last run has not seen.
Due(b) ==
  b # None /\ (b.n >= b.nextRun \/ b.n >= b.ranAt + MinSupport)

\* infer and infer_with_prior: the fingerprint is the lines', and an update is
\* the next version of its prior.
Proposal(b) ==
  [fp |-> [by |-> "lines", n |-> b.n, prior |-> b.prior],
   updates |-> b.prior # None,
   ver |-> IF b.prior = None THEN 1 ELSE b.prior.ver + 1]

\* run_thread: one source is taken, and clustered without the lock.
TakeDue ==
  /\ run = None /\ Due(buf)
  /\ LET b == buf IN
     /\ buf' = [b EXCEPT !.ranAt = b.n,
                         !.nextRun = IF 2 * b.n > b.n + Threshold
                                     THEN 2 * b.n ELSE b.n + Threshold]
     /\ run' = Proposal(b)
  /\ UNCHANGED <<files, rejected, op, rev, registry, dir, stats, worker,
                 counters, edit, seen>>

\* run_one finds no template: SkippedEmpty.
RunEmpty ==
  /\ run # None /\ op.kind # "write" /\ run.updates
  /\ run' = None
  /\ UNCHANGED <<files, rejected, buf, op, rev, registry, dir, stats, worker,
                 counters, edit, seen>>
-----------------------------------------------------------------------------
(* The pending directory: every operation runs under Pending::ops.         *)

\* Mutant: an edited proposal may be replaced.
WriteSkipsNoEdit(p) == p.fp \in rejected \/ (json # None /\ json.fp = p.fp)

\* Pending::write: what keeps a proposal from being written.
WriteSkips(p) ==
  \/ p.fp \in rejected
  \/ json # None /\ (json.edited \/ json.fp = p.fp)

Locked(kind, step) == op = [kind |-> kind, step |-> step]

Goto(kind, step) == op' = [kind |-> kind, step |-> step]

WriteBegin ==
  /\ run # None /\ op = NoOp
  /\ IF WriteSkips(run) THEN run' = None /\ UNCHANGED op
     ELSE Goto("write", "lines") /\ UNCHANGED run
  /\ UNCHANGED <<files, rejected, buf, rev, registry, dir, stats, worker,
                 counters, edit, seen>>

WriteStep ==
  /\ \/ /\ Locked("write", "lines") /\ Goto("write", "toml")
        /\ lines' = run.fp /\ UNCHANGED <<toml, json, run>>
     \/ /\ Locked("write", "toml") /\ Goto("write", "json")
        /\ toml' = [text |-> run.fp, ver |-> run.ver, valid |-> TRUE]
        /\ UNCHANGED <<lines, json, run>>
     \/ /\ Locked("write", "json") /\ op' = NoOp
        /\ json' = [fp |-> run.fp, updates |-> run.updates, edited |-> FALSE]
        /\ run' = None /\ UNCHANGED <<lines, toml>>
  /\ UNCHANGED <<active, kept, rejDir, rejected, buf, rev, registry, dir,
                 stats, worker, counters, edit, seen>>

\* A request of the reviewer that passes its first checks.
Request(kind, step) ==
  /\ rev = "idle" /\ op = NoOp /\ json # None /\ ops < MaxOps
  /\ rev' = kind /\ ops' = ops + 1 /\ Goto(kind, step)

\* put_text saves any text; regenerate needs one that loads, and keeps it
\* loading.  Either marks the proposal edited.
EditBegin ==
  /\ Request("edit", "toml")
  /\ UNCHANGED <<files, rejected, buf, run, registry, dir, stats, worker,
                 batches, kills, edit, seen>>

EditStep ==
  /\ \/ /\ Locked("edit", "toml") /\ Goto("edit", "json")
        /\ \E valid \in BOOLEAN :
             toml' = [text |-> [by |-> "edit", nr |-> ops], valid |-> valid,
                      ver |-> IF toml = None THEN 1 ELSE toml.ver]
        /\ UNCHANGED <<json, edit, rev>>
     \/ /\ Locked("edit", "json") /\ op' = NoOp /\ rev' = "idle"
        /\ json' = [json EXCEPT !.edited = TRUE]
        /\ edit' = toml /\ UNCHANGED toml
  /\ UNCHANGED <<lines, active, kept, rejDir, rejected, buf, run, registry,
                 dir, stats, worker, counters, seen>>

\* Pending::approve: the text loads, and only an update may replace a parser.
\* active_names was read off the registry before the lock.
ApproveBegin ==
  /\ json # None /\ toml # None /\ toml.valid
  /\ IF json.updates THEN Request("approve", "keep")
     ELSE active = None /\ pipeline = None /\ Request("approve", "parser")
  /\ UNCHANGED <<files, rejected, buf, run, registry, dir, stats, worker,
                 batches, kills, edit, seen>>

\* Mutant: the replaced text is not kept.
KeepNothing == kept' = kept

\* The text an update replaces is kept beside the evidence.
Keep ==
  kept' = IF active = None THEN kept
          ELSE [v \in DOMAIN kept \cup {active.ver} |->
                  IF v = active.ver THEN active.text ELSE kept[v]]

ApproveStep ==
  /\ \/ /\ Locked("approve", "keep") /\ Goto("approve", "parser")
        /\ Keep /\ UNCHANGED <<active, dir, json, toml, lines, rev, edit>>
     \/ /\ Locked("approve", "parser") /\ Goto("approve", "json")
        /\ active' = [text |-> toml.text, ver |-> toml.ver]
        /\ dir' = dir + 1
        /\ UNCHANGED <<kept, json, toml, lines, rev, edit>>
     \/ /\ Locked("approve", "json") /\ Goto("approve", "toml")
        /\ json' = None /\ edit' = None
        /\ UNCHANGED <<kept, active, dir, toml, lines, rev>>
     \/ /\ Locked("approve", "toml") /\ Goto("approve", "lines")
        /\ toml' = None
        /\ UNCHANGED <<kept, active, dir, json, lines, rev, edit>>
     \/ /\ Locked("approve", "lines") /\ op' = NoOp /\ rev' = "load"
        /\ lines' = None
        /\ UNCHANGED <<kept, active, dir, json, toml, edit>>
  /\ UNCHANGED <<rejDir, rejected, buf, run, registry, stats, worker,
                 counters, seen>>

\* Pending::reject: the record moves first.
RejectBegin ==
  /\ Request("reject", "json")
  /\ UNCHANGED <<files, rejected, buf, run, registry, dir, stats, worker,
                 batches, kills, edit, seen>>

RejectStep ==
  /\ \/ /\ Locked("reject", "json") /\ Goto("reject", "toml")
        /\ rejDir' = rejDir \cup {json.fp} /\ json' = None /\ edit' = None
        /\ UNCHANGED <<toml, lines, rejected, rev>>
     \/ /\ Locked("reject", "toml") /\ Goto("reject", "lines")
        /\ toml' = None
        /\ UNCHANGED <<json, lines, rejDir, rejected, rev, edit>>
     \/ /\ Locked("reject", "lines") /\ op' = NoOp /\ rev' = "clear"
        /\ lines' = None /\ rejected' = rejected \cup rejDir
        /\ UNCHANGED <<json, toml, rejDir, edit>>
  /\ UNCHANGED <<active, kept, buf, run, registry, dir, stats, worker,
                 counters, seen>>
-----------------------------------------------------------------------------
(* Live::approve and Live::reject, after the directory.                    *)

\* reload_parsers: the directory is read ...
ReviewLoad ==
  /\ rev = "load" /\ rev' = "install" /\ revLoad' = active
  /\ UNCHANGED <<files, rejected, buf, run, op, pipeline, sig, poll, pollLoad,
                 dir, stats, worker, counters, edit, seen>>

\* ... and swapped in, with the directory's signature as it is by then.
ReviewInstall ==
  /\ rev = "install" /\ rev' = "clear" /\ revLoad' = None
  /\ pipeline' = revLoad /\ sig' = dir
  /\ UNCHANGED <<files, rejected, buf, run, op, poll, pollLoad, dir, stats,
                 worker, counters, edit, seen>>

\* Inference::clear.
ReviewClear ==
  /\ rev = "clear" /\ rev' = "drift" /\ buf' = None
  /\ UNCHANGED <<files, rejected, run, op, registry, dir, stats, worker,
                 counters, edit, seen>>

ReviewClearDrift ==
  /\ rev = "drift" /\ rev' = "idle" /\ stats' = ClearDrift(stats)
  /\ seen' = IF Routing(stats) THEN 0 ELSE seen
  /\ UNCHANGED <<files, rejected, buf, run, op, registry, dir, worker,
                 counters, edit>>
-----------------------------------------------------------------------------
(* The poller.                                                             *)

\* parsers_dir_changed.
PollChanged ==
  /\ poll = "idle" /\ sig # dir /\ poll' = "load" /\ sig' = dir
  /\ UNCHANGED <<files, rejected, buf, run, op, rev, pipeline, revLoad,
                 pollLoad, dir, stats, worker, counters, edit, seen>>

PollLoad ==
  /\ poll = "load" /\ poll' = "install" /\ pollLoad' = active
  /\ UNCHANGED <<files, rejected, buf, run, op, rev, pipeline, sig, revLoad,
                 dir, stats, worker, counters, edit, seen>>

PollInstall ==
  /\ poll = "install" /\ poll' = "idle" /\ pollLoad' = None
  /\ pipeline' = pollLoad /\ sig' = dir
  /\ UNCHANGED <<files, rejected, buf, run, op, rev, revLoad, dir, stats,
                 worker, counters, edit, seen>>

\* on_trip, if the registry has the parser.
Tripped == IF pipeline = None THEN buf' = buf
           ELSE buf' = SetPrior(buf, pipeline)

\* n more events were judged.
Seen(n) ==
  seen' = IF stats.drift # "cleared" /\ stats'.drift = "cleared" THEN 0
          ELSE seen + n

\* judge_quiet_sources: the window of a source that has gone quiet.
JudgeQuiet ==
  /\ poll = "idle" /\ stats.misses >= MinMisses
  /\ stats' = Judge(stats) /\ Seen(0)
  /\ poll' = IF Trips(stats) THEN "trip" ELSE "idle"
  /\ UNCHANGED <<files, rejected, buf, run, op, rev, pipeline, sig, revLoad,
                 pollLoad, dir, worker, counters, edit>>

PollTrip ==
  /\ poll = "trip" /\ poll' = "idle" /\ Tripped
  /\ UNCHANGED <<files, rejected, run, op, rev, pipeline, sig, revLoad,
                 pollLoad, dir, stats, worker, counters, edit, seen>>
-----------------------------------------------------------------------------
(* A worker: worker_thread from process_batch to the send.                 *)

\* A batch of n events is processed and its unknown events are offered.
WorkBatch(n, unknown, failed) ==
  /\ worker.at = "idle" /\ batches < MaxBatches
  /\ unknown + failed <= n /\ (pipeline = None => unknown = n)
  /\ batches' = batches + 1
  /\ worker' = [at |-> "observe", n |-> n, unknown |-> unknown,
                failed |-> failed]
  /\ buf' = Offer(buf, unknown)
  /\ UNCHANGED <<files, rejected, run, op, rev, registry, dir, stats, ops,
                 kills, edit, seen>>

\* The source's window, under the lock of `sources`.
WorkObserve ==
  /\ worker.at = "observe"
  /\ LET misses == worker.unknown + worker.failed
         detected == worker.unknown < worker.n
         c == Counted(stats, worker.n, misses, detected)
         trips == c.events >= Window /\ Trips(c)
         s == Observe(stats, worker.n, misses, detected)
     IN  /\ stats' = s /\ Seen(worker.n)
         /\ worker' = [worker EXCEPT !.at = IF trips THEN "trip"
                         ELSE IF Routing(s) THEN "route" ELSE "idle"]
  /\ UNCHANGED <<files, rejected, buf, run, op, rev, registry, dir, counters,
                 edit>>

\* on_trip, or the failed events of a source that is routed.
WorkEnd ==
  /\ \/ worker.at = "trip" /\ Tripped
     \/ worker.at = "route" /\ buf' = Offer(buf, worker.failed)
  /\ worker' = NoBatch
  /\ UNCHANGED <<files, rejected, run, op, rev, registry, dir, stats, counters,
                 edit, seen>>
-----------------------------------------------------------------------------
\* Mutant: a restart does not look under rejected/.
OpenForgets == rejected' = {}

\* Pending::open.
OpenRejected == rejected' = rejDir

\* A kill, and the next start: Live::open reads the two directories.
Kill ==
  /\ kills < MaxKills /\ kills' = kills + 1
  /\ OpenRejected
  /\ buf' = None /\ run' = None /\ op' = NoOp /\ rev' = "idle"
  /\ revLoad' = None /\ poll' = "idle" /\ pollLoad' = None
  /\ pipeline' = active /\ sig' = dir
  /\ stats' = NoStats /\ worker' = NoBatch /\ seen' = 0
  /\ UNCHANGED <<files, dir, batches, ops, edit>>

InferStep == TakeDue \/ RunEmpty \/ WriteBegin \/ WriteStep

RevStep == EditStep \/ ApproveStep \/ RejectStep \/ ReviewLoad \/ ReviewInstall
           \/ ReviewClear \/ ReviewClearDrift

PollStep == PollChanged \/ PollLoad \/ PollInstall \/ PollTrip

WorkStep == WorkObserve \/ WorkEnd

Next ==
  \/ InferStep \/ RevStep \/ PollStep \/ JudgeQuiet \/ WorkStep \/ Kill
  \/ EditBegin \/ ApproveBegin \/ RejectBegin
  \/ \E n \in {1, Batch} : \E u, f \in {0, n} : WorkBatch(n, u, f)

Spec == Init /\ [][Next]_vars

\* The threads run; nobody has to review, and no event has to come.
FairSpec ==
  /\ Spec
  /\ WF_vars(InferStep) /\ WF_vars(RevStep) /\ WF_vars(PollStep)
  /\ WF_vars(WorkStep)
-----------------------------------------------------------------------------
(* Properties.                                                             *)

\* The types of the loop's state; a buffer never exceeds its bound, and a
\* window is emptied when it is full.
TypeOK ==
  /\ json = None \/ json.edited \in BOOLEAN
  /\ buf = None \/ (buf.n \in 0 .. MaxBuffer /\ buf.ranAt <= buf.n)
  /\ stats.events \in 0 .. Window - 1 /\ stats.misses <= stats.events
  /\ stats.clean \in 0 .. CleanWindows
  /\ DOMAIN kept \subseteq Nat /\ sig <= dir

\* What a human saved and was told is saved stays the proposal's text until it
\* is approved or rejected, whatever the engine infers meanwhile and wherever
\* it is killed (put_text, "so the engine stops replacing it").
EditKept == edit # None => json # None /\ json.edited /\ toml.text.by = "edit"

\* A fingerprint a human rejected is never proposed again, also after a kill
\* at any point of the rejection ("a rejected proposal's fingerprint is
\* remembered so the engine cannot resubmit it").
RejectedStays == json # None => json.fp \notin rejDir

\* A source whose misses are routed has its parser as the prior of its next
\* proposal, except while a trip or a review is half done (on_trip, clear,
\* clear_drift under three locks).
RoutingHasPrior ==
  Routing(stats) /\ worker.at # "trip" /\ poll # "trip" /\ rev # "drift" =>
    buf # None /\ buf.prior # None

\* A source trips only against a baseline seen since it was last cleared: after
\* a review, or after the device went back on its own, at least Established
\* events come before the next alert ("the baseline starts afresh").
TripsOnFreshBaseline ==
  [][~Routing(stats) /\ Routing(stats') => seen >= Established]_<<stats, seen>>

\* Lines a run has not seen are clustered, or forgotten by a review, without
\* another line having to come ("a burst that stops short of the next doubling
\* is still clustered in full").
QuietIsClustered ==
  (buf # None /\ buf.n >= buf.ranAt + MinSupport)
    ~> (buf = None \/ buf.n < buf.ranAt + MinSupport)

\* The text an approval replaced can still be read: it is active, or kept
\* ("so no version is ever lost").
ReplacedIsKept ==
  [][active # None /\ active'.text # active.text
       => active.ver \in DOMAIN kept /\ kept[active.ver] = active.text]_active

\* One change of the parsers directory is always picked up: once the reviewer
\* and the poller are done, the registry is the directory (reload_parsers).  A
\* second change can be lost: a load that began before it may be installed
\* after it, and with it the signature of the directory as it is then.
OneChangeIsLoaded ==
  rev = "idle" /\ poll = "idle" /\ op = NoOp /\ sig = dir /\ dir <= 1 =>
    pipeline = active

\* Rejections hold, a drifting source has its prior, and a change of the
\* parsers is loaded (pending.rs, inference.rs, reload_parsers).
ReviewSound == TypeOK /\ RejectedStays /\ RoutingHasPrior /\ OneChangeIsLoaded

\* Alerts and proposals come when they are due: on a fresh baseline, and for
\* lines of a source that fell silent (SourceStats::judge, take_due).
LoopIsTimely == TripsOnFreshBaseline /\ QuietIsClustered
=============================================================================
