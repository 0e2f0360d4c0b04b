---------------------------- MODULE ReviewProofs ----------------------------
(***************************************************************************)
(* The learning loop of module Review, for every threshold, buffer size,   *)
(* window and number of operations: an edit a human saved and a rejection  *)
(* hold whatever the engine infers and wherever it is killed, a drifting   *)
(* source has its prior, no replaced parser is lost, and an alert needs a  *)
(* fresh baseline.                                                         *)
(*                                                                         *)
(* The properties look at the files; what makes them inductive is what the *)
(* holder of Pending::ops has seen before it took its step (Proposals) and *)
(* which readings of the parsers directory are on their way (DirLoads).    *)
(***************************************************************************)
EXTENDS Review, TLAPS

-----------------------------------------------------------------------------
(* Shapes.                                                                 *)

\* A text of some version.
IsParser(p) == p = [text |-> p.text, ver |-> p.ver] /\ p.ver \in Nat

NoneOrParser(p) == p = None \/ IsParser(p)

\* The steps of the operations that hold Pending::ops.
Ops ==
  {NoOp} \cup [kind : {"write"}, step : {"lines", "toml", "json"}]
    \cup [kind : {"edit"}, step : {"toml", "json"}]
    \cup [kind : {"approve"},
          step : {"keep", "parser", "json", "toml", "lines"}]
    \cup [kind : {"reject"}, step : {"json", "toml", "lines"}]

\* The proposal's record, text and lines, and the run that writes them.
FilesType ==
  /\ json = None \/ /\ json = [fp |-> json.fp, updates |-> json.updates,
                               edited |-> json.edited]
                    /\ json.edited \in BOOLEAN
  /\ toml = None \/ /\ toml = [text |-> toml.text, ver |-> toml.ver,
                               valid |-> toml.valid]
                    /\ toml.ver \in Nat
  /\ run = None \/ /\ run = [fp |-> run.fp, updates |-> run.updates,
                             ver |-> run.ver]
                   /\ run.ver \in Nat
  /\ DOMAIN kept \subseteq Nat /\ op \in Ops

\* The registry and the loads of it.
ParsersType ==
  /\ NoneOrParser(active) /\ NoneOrParser(pipeline)
  /\ NoneOrParser(revLoad) /\ NoneOrParser(pollLoad)
  /\ sig \in Nat /\ dir \in Nat /\ sig <= dir
  /\ rev \in {"idle", "edit", "approve", "reject", "load", "install", "clear",
              "drift"}
  /\ poll \in {"idle", "load", "install", "trip"}

\* The source's buffer holds no more than its bound.
BufferType ==
  buf = None \/ /\ buf = [n |-> buf.n, ranAt |-> buf.ranAt,
                          nextRun |-> buf.nextRun, prior |-> buf.prior]
                /\ buf.n \in 0 .. MaxBuffer /\ buf.ranAt \in Nat
                /\ buf.ranAt <= buf.n
                /\ NoneOrParser(buf.prior)

Stats ==
  [drift : {"none", "watching", "tripped", "proposed", "cleared"},
   events : Nat, misses : Nat, baseEvents : Nat, baseMisses : Nat,
   clean : Nat, parser : BOOLEAN]

\* The source's window and baseline, and the worker's batch; the baseline was
\* seen since the last clear.
StatsType ==
  /\ stats \in Stats
  /\ stats.events < Window /\ stats.misses <= stats.events
  /\ stats.clean <= CleanWindows
  /\ Routing(stats) => stats.clean < CleanWindows
  /\ stats.baseEvents + stats.events <= seen /\ seen \in Nat
  /\ worker \in [at : {"idle", "observe", "trip", "route"}, n : Nat,
                 unknown : Nat, failed : Nat]
  /\ worker.unknown + worker.failed <= worker.n

-----------------------------------------------------------------------------
(* What the holder of the lock knows, and which loads are on their way.    *)

\* A proposal that is being written replaces no edit and was not rejected; a
\* record that is being edited, approved or rejected is there until its step;
\* the text an approval is about to replace is kept.
Proposals ==
  /\ op.kind \in {"edit", "approve", "reject"} => rev = op.kind
  /\ op.kind = "write" => run # None /\ run.fp \notin rejDir /\ edit = None
  /\ op.kind = "edit" => json # None
  /\ Locked("edit", "json") => toml # None /\ toml.text.by = "edit"
  /\ Locked("reject", "json") => json # None
  /\ op.kind = "approve" /\ op.step \in {"keep", "parser"} => toml # None
  /\ op.kind \in {"approve", "reject"} /\ op.step \in {"toml", "lines"} =>
       json = None
  /\ op.kind # "reject" => rejDir \subseteq rejected
  /\ Locked("approve", "parser") =>
       \/ active = None
       \/ active.ver \in DOMAIN kept /\ kept[active.ver] = active.text

\* A load begins only when the directory has a parser, and is of the directory
\* as it is while one change is all there was.
DirLoads ==
  /\ dir > 0 => active # None
  /\ poll \in {"load", "install"} => dir > 0
  /\ rev \in {"load", "install"} => dir > 0
  /\ op.kind = "approve" /\ op.step \in {"json", "toml", "lines"} => dir > 0
  /\ poll = "install" => pollLoad # None /\ (dir <= 1 => pollLoad = active)
  /\ rev = "install" => revLoad # None /\ (dir <= 1 => revLoad = active)
  /\ sig = dir /\ dir <= 1 =>
       pipeline = active \/ poll \in {"load", "install"}

\* The registry never loses its parser, so what the windows of a source know
\* of one still holds when the trip is handled.
ParserKnown ==
  /\ stats.parser => pipeline # None
  /\ worker.at = "observe" /\ worker.unknown < worker.n => pipeline # None
  /\ worker.at = "trip" \/ poll = "trip" => pipeline # None

\* The shapes of the whole state.
TypesInv == FilesType /\ ParsersType /\ BufferType /\ StatsType

\* The inductive invariant.
ReviewInv ==
  /\ TypesInv /\ Proposals /\ DirLoads /\ ParserKnown
  /\ EditKept /\ RejectedStays /\ RoutingHasPrior
-----------------------------------------------------------------------------
\* None is none of the records the variables hold.
LEMMA NoneIsNoProposal ==
  /\ \A a, b, c : [fp |-> a, updates |-> b, edited |-> c] # None
  /\ \A a, b, c : [fp |-> a, updates |-> b, ver |-> c] # None
  /\ \A a, b, c : [text |-> a, ver |-> b, valid |-> c] # None
  /\ \A a, b : [text |-> a, ver |-> b] # None
  /\ \A a, b, c, d : [n |-> a, ranAt |-> b, nextRun |-> c, prior |-> d] # None
BY DEF None

\* The proposal's files keep their shapes, step by step of each operation.
LEMMA FilesStep ==
  ASSUME TypesInv, Proposals, Next
  PROVE  FilesType'
<1> USE DEF FilesType, TypesInv
<1>1. CASE TakeDue
  BY <1>1 DEF TakeDue, Proposal, BufferType, NoneOrParser, IsParser, Due, files
<1>2. CASE RunEmpty
  BY <1>2 DEF RunEmpty, files
<1>3. CASE WriteBegin
  BY <1>3 DEF WriteBegin, files, Goto, Ops
<1>4. CASE WriteStep
  <2>1. op.kind = "write" /\ run # None
    BY <1>4 DEF WriteStep, Locked, Proposals
  <2>2. /\ UNCHANGED kept
        /\ op' \in Ops
        /\ run' \in {run, None}
    BY <1>4 DEF WriteStep, Locked, Goto, Ops
  <2>3. /\ toml' = toml
           \/ toml' = [text |-> run.fp, ver |-> run.ver, valid |-> TRUE]
        /\ json' = json
           \/ json' = [fp |-> run.fp, updates |-> run.updates,
                       edited |-> FALSE]
    BY <1>4 DEF WriteStep
  <2>4. \/ toml' = toml
        \/ /\ toml' = [text |-> toml'.text, ver |-> toml'.ver,
                       valid |-> toml'.valid]
           /\ toml'.ver = run.ver
    BY <2>3
  <2>5. \/ json' = json
        \/ /\ json' = [fp |-> json'.fp, updates |-> json'.updates,
                       edited |-> json'.edited]
           /\ json'.edited = FALSE
    BY <2>3
  <2>6. run.ver \in Nat
    BY <2>1
  <2> QED
    BY <2>2, <2>4, <2>5, <2>6
<1>5. CASE EditBegin
  BY <1>5 DEF EditBegin, Request, files, Goto, Ops
<1>6. CASE EditStep
  <2>1. op.kind = "edit" /\ json # None
    BY <1>6 DEF EditStep, Locked, Proposals
  <2>2. /\ UNCHANGED <<kept, run>>
        /\ op' \in Ops
    BY <1>6 DEF EditStep, Locked, Goto, Ops
  <2>3. json' \in {json, [json EXCEPT !.edited = TRUE]}
    BY <1>6 DEF EditStep
  <2>4. \/ toml' = toml
        \/ \E t, valid : toml' = [text |-> t, valid |-> valid,
                                ver |-> IF toml = None THEN 1 ELSE toml.ver]
    BY <1>6 DEF EditStep
  <2>5. /\ json' = [fp |-> json'.fp, updates |-> json'.updates,
                    edited |-> json'.edited]
        /\ json'.edited \in BOOLEAN
    BY <2>1, <2>3
  <2>6. \/ toml' = toml
        \/ /\ toml' = [text |-> toml'.text, ver |-> toml'.ver,
                       valid |-> toml'.valid]
           /\ toml'.ver \in Nat
    BY <2>4
  <2> QED
    BY <2>2, <2>5, <2>6
<1>7. CASE ApproveBegin
  BY <1>7 DEF ApproveBegin, Request, files, Goto, Ops
<1>8. CASE ApproveStep
  BY <1>8 DEF ApproveStep, files, Goto, Locked, Ops, Proposals, Keep,
              ParsersType, NoneOrParser, IsParser
<1>9. CASE RejectBegin
  BY <1>9 DEF RejectBegin, Request, files, Goto, Ops
<1>10. CASE RejectStep
  BY <1>10 DEF RejectStep, files, Goto, Locked, Ops, Proposals
<1>11. CASE Kill
  BY <1>11 DEF Kill, files, Ops
<1>12. CASE UNCHANGED <<json, toml, run, kept, op>>
  BY <1>12
<1> QED
  BY <1>1, <1>2, <1>3, <1>4, <1>5, <1>6, <1>7, <1>8, <1>9, <1>10, <1>11, <1>12
     DEF Next, InferStep, RevStep, PollStep, WorkStep, ReviewLoad,
         ReviewInstall, ReviewClear, ReviewClearDrift, PollChanged, PollLoad,
         PollInstall, PollTrip, JudgeQuiet, WorkBatch, WorkObserve, WorkEnd,
         files

\* The registry, and the loads of it, are parsers of some version.
LEMMA ParsersStep ==
  ASSUME TypesInv, Proposals, Next
  PROVE  ParsersType'
<1> USE DEF TypesInv, ParsersType, NoneOrParser, IsParser
<1>1. CASE EditBegin \/ ApproveBegin \/ RejectBegin
  BY <1>1 DEF EditBegin, ApproveBegin, RejectBegin, Request, files, registry
<1>2. CASE EditStep
  BY <1>2 DEF EditStep, registry
<1>3. CASE ApproveStep
  <2>1. Locked("approve", "parser") => toml # None
    BY DEF Locked, Proposals
  <2>2. CASE Locked("approve", "parser")
    BY <1>3, <2>1, <2>2 DEF ApproveStep, Locked, registry, FilesType
  <2> QED
    BY <1>3, <2>2 DEF ApproveStep, registry
<1>4. CASE RejectStep
  BY <1>4 DEF RejectStep, registry
<1>5. CASE ReviewLoad \/ ReviewInstall \/ ReviewClear \/ ReviewClearDrift
  BY <1>5 DEF ReviewLoad, ReviewInstall, ReviewClear, ReviewClearDrift, files,
              registry
<1>6. CASE PollChanged \/ PollLoad \/ PollInstall \/ PollTrip
  BY <1>6 DEF PollChanged, PollLoad, PollInstall, PollTrip, files
<1>7. CASE JudgeQuiet
  BY <1>7 DEF JudgeQuiet, files
<1>8. CASE Kill
  BY <1>8 DEF Kill, files
<1>9. CASE UNCHANGED <<active, pipeline, revLoad, pollLoad, sig, dir, rev,
                       poll>>
  BY <1>9
<1> QED
  BY <1>1, <1>2, <1>3, <1>4, <1>5, <1>6, <1>7, <1>8, <1>9
     DEF Next, InferStep, RevStep, PollStep, WorkStep, TakeDue, RunEmpty,
         WriteBegin, WriteStep, WorkBatch, WorkObserve, WorkEnd, files,
         registry

\* offer_batch keeps a buffer in its bound, and its prior.
LEMMA OfferIsBuffer ==
  ASSUME BufferType, NEW k \in Nat, buf' = Offer(buf, k)
  PROVE  /\ BufferType'
         /\ buf # None /\ buf.prior # None =>
              buf' # None /\ buf'.prior # None
<1>1. CASE k = 0
  BY <1>1 DEF Offer, BufferType
<1>2. CASE k # 0 /\ buf = None
  BY <1>2, ReviewAssumption DEF Offer, BufferType, Fresh, NoneOrParser
<1>3. CASE k # 0 /\ buf # None
  BY <1>3, ReviewAssumption, NoneIsNoProposal DEF Offer, BufferType
<1> QED
  BY <1>1, <1>2, <1>3

\* on_trip keeps a buffer in its bound, and gives it a prior.
LEMMA TrippedIsBuffer ==
  ASSUME BufferType, NoneOrParser(pipeline), Tripped
  PROVE  BufferType' /\ (pipeline # None => buf' # None /\ buf'.prior # None)
<1>1. CASE pipeline = None
  BY <1>1 DEF Tripped, BufferType
<1>2. CASE pipeline # None
  <2> DEFINE b == IF buf = None THEN Fresh ELSE buf
  <2>1. /\ b = [n |-> b.n, ranAt |-> b.ranAt, nextRun |-> b.nextRun,
               prior |-> b.prior]
        /\ b.n \in 0 .. MaxBuffer
    BY ReviewAssumption DEF BufferType, Fresh
  <2>2. buf' = [b EXCEPT !.ranAt = 0, !.nextRun = Threshold,
                         !.prior = pipeline]
    BY <1>2 DEF Tripped, SetPrior
  <2> HIDE DEF b
  <2>3. buf' = [n |-> b.n, ranAt |-> 0, nextRun |-> Threshold,
                prior |-> pipeline]
    BY <2>1, <2>2
  <2> QED
    BY <1>2, <2>1, <2>3, NoneIsNoProposal, ReviewAssumption DEF BufferType
<1> QED
  BY <1>1, <1>2

\* A buffer stays in its bound.
LEMMA BufferStep ==
  ASSUME TypesInv, Next
  PROVE  BufferType'
<1> USE DEF TypesInv
<1>1. CASE TakeDue
  <2>1. buf # None
    BY <1>1 DEF TakeDue, Due
  <2>2. PICK k : buf' = [buf EXCEPT !.ranAt = buf.n, !.nextRun = k]
    BY <1>1 DEF TakeDue
  <2>3. buf' = [n |-> buf.n, ranAt |-> buf.n, nextRun |-> k,
                prior |-> buf.prior]
    BY <2>1, <2>2 DEF BufferType
  <2> QED
    BY <2>1, <2>3, ReviewAssumption DEF BufferType
<1>2. CASE ReviewClear
  BY <1>2 DEF ReviewClear, BufferType
<1>3. CASE PollTrip
  BY <1>3, TrippedIsBuffer DEF PollTrip, ParsersType
<1>4. ASSUME NEW n \in {1, Batch}, NEW u \in {0, n}, NEW f \in {0, n},
             WorkBatch(n, u, f)
      PROVE  BufferType'
  BY <1>4, OfferIsBuffer, ReviewAssumption DEF WorkBatch
<1>5. CASE WorkEnd
  <2>1. worker.failed \in Nat
    BY DEF StatsType
  <2> QED
    BY <1>5, <2>1, TrippedIsBuffer, OfferIsBuffer DEF WorkEnd, ParsersType
<1>6. CASE Kill
  BY <1>6 DEF Kill, BufferType
<1>7. CASE UNCHANGED buf
  BY <1>7 DEF BufferType
<1> QED
  BY <1>1, <1>2, <1>3, <1>4, <1>5, <1>6, <1>7
     DEF Next, InferStep, RevStep, PollStep, WorkStep, RunEmpty, WriteBegin,
         WriteStep, EditBegin, EditStep, ApproveBegin, ApproveStep,
         RejectBegin, RejectStep, ReviewLoad, ReviewInstall, ReviewClearDrift,
         PollChanged, PollLoad, PollInstall, JudgeQuiet, WorkObserve
-----------------------------------------------------------------------------
(* The drift judgement.                                                    *)

\* An alert is cleared by its last clean window.
Judged(s) ==
  /\ s.clean <= CleanWindows
  /\ Routing(s) => s.clean < CleanWindows

\* SourceStats::judge empties the window; a baseline grows by no more than the
\* window, and is dropped when an alert clears; only a trip makes an alert.
LEMMA JudgeSound ==
  ASSUME NEW s \in Stats, Judged(s), NEW j, j = Judge(s)
  PROVE  /\ j \in Stats /\ Judged(j)
         /\ j.events = 0 /\ j.misses = 0 /\ j.parser = s.parser
         /\ j.baseEvents <= s.baseEvents + s.events
         /\ s.drift # "cleared" /\ j.drift = "cleared" => j.baseEvents = 0
         /\ Routing(j) /\ ~Routing(s) => Trips(s)
<1> DEFINE w(d, be, bm, c) ==
      [drift |-> d, events |-> 0, misses |-> 0, baseEvents |-> be,
       baseMisses |-> bm, clean |-> c, parser |-> s.parser]
<1>0. /\ s = [drift |-> s.drift, events |-> s.events, misses |-> s.misses,
              baseEvents |-> s.baseEvents, baseMisses |-> s.baseMisses,
              clean |-> s.clean, parser |-> s.parser]
      /\ s.drift \in {"none", "watching", "tripped", "proposed", "cleared"}
      /\ s.events \in Nat /\ s.misses \in Nat /\ s.baseEvents \in Nat
      /\ s.baseMisses \in Nat /\ s.clean \in Nat /\ s.parser \in BOOLEAN
  BY DEF Stats
<1>1. CASE s.events = 0
  <2>1. j = w(s.drift, s.baseEvents, s.baseMisses, s.clean)
    BY <1>0, <1>1 DEF Judge, Emptied
  <2> QED
    BY <1>0, <1>1, <2>1 DEF Stats, Judged, Routing
<1>2. CASE s.events # 0 /\ Trips(s)
  <2>1. j = w("tripped", s.baseEvents, s.baseMisses, 0)
    BY <1>0, <1>2 DEF Judge, Emptied
  <2> QED
    BY <1>0, <1>2, <2>1, DriftAssumption DEF Stats, Judged, Routing
<1>3. CASE s.events # 0 /\ ~Trips(s) /\ ~Routing(s)
  <2>1. PICK d \in {"watching", s.drift} :
          j = w(d, s.baseEvents + s.events, s.baseMisses + s.misses, s.clean)
    BY <1>0, <1>3 DEF Judge, Emptied
  <2> QED
    BY <1>0, <1>3, <2>1 DEF Stats, Judged, Routing
<1>4. CASE s.events # 0 /\ ~Trips(s) /\ Routing(s) /\ Jumped(s)
  <2>1. j = w(s.drift, s.baseEvents, s.baseMisses, 0)
    BY <1>0, <1>4 DEF Judge, Emptied
  <2> QED
    BY <1>0, <1>4, <2>1, DriftAssumption DEF Stats, Judged, Routing
<1>5. CASE /\ s.events # 0 /\ ~Trips(s) /\ Routing(s) /\ ~Jumped(s)
           /\ s.clean + 1 < CleanWindows
  <2>1. j = w(s.drift, s.baseEvents, s.baseMisses, s.clean + 1)
    BY <1>0, <1>5 DEF Judge, Emptied
  <2> QED
    BY <1>0, <1>5, <2>1, DriftAssumption DEF Stats, Judged, Routing
<1>6. CASE /\ s.events # 0 /\ ~Trips(s) /\ Routing(s) /\ ~Jumped(s)
           /\ ~(s.clean + 1 < CleanWindows)
  <2>1. j = w("cleared", 0, 0, s.clean + 1)
    BY <1>0, <1>6 DEF Judge, Emptied
  <2> QED
    BY <1>0, <1>6, <2>1, DriftAssumption DEF Stats, Judged, Routing
<1> QED
  BY <1>1, <1>2, <1>3, <1>4, <1>5, <1>6

\* The statistics of a source between two batches.
Windowed(s) ==
  /\ s \in Stats /\ Judged(s)
  /\ s.events < Window /\ s.misses <= s.events

\* SourceStats::observe folds a batch in and judges a full window; a source
\* that trips has an established baseline, and some parser took its events.
LEMMA ObserveSound ==
  ASSUME NEW s, Windowed(s), NEW n \in Nat, NEW m \in Nat, m <= n,
         NEW d \in BOOLEAN,
         NEW c, c = Counted(s, n, m, d), NEW o, o = Observe(s, n, m, d)
  PROVE  /\ Windowed(o)
         /\ o.baseEvents + o.events <= s.baseEvents + s.events + n
         /\ s.drift # "cleared" /\ o.drift = "cleared" =>
              o.baseEvents + o.events = 0
         /\ o.parser => s.parser \/ d
         /\ Routing(o) /\ ~Routing(s) => c.events >= Window /\ Trips(c)
         /\ Trips(c) => /\ s.baseEvents >= Established
                        /\ s.parser \/ d
<1>0. /\ s = [drift |-> s.drift, events |-> s.events, misses |-> s.misses,
              baseEvents |-> s.baseEvents, baseMisses |-> s.baseMisses,
              clean |-> s.clean, parser |-> s.parser]
      /\ s.drift \in {"none", "watching", "tripped", "proposed", "cleared"}
      /\ s.events \in Nat /\ s.misses \in Nat /\ s.baseEvents \in Nat
      /\ s.baseMisses \in Nat /\ s.clean \in Nat /\ s.parser \in BOOLEAN
  BY DEF Stats, Windowed
<1>1. PICK p \in BOOLEAN : p = (s.parser \/ d)
  BY <1>0
<1>2. c = [drift |-> s.drift, events |-> s.events + n,
           misses |-> s.misses + m, baseEvents |-> s.baseEvents,
           baseMisses |-> s.baseMisses, clean |-> s.clean, parser |-> p]
  BY <1>0, <1>1 DEF Counted
<1>3. /\ c \in Stats /\ Judged(c) /\ (Routing(c) <=> Routing(s))
      /\ c.misses <= c.events
  BY <1>0, <1>2 DEF Stats, Windowed, Judged, Routing
<1>4. o = IF c.events < Window THEN c ELSE Judge(c)
  BY DEF Observe
<1>5. CASE c.events < Window
  <2>1. o = c
    BY <1>4, <1>5
  <2> QED
    BY <1>0, <1>1, <1>2, <1>3, <1>5, <2>1
       DEF Windowed, Trips, IsEstablished
<1>6. CASE ~(c.events < Window)
  <2>1. o = Judge(c)
    BY <1>4, <1>6
  <2>2. /\ o \in Stats /\ Judged(o)
        /\ o.events = 0 /\ o.misses = 0 /\ o.parser = c.parser
        /\ o.baseEvents <= c.baseEvents + c.events
        /\ c.drift # "cleared" /\ o.drift = "cleared" => o.baseEvents = 0
        /\ Routing(o) /\ ~Routing(c) => Trips(c)
    BY <1>3, <2>1, JudgeSound
  <2>3. Windowed(o)
    BY <2>2, DriftAssumption DEF Windowed
  <2>4. c.events >= Window /\ o.baseEvents \in Nat
    BY <1>2, <1>0, <1>6, <2>2, DriftAssumption DEF Stats
  <2> QED
    BY <1>0, <1>1, <1>2, <1>3, <2>2, <2>3, <2>4 DEF Trips, IsEstablished
<1> QED
  BY <1>5, <1>6

\* Live::clear_drift ends an alert and drops its baseline.
LEMMA ClearSound ==
  ASSUME NEW s, Windowed(s), NEW c, c = ClearDrift(s)
  PROVE  /\ Windowed(c) /\ ~Routing(c)
         /\ c.parser = s.parser
         /\ IF Routing(s) THEN c.baseEvents + c.events = 0 ELSE c = s
<1>0. /\ s = [drift |-> s.drift, events |-> s.events, misses |-> s.misses,
              baseEvents |-> s.baseEvents, baseMisses |-> s.baseMisses,
              clean |-> s.clean, parser |-> s.parser]
      /\ s.events \in Nat /\ s.clean \in Nat /\ s.parser \in BOOLEAN
  BY DEF Stats, Windowed
<1>1. CASE Routing(s)
  <2>1. c = [drift |-> "cleared", events |-> 0, misses |-> 0,
             baseEvents |-> 0, baseMisses |-> 0, clean |-> s.clean,
             parser |-> s.parser]
    BY <1>0, <1>1 DEF ClearDrift, Emptied
  <2> QED
    BY <1>0, <1>1, <2>1, DriftAssumption
       DEF Windowed, Judged, Routing, Stats
<1>2. CASE ~Routing(s)
  BY <1>2 DEF ClearDrift
<1> QED
  BY <1>1, <1>2

\* The window of the source, and the baseline that is no longer than what was
\* seen since the last clear.
LEMMA StatsStep ==
  ASSUME TypesInv, Next
  PROVE  StatsType'
<1>0. /\ Windowed(stats) /\ stats.baseEvents \in Nat /\ stats.events \in Nat
      /\ stats.baseEvents + stats.events <= seen /\ seen \in Nat
  BY DEF TypesInv, StatsType, Windowed, Judged, Stats
<1>1. CASE ReviewClearDrift
  <2>1. stats' = ClearDrift(stats)
    BY <1>1 DEF ReviewClearDrift
  <2>2. /\ Windowed(stats')
        /\ IF Routing(stats) THEN stats'.baseEvents + stats'.events = 0
           ELSE stats' = stats
    BY <1>0, <2>1, ClearSound
  <2>3. stats'.baseEvents + stats'.events <= seen' /\ seen' \in Nat
    BY <1>0, <1>1, <2>2 DEF ReviewClearDrift
  <2> QED
    BY <1>1, <2>2, <2>3
       DEF ReviewClearDrift, TypesInv, StatsType, Windowed, Judged
<1>2. CASE JudgeQuiet
  <2>1. stats' = Judge(stats) /\ UNCHANGED worker /\ Seen(0)
    BY <1>2 DEF JudgeQuiet
  <2>2. /\ stats' \in Stats /\ Judged(stats')
        /\ stats'.events = 0 /\ stats'.misses = 0
        /\ stats'.baseEvents <= stats.baseEvents + stats.events
        /\ stats.drift # "cleared" /\ stats'.drift = "cleared" =>
             stats'.baseEvents = 0
    BY <1>0, <2>1, JudgeSound DEF Windowed
  <2>3. stats'.baseEvents \in Nat
    BY <2>2 DEF Stats
  <2>4. stats'.baseEvents + stats'.events <= seen' /\ seen' \in Nat
    BY <1>0, <2>1, <2>2, <2>3 DEF Seen
  <2> QED
    BY <2>1, <2>2, <2>4, DriftAssumption DEF TypesInv, StatsType, Judged
<1>3. CASE WorkObserve
  <2> DEFINE m == worker.unknown + worker.failed
             d == worker.unknown < worker.n
             c == Counted(stats, worker.n, m, d)
  <2>1. /\ stats' = Observe(stats, worker.n, m, d) /\ Seen(worker.n)
        /\ \E a \in {"trip", "route", "idle"} :
              worker' = [worker EXCEPT !.at = a]
    BY <1>3 DEF WorkObserve
  <2>2. /\ worker \in [at : {"idle", "observe", "trip", "route"}, n : Nat,
                       unknown : Nat, failed : Nat]
        /\ m <= worker.n /\ m \in Nat /\ worker.n \in Nat /\ d \in BOOLEAN
    BY DEF TypesInv, StatsType
  <2>3. /\ Windowed(stats')
        /\ stats'.baseEvents + stats'.events
             <= stats.baseEvents + stats.events + worker.n
        /\ stats.drift # "cleared" /\ stats'.drift = "cleared" =>
              stats'.baseEvents + stats'.events = 0
    <3> HIDE DEF m, d
    <3> QED
      BY <1>0, <2>1, <2>2, ObserveSound
  <2>4. stats'.baseEvents \in Nat /\ stats'.events \in Nat
    BY <2>3 DEF Windowed, Stats
  <2>5. stats'.baseEvents + stats'.events <= seen' /\ seen' \in Nat
    BY <1>0, <2>1, <2>2, <2>3, <2>4 DEF Seen
  <2>6. /\ worker' \in [at : {"idle", "observe", "trip", "route"}, n : Nat,
                       unknown : Nat, failed : Nat]
        /\ worker'.unknown + worker'.failed <= worker'.n
    BY <2>1, <2>2
  <2> QED
    BY <2>3, <2>5, <2>6 DEF StatsType, Windowed, Judged
<1>4. ASSUME NEW n \in {1, Batch}, NEW u \in {0, n}, NEW f \in {0, n},
             WorkBatch(n, u, f)
      PROVE  StatsType'
  BY <1>4, ReviewAssumption DEF WorkBatch, TypesInv, StatsType
<1>5. CASE WorkEnd
  BY <1>5 DEF WorkEnd, NoBatch, TypesInv, StatsType
<1>6. CASE Kill
  BY <1>6, DriftAssumption
     DEF Kill, NoStats, NoBatch, StatsType, Stats, Routing
<1>7. CASE UNCHANGED <<stats, seen, worker>>
  BY <1>7 DEF TypesInv, StatsType
<1> QED
  BY <1>1, <1>2, <1>3, <1>4, <1>5, <1>6, <1>7
     DEF Next, InferStep, RevStep, PollStep, WorkStep, TakeDue, RunEmpty,
         WriteBegin, WriteStep, EditBegin, EditStep, ApproveBegin,
         ApproveStep, RejectBegin, RejectStep, ReviewLoad, ReviewInstall,
         ReviewClear, PollChanged, PollLoad, PollInstall, PollTrip
-----------------------------------------------------------------------------
(* The pending directory.                                                  *)

\* What holds of the pending directory.
Directory == Proposals /\ EditKept /\ RejectedStays

\* The inference thread, at each file operation of Pending::write.
LEMMA InferDirectory ==
  ASSUME TypesInv, Directory, InferStep
  PROVE  Directory'
<1> USE DEF Directory, Proposals, EditKept, RejectedStays, Locked
<1>1. CASE TakeDue
  BY <1>1 DEF TakeDue, files
<1>2. CASE RunEmpty
  BY <1>2 DEF RunEmpty, files
<1>3. CASE WriteBegin
  <2>1. CASE WriteSkips(run)
    BY <1>3, <2>1 DEF WriteBegin, files, NoOp
  <2>2. CASE ~WriteSkips(run)
    <3>1. run.fp \notin rejDir
      BY <1>3, <2>2 DEF WriteBegin, WriteSkips, NoOp
    <3>2. edit = None
      BY <1>3, <2>2 DEF WriteSkips
    <3> QED
      BY <1>3, <2>2, <3>1, <3>2 DEF WriteBegin, Goto, files, NoOp
  <2> QED
    BY <2>1, <2>2
<1>4. CASE WriteStep
  <2>1. CASE Locked("write", "lines") \/ Locked("write", "toml")
    BY <1>4, <2>1 DEF WriteStep, Goto
  <2>2. CASE Locked("write", "json")
    BY <1>4, <2>2 DEF WriteStep, NoOp
  <2> QED
    BY <1>4, <2>1, <2>2 DEF WriteStep
<1> QED
  BY <1>1, <1>2, <1>3, <1>4 DEF InferStep

\* The reviewer takes the lock.
LEMMA RequestDirectory ==
  ASSUME TypesInv, Directory, EditBegin \/ ApproveBegin \/ RejectBegin
  PROVE  Directory'
<1> USE DEF Directory, Proposals, EditKept, RejectedStays, Locked
<1>1. CASE EditBegin
  BY <1>1 DEF EditBegin, Request, Goto, files, NoOp
<1>2. CASE ApproveBegin
  BY <1>2 DEF ApproveBegin, Request, Goto, files, NoOp
<1>3. CASE RejectBegin
  BY <1>3 DEF RejectBegin, Request, Goto, files, NoOp
<1> QED
  BY <1>1, <1>2, <1>3

\* The reviewer, at each file operation of an edit, an approval, a rejection.
LEMMA ReviewDirectory ==
  ASSUME TypesInv, Directory, EditStep \/ ApproveStep \/ RejectStep
  PROVE  Directory'
<1> USE DEF Directory, Proposals, EditKept, RejectedStays, Locked
<1>1. CASE EditStep
  <2>1. CASE Locked("edit", "toml")
    <3>1. PICK valid \in BOOLEAN :
            toml' = [text |-> [by |-> "edit", nr |-> ops], valid |-> valid,
                     ver |-> IF toml = None THEN 1 ELSE toml.ver]
      BY <1>1, <2>1 DEF EditStep
    <3>2. toml' # None /\ toml'.text.by = "edit"
      BY <3>1 DEF None
    <3>3. /\ op' = [kind |-> "edit", step |-> "json"]
          /\ UNCHANGED <<json, edit, rev, active, kept, rejDir, rejected, run>>
      BY <1>1, <2>1 DEF EditStep, Goto
    <3> QED
      BY <2>1, <3>2, <3>3
  <2>2. CASE Locked("edit", "json")
    <3>1. /\ op' = NoOp
          /\ json' = [json EXCEPT !.edited = TRUE] /\ edit' = toml
          /\ UNCHANGED <<toml, active, kept, rejDir, rejected, run>>
      BY <1>1, <2>2 DEF EditStep
    <3>2. json # None /\ toml # None /\ toml.text.by = "edit"
      BY <2>2
    <3>3. json' # None /\ json'.edited /\ json'.fp = json.fp
      BY <3>1, <3>2 DEF TypesInv, FilesType, None
    <3> QED
      BY <2>2, <3>1, <3>2, <3>3 DEF NoOp
  <2> QED
    BY <1>1, <2>1, <2>2 DEF EditStep
<1>2. CASE ApproveStep
  <2>1. CASE Locked("approve", "keep")
    BY <1>2, <2>1 DEF ApproveStep, Goto, NoOp, Keep
  <2>2. CASE Locked("approve", "parser") \/ Locked("approve", "json")
    BY <1>2, <2>2 DEF ApproveStep, Goto
  <2>3. CASE Locked("approve", "toml") \/ Locked("approve", "lines")
    BY <1>2, <2>3 DEF ApproveStep, Goto, NoOp
  <2> QED
    BY <1>2, <2>1, <2>2, <2>3 DEF ApproveStep
<1>3. CASE RejectStep
  <2>1. CASE Locked("reject", "json")
    BY <1>3, <2>1 DEF RejectStep, Goto
  <2>2. CASE Locked("reject", "toml") \/ Locked("reject", "lines")
    BY <1>3, <2>2 DEF RejectStep, Goto, NoOp
  <2> QED
    BY <1>3, <2>1, <2>2 DEF RejectStep
<1> QED
  BY <1>1, <1>2, <1>3

\* The pending directory, at every step, a kill between two included.
LEMMA DirectoryStep ==
  ASSUME TypesInv, Directory, Next
  PROVE  Directory'
<1>1. CASE InferStep
  BY <1>1, InferDirectory
<1>2. CASE EditBegin \/ ApproveBegin \/ RejectBegin
  BY <1>2, RequestDirectory
<1>3. CASE EditStep \/ ApproveStep \/ RejectStep
  BY <1>3, ReviewDirectory
<1>4. CASE ReviewLoad \/ ReviewInstall \/ ReviewClear \/ ReviewClearDrift
  BY <1>4 DEF ReviewLoad, ReviewInstall, ReviewClear, ReviewClearDrift, files,
              Directory, Proposals, EditKept, RejectedStays, Locked
<1>5. CASE Kill
  BY <1>5 DEF Kill, OpenRejected, NoOp, files, Directory, Proposals, EditKept,
              RejectedStays, Locked
<1>6. CASE UNCHANGED <<files, rejected, run, op, rev, edit>>
  BY <1>6 DEF files, Directory, Proposals, EditKept, RejectedStays, Locked
<1> QED
  BY <1>1, <1>2, <1>3, <1>4, <1>5, <1>6
     DEF Next, RevStep, PollStep, WorkStep, PollChanged, PollLoad,
         PollInstall, PollTrip, JudgeQuiet, WorkBatch, WorkObserve, WorkEnd
-----------------------------------------------------------------------------
(* The registry and the drifting source.                                   *)

\* A load on its way is of the directory as it is, if one change is all there
\* was (reload_parsers by the reviewer and by the poller).
LEMMA DirLoadsStep ==
  ASSUME TypesInv, Proposals, DirLoads, Next
  PROVE  DirLoads'
<1> USE DEF DirLoads
<1>0. sig \in Nat /\ dir \in Nat /\ sig <= dir
  BY DEF TypesInv, ParsersType
<1>1. CASE WriteBegin \/ WriteStep
  BY <1>1 DEF WriteBegin, WriteStep, Goto, Locked, NoOp, files, registry
<1>2. CASE EditBegin \/ ApproveBegin \/ RejectBegin
  BY <1>2 DEF EditBegin, ApproveBegin, RejectBegin, Request, Goto, files,
              registry
<1>3. CASE EditStep \/ RejectStep
  BY <1>3 DEF EditStep, RejectStep, Goto, Locked, NoOp, registry
<1>4. CASE ApproveStep
  <2>1. CASE Locked("approve", "parser")
    <3>1. /\ active' = [text |-> toml.text, ver |-> toml.ver]
          /\ dir' = dir + 1 /\ UNCHANGED <<registry, rev>>
      BY <1>4, <2>1 DEF ApproveStep, Locked
    <3>2. active' # None
      BY <3>1, NoneIsNoProposal
    <3>3. rev = "approve"
      BY <2>1 DEF Locked, Proposals
    <3>4. dir' = 1 => dir = 0
      BY <1>0, <3>1
    <3> QED
      BY <1>0, <3>1, <3>2, <3>3, <3>4 DEF registry
  <2>2. CASE ~Locked("approve", "parser")
    BY <1>4, <2>2 DEF ApproveStep, Goto, Locked, NoOp, registry, Proposals
  <2> QED
    BY <2>1, <2>2
<1>5. CASE ReviewLoad \/ ReviewInstall \/ ReviewClear \/ ReviewClearDrift
  BY <1>5 DEF ReviewLoad, ReviewInstall, ReviewClear, ReviewClearDrift, files,
              registry
<1>6. CASE PollChanged
  BY <1>0, <1>6 DEF PollChanged, files
<1>7. CASE PollLoad \/ PollInstall \/ PollTrip
  BY <1>7 DEF PollLoad, PollInstall, PollTrip, files
<1>8. CASE JudgeQuiet
  BY <1>8 DEF JudgeQuiet, files
<1>9. CASE Kill
  BY <1>9 DEF Kill, files, NoOp
<1>10. CASE UNCHANGED <<files, op, rev, registry, dir>>
  BY <1>10 DEF files, registry
<1> QED
  BY <1>1, <1>2, <1>3, <1>4, <1>5, <1>6, <1>7, <1>8, <1>9, <1>10
     DEF Next, InferStep, RevStep, PollStep, WorkStep, TakeDue, RunEmpty,
         WorkBatch, WorkObserve, WorkEnd

\* A worker that makes a source drift goes on to on_trip, and only with a
\* parser some event was taken by.
LEMMA ObserveStep ==
  ASSUME TypesInv, WorkObserve
  PROVE  /\ stats'.parser => stats.parser \/ worker.unknown < worker.n
         /\ Routing(stats') /\ ~Routing(stats) =>
              worker'.at = "trip" /\ stats.baseEvents >= Established
         /\ worker'.at = "trip" => stats.parser \/ worker.unknown < worker.n
         /\ worker'.at # "observe"
<1> DEFINE m == worker.unknown + worker.failed
           d == worker.unknown < worker.n
           c == Counted(stats, worker.n, m, d)
           trips == c.events >= Window /\ Trips(c)
<1>1. /\ stats' = Observe(stats, worker.n, m, d)
      /\ worker' = [worker EXCEPT !.at = IF trips THEN "trip"
                     ELSE IF Routing(stats') THEN "route" ELSE "idle"]
  BY DEF WorkObserve
<1>2. /\ m <= worker.n /\ m \in Nat /\ worker.n \in Nat /\ d \in BOOLEAN
      /\ Windowed(stats)
  BY DEF TypesInv, StatsType, Windowed, Judged
<1>3. /\ stats'.parser => stats.parser \/ d
      /\ Routing(stats') /\ ~Routing(stats) => trips
      /\ Trips(c) => stats.baseEvents >= Established /\ (stats.parser \/ d)
  <2> HIDE DEF m, d
  <2> QED
    BY <1>1, <1>2, ObserveSound
<1>4. worker'.at = IF trips THEN "trip"
                   ELSE IF Routing(stats') THEN "route" ELSE "idle"
  <2> HIDE DEF trips
  <2> QED
    BY <1>1 DEF TypesInv, StatsType
<1> QED
  BY <1>3, <1>4

\* The same for the poller's judge_quiet_sources.
LEMMA QuietStep ==
  ASSUME TypesInv, JudgeQuiet
  PROVE  /\ stats'.parser = stats.parser
         /\ Routing(stats') /\ ~Routing(stats) =>
              poll' = "trip" /\ stats.baseEvents >= Established
         /\ poll' = "trip" => stats.parser
<1>1. stats' = Judge(stats) /\ poll' = IF Trips(stats) THEN "trip" ELSE "idle"
  BY DEF JudgeQuiet
<1>2. stats \in Stats /\ Judged(stats)
  BY DEF TypesInv, StatsType, Judged
<1>3. /\ stats'.parser = stats.parser
      /\ Routing(stats') /\ ~Routing(stats) => Trips(stats)
  BY <1>1, <1>2, JudgeSound
<1> QED
  BY <1>1, <1>3 DEF Trips, IsEstablished

\* The registry has a parser whenever a trip is on its way.
LEMMA KnownStep ==
  ASSUME TypesInv, DirLoads, ParserKnown, Next
  PROVE  ParserKnown'
<1> USE DEF ParserKnown
<1>1. CASE ReviewInstall
  BY <1>1 DEF ReviewInstall, DirLoads
<1>2. CASE PollInstall
  BY <1>2 DEF PollInstall, DirLoads
<1>3. CASE ReviewClearDrift
  <2>1. stats'.parser = stats.parser
    BY <1>3, ClearSound
       DEF ReviewClearDrift, TypesInv, StatsType, Windowed, Judged
  <2> QED
    BY <1>3, <2>1 DEF ReviewClearDrift, registry
<1>4. CASE JudgeQuiet
  BY <1>4, QuietStep DEF JudgeQuiet
<1>5. CASE WorkObserve
  BY <1>5, ObserveStep DEF WorkObserve, registry
<1>6. ASSUME NEW n \in {1, Batch}, NEW u \in {0, n}, NEW f \in {0, n},
             WorkBatch(n, u, f)
      PROVE  ParserKnown'
  BY <1>6, ReviewAssumption DEF WorkBatch, registry
<1>7. CASE WorkEnd
  BY <1>7 DEF WorkEnd, NoBatch, registry
<1>8. CASE Kill
  BY <1>8 DEF Kill, NoStats, NoBatch
<1>9. CASE PollChanged \/ PollLoad \/ PollTrip
  BY <1>9 DEF PollChanged, PollLoad, PollTrip
<1>10. CASE UNCHANGED <<stats, worker, poll, pipeline>>
  BY <1>10
<1> QED
  BY <1>1, <1>2, <1>3, <1>4, <1>5, <1>6, <1>7, <1>8, <1>9, <1>10
     DEF Next, InferStep, RevStep, PollStep, WorkStep, TakeDue, RunEmpty,
         WriteBegin, WriteStep, EditBegin, EditStep, ApproveBegin,
         ApproveStep, RejectBegin, RejectStep, ReviewLoad, ReviewClear,
         registry

\* on_trip, clear and clear_drift keep a drifting source's prior, whoever
\* comes between them.
LEMMA PriorStep ==
  ASSUME TypesInv, Proposals, ParserKnown, RoutingHasPrior, Next
  PROVE  RoutingHasPrior'
<1> USE DEF RoutingHasPrior
<1> DEFINE HasPrior == buf # None /\ buf.prior # None
<1>0. BufferType /\ NoneOrParser(pipeline)
  BY DEF TypesInv, ParsersType
<1>1. CASE TakeDue
  <2>1. buf # None
    BY <1>1 DEF TakeDue, Due
  <2>2. PICK k : buf' = [buf EXCEPT !.ranAt = buf.n, !.nextRun = k]
    BY <1>1 DEF TakeDue
  <2>3. buf' = [n |-> buf.n, ranAt |-> buf.n, nextRun |-> k,
                prior |-> buf.prior]
    BY <1>0, <2>1, <2>2 DEF BufferType
  <2>4. buf' # None /\ buf'.prior = buf.prior
    BY <2>3, NoneIsNoProposal
  <2> QED
    BY <1>1, <2>1, <2>4 DEF TakeDue, registry
<1>2. CASE ReviewClear
  BY <1>2 DEF ReviewClear
<1>3. CASE ReviewClearDrift
  <2>1. ~Routing(stats')
    BY <1>3, ClearSound
       DEF ReviewClearDrift, TypesInv, StatsType, Windowed, Judged
  <2> QED
    BY <2>1
<1>4. CASE JudgeQuiet
  BY <1>4, QuietStep DEF JudgeQuiet
<1>5. CASE PollTrip
  BY <1>0, <1>5, TrippedIsBuffer DEF PollTrip, ParserKnown
<1>6. CASE WorkObserve
  <2>1. worker.at = "observe" /\ UNCHANGED <<buf, poll, rev>>
    BY <1>6 DEF WorkObserve, registry
  <2> QED
    BY <1>6, <2>1, ObserveStep
<1>7. ASSUME NEW n \in {1, Batch}, NEW u \in {0, n}, NEW f \in {0, n},
             WorkBatch(n, u, f)
      PROVE  RoutingHasPrior'
  <2>1. HasPrior => HasPrior'
    BY <1>0, <1>7, OfferIsBuffer, ReviewAssumption DEF WorkBatch
  <2> QED
    BY <1>7, <2>1 DEF WorkBatch, registry
<1>8. CASE WorkEnd
  <2>1. worker.failed \in Nat
    BY DEF TypesInv, StatsType
  <2>2. CASE worker.at = "trip" /\ Tripped
    BY <1>0, <1>8, <2>2, TrippedIsBuffer DEF WorkEnd, ParserKnown
  <2>3. CASE worker.at = "route" /\ buf' = Offer(buf, worker.failed)
    BY <1>0, <1>8, <2>1, <2>3, OfferIsBuffer DEF WorkEnd, registry
  <2> QED
    BY <1>8, <2>2, <2>3 DEF WorkEnd
<1>9. CASE Kill
  BY <1>9 DEF Kill, NoStats, Routing
<1>10. CASE PollChanged \/ PollLoad \/ PollInstall
  BY <1>10 DEF PollChanged, PollLoad, PollInstall
<1>11. CASE /\ rev # "drift" /\ rev' # "drift"
            /\ UNCHANGED <<stats, worker, poll, buf>>
  BY <1>11
<1>12. CASE UNCHANGED <<stats, worker, poll, buf, rev>>
  BY <1>12
<1>13. CASE EditBegin \/ ApproveBegin \/ RejectBegin
  BY <1>11, <1>13 DEF EditBegin, ApproveBegin, RejectBegin, Request, registry
<1>14. CASE EditStep \/ ApproveStep \/ RejectStep
  <2>1. rev # "drift"
    BY <1>14 DEF EditStep, ApproveStep, RejectStep, Locked, Proposals
  <2> QED
    BY <1>11, <1>14, <2>1 DEF EditStep, ApproveStep, RejectStep, registry
<1>15. CASE ReviewLoad \/ ReviewInstall
  BY <1>11, <1>15 DEF ReviewLoad, ReviewInstall
<1> QED
  BY <1>1, <1>2, <1>3, <1>4, <1>5, <1>6, <1>7, <1>8, <1>9, <1>10, <1>12,
     <1>13, <1>14, <1>15
     DEF Next, InferStep, RevStep, PollStep, WorkStep, RunEmpty, WriteBegin,
         WriteStep, registry
-----------------------------------------------------------------------------
(* The theorems.                                                           *)

\* The inductive invariant holds at the start ...
LEMMA ReviewInit == Init => ReviewInv
<1> SUFFICES ASSUME Init PROVE ReviewInv
  OBVIOUS
<1> USE DEF Init
<1>1. FilesType
  BY DEF FilesType, Ops
<1>2. ParsersType
  BY DEF ParsersType, NoneOrParser, IsParser
<1>3. BufferType
  BY DEF BufferType
<1>4. StatsType
  BY DriftAssumption
     DEF StatsType, NoStats, Stats, Routing, NoBatch
<1>5. Directory
  BY DEF Directory, Proposals, EditKept, RejectedStays, Locked, NoOp
<1>6. DirLoads /\ ParserKnown
  BY DEF DirLoads, ParserKnown, NoStats, NoBatch, NoOp
<1>7. RoutingHasPrior
  BY DEF RoutingHasPrior, NoStats, Routing
<1> QED
  BY <1>1, <1>2, <1>3, <1>4, <1>5, <1>6, <1>7
     DEF ReviewInv, TypesInv, Directory

\* ... and every step keeps it.
LEMMA ReviewStep == ReviewInv /\ [Next]_vars => ReviewInv'
<1> SUFFICES ASSUME ReviewInv, [Next]_vars PROVE ReviewInv'
  OBVIOUS
<1>0. TypesInv /\ Directory /\ DirLoads /\ ParserKnown /\ RoutingHasPrior
  BY DEF ReviewInv, Directory
<1>1. CASE Next
  <2>1. TypesInv'
    BY <1>0, <1>1, FilesStep, ParsersStep, BufferStep, StatsStep
       DEF TypesInv, Directory
  <2>2. Directory'
    BY <1>0, <1>1, DirectoryStep
  <2>3. DirLoads' /\ ParserKnown'
    BY <1>0, <1>1, DirLoadsStep, KnownStep DEF Directory
  <2>4. RoutingHasPrior'
    BY <1>0, <1>1, PriorStep DEF Directory
  <2> QED
    BY <2>1, <2>2, <2>3, <2>4 DEF ReviewInv, Directory
<1>2. CASE UNCHANGED vars
  <2> USE <1>2 DEF vars, files, registry, counters
  <2>1. FilesType' /\ ParsersType' /\ BufferType' /\ StatsType'
    BY <1>0 DEF TypesInv, FilesType, ParsersType, BufferType, StatsType
  <2>2. Directory'
    BY <1>0 DEF Directory, Proposals, EditKept, RejectedStays, Locked
  <2>3. DirLoads' /\ ParserKnown' /\ RoutingHasPrior'
    BY <1>0 DEF DirLoads, ParserKnown, RoutingHasPrior
  <2> QED
    BY <2>1, <2>2, <2>3 DEF ReviewInv, Directory, TypesInv
<1> QED
  BY <1>1, <1>2

\* The inductive invariant of the learning loop.
LEMMA ReviewInvariant == Spec => []ReviewInv
BY ReviewInit, ReviewStep, PTL DEF Spec

\* Rejections hold, a drifting source has its prior, and one change of the
\* parsers is loaded (pending.rs, inference.rs, reload_parsers), whatever the
\* engine, the poller and the reviewer interleave and wherever it is killed.
THEOREM ReviewIsSound == Spec => []ReviewSound
<1>1. ReviewInv => TypeOK
  <2> SUFFICES ASSUME TypesInv PROVE TypeOK
    BY DEF ReviewInv
  <2>1. /\ json = None \/ json.edited \in BOOLEAN
        /\ DOMAIN kept \subseteq Nat /\ sig <= dir
        /\ buf = None \/ (buf.n \in 0 .. MaxBuffer /\ buf.ranAt <= buf.n)
    BY DEF TypesInv, FilesType, ParsersType, BufferType
  <2>2. /\ stats.events \in 0 .. Window - 1 /\ stats.misses <= stats.events
        /\ stats.clean \in 0 .. CleanWindows
    BY DriftAssumption DEF TypesInv, StatsType, Stats
  <2> QED
    BY <2>1, <2>2 DEF TypeOK
<1>2. ReviewInv => OneChangeIsLoaded
  BY DEF ReviewInv, DirLoads, OneChangeIsLoaded
<1>3. ReviewInv => ReviewSound
  BY <1>1, <1>2 DEF ReviewInv, ReviewSound
<1> QED
  BY <1>3, ReviewInvariant, PTL

\* What a human saved stays the proposal's text until it is approved or
\* rejected (put_text and Pending::write).
THEOREM EditsAreKept == Spec => []EditKept
<1>1. ReviewInv => EditKept
  BY DEF ReviewInv
<1> QED
  BY <1>1, ReviewInvariant, PTL

\* The text an approval replaces is kept before it is replaced
\* (Pending::approve).
THEOREM NoVersionIsLost == Spec => ReplacedIsKept
<1> DEFINE A == active # None /\ active'.text # active.text
                  => /\ active.ver \in DOMAIN kept
                     /\ kept[active.ver] = active.text
<1>1. ReviewInv /\ [Next]_vars => [A]_active
  <2> SUFFICES ASSUME ReviewInv, Next, active' # active PROVE A
    BY DEF vars, files
  <2>1. ApproveStep /\ Locked("approve", "parser")
    BY DEF Next, InferStep, RevStep, PollStep, WorkStep, TakeDue, RunEmpty,
           WriteBegin, WriteStep, EditBegin, EditStep, ApproveBegin,
           ApproveStep, RejectBegin, RejectStep, ReviewLoad, ReviewInstall,
           ReviewClear, ReviewClearDrift, PollChanged, PollLoad, PollInstall,
           PollTrip, JudgeQuiet, WorkBatch, WorkObserve, WorkEnd, Kill, files
  <2> QED
    BY <2>1 DEF ReviewInv, Proposals
<1> QED
  BY <1>1, ReviewInvariant, PTL DEF Spec, ReplacedIsKept

\* A source trips only against a baseline of Established events it has seen
\* since it was last cleared (SourceStats::judge, clear_drift).
THEOREM AlertsNeedBaseline == Spec => TripsOnFreshBaseline
<1> DEFINE A == ~Routing(stats) /\ Routing(stats') => seen >= Established
<1>1. ReviewInv /\ [Next]_vars => [A]_<<stats, seen>>
  <2> SUFFICES ASSUME TypesInv, Next, ~Routing(stats), Routing(stats')
               PROVE  seen >= Established
    BY DEF ReviewInv, vars
  <2>1. JudgeQuiet \/ WorkObserve => stats.baseEvents >= Established
    BY QuietStep, ObserveStep
  <2>2. ~ReviewClearDrift
    BY ClearSound
       DEF ReviewClearDrift, TypesInv, StatsType, Windowed, Judged
  <2>3. ~Kill
    BY DEF Kill, NoStats, Routing
  <2>4. stats' # stats
    OBVIOUS
  <2>5. JudgeQuiet \/ WorkObserve
    BY <2>2, <2>3, <2>4
       DEF Next, InferStep, RevStep, PollStep, WorkStep, TakeDue, RunEmpty,
           WriteBegin, WriteStep, EditBegin, EditStep, ApproveBegin,
           ApproveStep, RejectBegin, RejectStep, ReviewLoad, ReviewInstall,
           ReviewClear, PollChanged, PollLoad, PollInstall, PollTrip,
           WorkBatch, WorkEnd
  <2> QED
    BY <2>1, <2>5, DriftAssumption DEF TypesInv, StatsType, Stats
<1> QED
  BY <1>1, ReviewInvariant, PTL DEF Spec, TripsOnFreshBaseline
=============================================================================
