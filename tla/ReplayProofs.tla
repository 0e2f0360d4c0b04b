---------------------------- MODULE ReplayProofs ----------------------------
(***************************************************************************)
(* Proofs about module Replay: a version that has its meta file holds one  *)
(* line for each record of its snapshot, in order, whichever threads fail  *)
(* and whenever the process is killed (CompleteIsWhole), and nothing       *)
(* touches it again (CompleteStays); its diff lists exactly the events in  *)
(* which it differs from the version before it (DiffIsFaithful); and a     *)
(* client that pages through the diff gets all of it (PagesAreWhole).      *)
(*                                                                         *)
(* The argument counts batches.  Batch k covers the records from Upto(k)   *)
(* to Upto(k + 1).  Of the K batches the reader sent, those before nxt are *)
(* written and every other is in a channel, in a worker's hands, in the    *)
(* reorder buffer, or lost with a worker that panicked (Tracked).  So when *)
(* both channels are closed and nobody panicked, all of them are written.  *)
(*                                                                         *)
(* For the diff: every file that is compared has the records from 0 on in  *)
(* their places, so the two cursors go in step while both have a line, and *)
(* the diff says what there is to say of the lines read so far             *)
(* (ToldSoFar), whatever the live output grows by meanwhile.               *)
(***************************************************************************)
EXTENDS Replay, FramerProofs, FiniteSetTheorems

-----------------------------------------------------------------------------
(* The invariant.                                                          *)

Entries == [id : Ids, kind : Kinds]

Metas == [complete : {TRUE}, events : Nat, set : FileSets,
          prev : 0 .. MaxVersion, torn : BOOLEAN, read : Int]

Jobs == [at : {"create", "run", "failed", "compare", "diff", "meta"},
         version : Versions \ {1}, total : 0 .. MaxRecords, set : FileSets,
         prev : 0 .. MaxVersion, torn : BOOLEAN]

Curs == [oi : Nat, old : LineSet, ho : BOOLEAN,
         ni : Nat, new : LineSet, hn : BOOLEAN]

EngineTyped ==
  /\ stored \in 0 .. MaxRecords /\ files \in FileSets
  /\ live \in {"off", "serve", "cli"} /\ slot \in {"free", "running", "lost"}
  /\ torn \in {"no", "noid", "short", "cut"} /\ job \in Jobs \cup {NoJob}

FilesTyped ==
  /\ exists \subseteq Versions /\ out \in [Versions -> Seq(LineSet)]
  /\ meta \in [Versions -> Metas \cup {NoMeta}]
  /\ diff \in [Versions -> Seq(Entries)]
  /\ seen \in [Versions -> Int] /\ index \in [Versions -> Int]
  /\ cur \in Curs

ThreadsTyped ==
  /\ rd \in [id : Nat, at : {"reading", "done", "failed"}]
  /\ wk \in [Workers -> BatchSet \cup {Idle, Gone, Panicked}]
  /\ batches \in Seq(BatchSet) /\ Len(batches) <= 2 * Cardinality(Workers)
  /\ outs \in Seq(BatchSet) /\ Len(outs) <= 4 * Cardinality(Workers)
  /\ pend \subseteq BatchSet /\ nxt \in Nat /\ buf \in Seq(LineSet)

\* A cut line is of a record that is stored, behind the whole lines.
TornIsLast ==
  torn # "no" => live # "serve" /\ Len(out[1]) \in 1 .. stored - 1

\* What a diff file has on disk, and what an index of it has.
DiffsCounted ==
  \A v \in Versions :
    /\ seen[v] \in NoDiff .. Len(diff[v])
    /\ index[v] \in NoIndex .. Len(diff[v])
    /\ v \notin exists => seen[v] = NoDiff /\ index[v] = NoIndex

\* A job holds the slot or the store, and works on a version of its own.
JobAlone ==
  /\ job = NoJob => Joined
  /\ job # NoJob =>
       /\ live # "off" /\ (live = "serve" => slot = "running")
       /\ job.total <= stored /\ ~HasMeta(job.version)
       /\ job.at = "create" <=> job.version \notin exists
       /\ job.at \in {"create", "run", "failed", "compare"} =>
            seen[job.version] = NoDiff /\ index[job.version] = NoIndex
       /\ job.at \notin {"run", "failed"} => Joined
       /\ job.at = "diff" => job.prev \in Versions

\* Of t records, those before batch k.
Upto(t, k) == IF k * BatchSize < t THEN k * BatchSize ELSE t

\* The lines of the first n records.
Whole(set, n) == [i \in 1 .. n |-> Line(i - 1, set)]

\* b is the batch of its number.
InPlace(t, b) ==
  /\ b.first = Upto(t, b.seq) /\ b.first < t
  /\ b.first + b.n = Upto(t, b.seq + 1)

\* The batches the workers have or will take are the reader's, each once.
Handed ==
  /\ \A i \in DOMAIN batches :
       InPlace(job.total, batches[i]) /\ batches[i].first < rd.id
  /\ \A w \in Workers :
       Holds(w) => InPlace(job.total, wk[w]) /\ wk[w].first < rd.id
  /\ \A i, j \in DOMAIN batches : i # j => batches[i] # batches[j]
  /\ \A w \in Workers, i \in DOMAIN batches : wk[w] # batches[i]
  /\ \A v, w \in Workers : v # w /\ Holds(v) => wk[v] # wk[w]

\* Batch k is somewhere between the reader and the file.
Somewhere(k) ==
  \/ \E i \in DOMAIN batches : batches[i].seq = k
  \/ \E w \in Workers : Holds(w) /\ wk[w].seq = k
  \/ \E i \in DOMAIN outs : outs[i].seq = k
  \/ \E b \in pend : b.seq = k

SomePanic == \E w \in Workers : wk[w] = Panicked

\* K batches were sent; those from nxt on are somewhere, or a worker died.
Tracked ==
  \E K \in Nat :
    /\ rd.id = Upto(job.total, K)
    /\ SomePanic \/ \A k \in Nat : nxt <= k /\ k < K => Somewhere(k)

\* What reached the writer, in place.
Received ==
  /\ \A i \in DOMAIN outs : InPlace(job.total, outs[i])
  /\ \A b \in pend : InPlace(job.total, b) /\ b.seq # nxt

\* The reader stops early only when no worker is left to send to, and a worker
\* leaves only when there is nothing more to come.
NobodyLeavesEarly ==
  /\ rd.at = "done" => rd.id >= job.total \/ SomePanic
  /\ (\E w \in Workers : wk[w] = Gone) => batches = << >> /\ rd.at # "reading"

\* The file and what is to be flushed into it.
Written == out[job.version] \o buf = Whole(job.set, Upto(job.total, nxt))

Running ==
  /\ job.at \in {"run", "failed"} =>
       (\E K \in Nat : rd.id = Upto(job.total, K)) /\ Handed
  /\ job.at = "run" => Tracked /\ Received /\ NobodyLeavesEarly /\ Written
  /\ job.at \in {"compare", "diff", "meta"} =>
       out[job.version] = Whole(job.set, job.total)

ReplayInv ==
  /\ EngineTyped /\ FilesTyped /\ ThreadsTyped
  /\ TornIsLast /\ DiffsCounted /\ JobAlone /\ Running /\ CompleteIsWhole
-----------------------------------------------------------------------------
(* Batches.                                                                *)

\* What precedes a batch grows with the batch's number, up to t.
LEMMA UptoGrows ==
  ASSUME NEW t \in Nat, NEW j \in Nat, NEW k \in Nat, j <= k
  PROVE  Upto(t, j) <= Upto(t, k)
<1>1. BatchSize \in Nat \ {0}
  BY ReplayAssumption
<1>2. PICK d \in Nat : k = j + d
  <2>1. k - j \in Nat /\ k = j + (k - j)
    OBVIOUS
  <2> QED
    BY <2>1
<1>3. k * BatchSize = j * BatchSize + d * BatchSize
  BY <1>1, <1>2
<1>4. d * BatchSize \in Nat /\ j * BatchSize \in Nat
  BY <1>1
<1> QED
  BY <1>3, <1>4 DEF Upto

\* It starts with nothing and is never more than t.
LEMMA UptoType ==
  ASSUME NEW t \in Nat, NEW k \in Nat
  PROVE  Upto(t, k) \in 0 .. t /\ Upto(t, 0) = 0
<1>1. BatchSize \in Nat \ {0}
  BY ReplayAssumption
<1>2. k * BatchSize \in Nat /\ 0 * BatchSize = 0
  BY <1>1
<1> QED
  BY <1>2 DEF Upto

\* A batch has at least one record, at most BatchSize, and its number is what
\* the reader computes.
LEMMA BatchIs ==
  ASSUME NEW t \in Nat, NEW k \in Nat, Upto(t, k) < t
  PROVE  /\ k < t /\ Upto(t, k) \div BatchSize = k
         /\ Upto(t, k) < Upto(t, k + 1)
         /\ Upto(t, k + 1) = IF t - Upto(t, k) < BatchSize THEN t
                             ELSE Upto(t, k) + BatchSize
<1>1. BatchSize \in Nat \ {0}
  BY ReplayAssumption
<1>2. k * BatchSize \in Nat /\ k <= k * BatchSize
  BY <1>1
<1>3. (k + 1) * BatchSize = k * BatchSize + BatchSize
  BY <1>1
<1>4. Upto(t, k) = k * BatchSize /\ k * BatchSize < t
  BY <1>2 DEF Upto
<1>5. (k * BatchSize) \div BatchSize = k
  BY <1>1
<1> QED
  BY <1>1, <1>2, <1>3, <1>4, <1>5 DEF Upto

\* Two batches with one beginning, or one number, are the same.
LEMMA SameBatch ==
  ASSUME NEW t \in Nat, NEW a \in BatchSet, NEW b \in BatchSet,
         InPlace(t, a), InPlace(t, b), a.seq = b.seq \/ a.first = b.first
  PROVE  a = b
<1>1. a.seq \in Nat /\ b.seq \in Nat
  BY DEF BatchSet
<1>2. Upto(t, a.seq) \div BatchSize = a.seq
      /\ Upto(t, b.seq) \div BatchSize = b.seq
  BY <1>1, BatchIs DEF InPlace
<1>3. a.seq = b.seq
  BY <1>2 DEF InPlace
<1>4. /\ a = [seq |-> a.seq, first |-> a.first, n |-> a.n]
      /\ b = [seq |-> b.seq, first |-> b.first, n |-> b.n]
      /\ a.first \in Int /\ b.first \in Int /\ a.n \in Int /\ b.n \in Int
  BY DEF BatchSet, Ids
<1> QED
  BY <1>3, <1>4 DEF InPlace

-----------------------------------------------------------------------------
(* What a step leaves alone.                                               *)

\* Each part of the invariant is kept by a step that changes nothing it
\* speaks of: the types of the engine.
LEMMA EngineTypedStays ==
  ASSUME EngineTyped, UNCHANGED <<stored, files, live, slot, torn, job>>
  PROVE  EngineTyped'
BY DEF EngineTyped, Jobs, NoJob, Versions

\* The types of the files.
LEMMA FilesTypedStays ==
  ASSUME FilesTyped, UNCHANGED <<exists, out, meta, diff, seen, index, cur>>
  PROVE  FilesTyped'
BY DEF FilesTyped

\* The types of a job's threads.
LEMMA ThreadsTypedStays ==
  ASSUME ThreadsTyped, UNCHANGED tv
  PROVE  ThreadsTyped'
BY DEF ThreadsTyped, tv

\* The cut line.
LEMMA TornStays ==
  ASSUME TornIsLast, UNCHANGED <<torn, live, out, stored>>
  PROVE  TornIsLast'
BY DEF TornIsLast

\* The counts of the diffs.
LEMMA DiffsStay ==
  ASSUME DiffsCounted, UNCHANGED <<diff, seen, index, exists>>
  PROVE  DiffsCounted'
BY DEF DiffsCounted

\* The job's version.
LEMMA JobStays ==
  ASSUME JobAlone,
         UNCHANGED <<job, live, slot, stored, meta, exists, seen, index,
                    rd, wk>>
  PROVE  JobAlone'
BY DEF JobAlone, HasMeta, Joined, Ended

\* The batches in hand, also when the job's place changes.
LEMMA HandedStays ==
  ASSUME Handed, UNCHANGED <<batches, wk, rd>>, job'.total = job.total
  PROVE  Handed'
BY DEF Handed, Holds, InPlace, Upto

\* The complete versions.
LEMMA CompleteStaysWhole ==
  ASSUME CompleteIsWhole, UNCHANGED <<out, meta>>
  PROVE  CompleteIsWhole'
BY DEF CompleteIsWhole, HasMeta

\* The running job, when only files other than its own may have changed.
LEMMA RunningStays ==
  ASSUME Running, UNCHANGED <<tv, job>>,
         job # NoJob => out'[job.version] = out[job.version]
  PROVE  Running'
<1> USE DEF tv
<1>1. CASE job.at \in {"run", "failed"}
  <2>1. Handed'
    BY <1>1, HandedStays DEF Running
  <2>2. job # NoJob
    BY <1>1 DEF NoJob
  <2>3. job.at = "run" => (Tracked /\ Received /\ NobodyLeavesEarly /\ Written)'
    BY <2>2 DEF Running, Tracked, Received, NobodyLeavesEarly, Written,
                SomePanic, Somewhere, Holds
  <2> QED
    BY <1>1, <2>1, <2>3 DEF Running
<1>2. CASE job.at \notin {"run", "failed"}
  BY <1>2 DEF Running, NoJob
<1> QED
  BY <1>1, <1>2

-----------------------------------------------------------------------------
(* The live engine.                                                        *)

\* What holds of a state with a job.
LEMMA JobIs ==
  ASSUME ReplayInv, job # NoJob
  PROVE  /\ job \in Jobs /\ job.version \in Versions \ {1}
         /\ job.total \in Nat /\ job.total <= MaxRecords
         /\ live \in {"serve", "cli"} /\ ~HasMeta(job.version)
BY ReplayAssumption
   DEF ReplayInv, EngineTyped, JobAlone, Jobs

\* No job runs while the process is down, or while the slot is free.
LEMMA NoJobThen ==
  ASSUME ReplayInv, live = "off" \/ (live = "serve" /\ slot # "running")
  PROVE  job = NoJob /\ Joined
BY DEF ReplayInv, JobAlone

\* Version 1 is a version, and a line of it is a line.
LEMMA LineType ==
  ASSUME NEW id \in Ids, NEW set \in FileSets
  PROVE  Line(id, set) \in LineSet
BY DEF Line, LineSet

\* `serve` opens.
LEMMA OpenSound ==
  ASSUME ReplayInv, Open PROVE ReplayInv'
<1> USE DEF Open, tv, bv
<1>1. job = NoJob /\ Joined
  BY NoJobThen
<1>2. 1 \in Versions
  BY ReplayAssumption DEF Versions
<1>3. EngineTyped' /\ FilesTyped'
  BY <1>2 DEF ReplayInv, EngineTyped, FilesTyped, Jobs, NoJob, Versions
<1>4. ThreadsTyped' /\ TornIsLast' /\ DiffsCounted' /\ CompleteIsWhole'
  BY ThreadsTypedStays, CompleteStaysWhole
     DEF ReplayInv, TornIsLast, DiffsCounted
<1>5. JobAlone' /\ Running'
  BY <1>1, RunningStays DEF ReplayInv, JobAlone, Joined, Ended, NoJob
<1> QED
  BY <1>3, <1>4, <1>5 DEF ReplayInv

\* A record is stored.
LEMMA StoreSound ==
  ASSUME ReplayInv, Store PROVE ReplayInv'
<1> USE DEF Store, fv, tv, bv
<1>1. stored \in Nat /\ stored' = stored + 1 /\ MaxRecords \in Nat
  BY ReplayAssumption DEF ReplayInv, EngineTyped
<1>2. EngineTyped' /\ FilesTyped' /\ ThreadsTyped'
  BY <1>1, FilesTypedStays, ThreadsTypedStays
     DEF ReplayInv, EngineTyped, Jobs, NoJob, Versions
<1>3. TornIsLast' /\ DiffsCounted' /\ CompleteIsWhole'
  BY DiffsStay, CompleteStaysWhole DEF ReplayInv, TornIsLast
<1>4. JobAlone' /\ Running'
  <2>1. job # NoJob => job.total \in Nat
    BY JobIs
  <2> QED
    BY <1>1, <2>1, RunningStays
       DEF ReplayInv, JobAlone, HasMeta, Joined, Ended
<1> QED
  BY <1>2, <1>3, <1>4 DEF ReplayInv

\* A line of the live output reaches the disk.
LEMMA EmitLiveSound ==
  ASSUME ReplayInv, EmitLive PROVE ReplayInv'
<1> USE DEF EmitLive, lv, tv, bv
<1>1. 1 \in Versions /\ MaxRecords \in Nat
  BY ReplayAssumption DEF Versions
<1>2. /\ out \in [Versions -> Seq(LineSet)] /\ stored <= MaxRecords
      /\ stored \in Nat
  BY DEF ReplayInv, FilesTyped, EngineTyped
<1>3. Line(Len(out[1]), files) \in LineSet
  <2>1. Len(out[1]) \in Ids
    BY <1>1, <1>2, LenProperties DEF Ids
  <2> QED
    BY <2>1, LineType DEF ReplayInv, EngineTyped
<1>4. /\ out' \in [Versions -> Seq(LineSet)]
      /\ \A v \in Versions \ {1} : out'[v] = out[v]
  BY <1>1, <1>2, <1>3, AppendProperties
<1>5. EngineTyped' /\ FilesTyped' /\ ThreadsTyped'
  BY <1>4, EngineTypedStays, ThreadsTypedStays DEF ReplayInv, FilesTyped
<1>6. TornIsLast' /\ DiffsCounted' /\ JobAlone'
  BY DiffsStay, JobStays DEF ReplayInv, TornIsLast
<1>7. CompleteIsWhole' /\ Running'
  BY <1>4, JobIs, RunningStays DEF ReplayInv, CompleteIsWhole, HasMeta
<1> QED
  BY <1>5, <1>6, <1>7 DEF ReplayInv

\* The parser files change.
LEMMA ReloadSound ==
  ASSUME ReplayInv, Reload PROVE ReplayInv'
<1> USE DEF Reload, fv, tv, bv
<1>1. EngineTyped' /\ FilesTyped' /\ ThreadsTyped'
  BY FilesTypedStays, ThreadsTypedStays
     DEF ReplayInv, EngineTyped, Jobs, NoJob, Versions
<1>2. TornIsLast' /\ DiffsCounted' /\ JobAlone'
  BY TornStays, DiffsStay, JobStays DEF ReplayInv
<1>3. CompleteIsWhole' /\ Running'
  BY CompleteStaysWhole, RunningStays DEF ReplayInv
<1> QED
  BY <1>1, <1>2, <1>3 DEF ReplayInv

\* A diff is indexed.
LEMMA IndexDiffSound ==
  ASSUME ReplayInv, NEW v \in Versions, IndexDiff(v) PROVE ReplayInv'
<1> USE DEF IndexDiff, lv, tv, bv
<1>1. /\ index' \in [Versions -> Int] /\ seen[v] # NoDiff /\ index'[v] = seen[v]
      /\ \A u \in Versions : u # v => index'[u] = index[u]
  BY DEF ReplayInv, FilesTyped
<1>2. EngineTyped' /\ FilesTyped' /\ ThreadsTyped'
  BY <1>1, EngineTypedStays, ThreadsTypedStays DEF ReplayInv, FilesTyped
<1>3. DiffsCounted'
  <2>1. \A u \in Versions : Len(diff[u]) \in Nat /\ seen[u] \in Int
    BY LenProperties DEF ReplayInv, FilesTyped
  <2> QED
    BY <1>1, <2>1 DEF ReplayInv, DiffsCounted, NoDiff, NoIndex
<1>4. TornIsLast' /\ CompleteIsWhole' /\ Running'
  BY TornStays, CompleteStaysWhole, RunningStays DEF ReplayInv
<1>5. JobAlone'
  BY <1>1, JobIs DEF ReplayInv, JobAlone, HasMeta, Joined, Ended
<1> QED
  BY <1>2, <1>3, <1>4, <1>5 DEF ReplayInv

\* No line has been read.
LEMMA NoCurType == NoCur \in Curs
BY DEF Curs, NoCur, LineSet, NoLine, NoId

\* The process dies.
LEMMA KillSound ==
  ASSUME ReplayInv, Kill PROVE ReplayInv'
<1> USE DEF Kill
<1>1. EngineTyped'
  BY DEF ReplayInv, EngineTyped, NoJob
<1>2. FilesTyped'
  <2>1. index' \in [Versions -> Int] /\ cur' = NoCur
    BY DEF NoIndex
  <2> QED
    BY <2>1, NoCurType DEF ReplayInv, FilesTyped
<1>3. ThreadsTyped' /\ Joined'
  <2>1. /\ << >> \in Seq(BatchSet) /\ << >> \in Seq(LineSet)
        /\ Len(<< >>) = 0 /\ Cardinality(Workers) \in Nat
    BY EmptySeq, ReplayAssumption, FS_CardinalityType
  <2>2. wk' = [w \in Workers |-> Gone] /\ rd' = [id |-> 0, at |-> "done"]
    OBVIOUS
  <2> QED
    BY <2>1, <2>2 DEF ThreadsTyped, Joined, Ended
<1>4. TornIsLast' /\ DiffsCounted' /\ CompleteIsWhole'
  BY CompleteStaysWhole DEF ReplayInv, TornIsLast, DiffsCounted, NoIndex
<1>5. JobAlone' /\ Running'
  BY <1>3 DEF JobAlone, Running, NoJob
<1> QED
  BY <1>1, <1>2, <1>3, <1>4, <1>5 DEF ReplayInv

-----------------------------------------------------------------------------
(* A job begins and ends.                                                  *)

\* The next version is not taken.
LEMMA NextVersionIs ==
  ASSUME ReplayInv
  PROVE  /\ NextVersion \in 2 .. MaxVersion + 1 /\ ~Taken(NextVersion)
<1> DEFINE Free == {v \in 2 .. MaxVersion + 1 : ~Taken(v)}
<1>1. MaxVersion + 1 \in Free
  <2>1. MaxVersion \in Nat \ {0} /\ MaxVersion + 1 \notin Versions
    BY ReplayAssumption DEF Versions
  <2>2. MaxVersion + 1 \notin exists
    BY <2>1 DEF ReplayInv, FilesTyped
  <2> QED
    BY <2>1, <2>2 DEF Taken
<1>2. Free \subseteq Nat
  BY ReplayAssumption
<1> HIDE DEF Free
<1>3. PICK m : m = Min(Free)
  OBVIOUS
<1>4. m \in Free /\ \A n \in Free : m <= n
  BY <1>1, <1>2, <1>3, MinIs
<1>5. m \in 2 .. MaxVersion + 1 /\ ~Taken(m) /\ \A u \in 2 .. m - 1 : Taken(u)
  <2>1. m \in 2 .. MaxVersion + 1 /\ ~Taken(m)
    BY <1>4 DEF Free
  <2>2. ASSUME NEW u \in 2 .. m - 1 PROVE Taken(u)
    <3>1. u \in 2 .. MaxVersion + 1 /\ ~(m <= u)
      BY <2>1, <2>2, ReplayAssumption
    <3> QED
      BY <3>1, <1>4 DEF Free
  <2> QED
    BY <2>1, <2>2
<1> QED
  BY <1>5 DEF NextVersion

\* A new job has a version of its own.
LEMMA NewJobSound ==
  ASSUME ReplayInv, Joined, NextVersion <= MaxVersion, job' = NewJob,
         live' # "off", live' = "serve" => slot' = "running",
         live' \in {"off", "serve", "cli"},
         slot' \in {"free", "running", "lost"}, torn = "no" \/ live' # "serve",
         UNCHANGED <<stored, bad, files, fv, tv, cur>>
  PROVE  ReplayInv'
<1> USE DEF fv, tv
<1>1. /\ job'.version = NextVersion /\ job'.at = "create" /\ job'.prev = 0
      /\ job'.total = stored /\ job'.set = files /\ job'.torn = FALSE
      /\ job' \in Jobs
  <2>1. NextVersion \in Versions \ {1} /\ 0 \in 0 .. MaxVersion
    BY NextVersionIs, ReplayAssumption DEF Versions
  <2>2. stored \in 0 .. MaxRecords /\ files \in FileSets
    BY DEF ReplayInv, EngineTyped
  <2> QED
    BY <2>1, <2>2 DEF NewJob, Jobs
<1>2. EngineTyped' /\ FilesTyped' /\ ThreadsTyped'
  BY <1>1, FilesTypedStays, ThreadsTypedStays DEF ReplayInv, EngineTyped
<1>3. TornIsLast' /\ DiffsCounted' /\ CompleteIsWhole'
  BY DiffsStay, CompleteStaysWhole DEF ReplayInv, TornIsLast
<1>4. JobAlone' /\ Running'
  <2>1. NextVersion \in Versions /\ NextVersion \notin exists
        /\ ~HasMeta(NextVersion)
    BY NextVersionIs, ReplayAssumption DEF Versions, Taken
  <2>2. seen[NextVersion] = NoDiff /\ index[NextVersion] = NoIndex
    BY <2>1 DEF ReplayInv, DiffsCounted
  <2>3. stored \in Int
    BY DEF ReplayInv, EngineTyped
  <2> QED
    BY <1>1, <2>1, <2>2, <2>3
       DEF JobAlone, Running, HasMeta, Joined, Ended, NoJob
<1> QED
  BY <1>2, <1>3, <1>4 DEF ReplayInv

\* A replay is asked for.
LEMMA StartReplaySound ==
  ASSUME ReplayInv, StartReplay PROVE ReplayInv'
<1>1. job = NoJob /\ Joined /\ torn = "no"
  BY NoJobThen DEF StartReplay, ReplayInv, TornIsLast
<1>2. CASE slot' = "running" /\ job' = NewJob
  BY <1>1, <1>2, NewJobSound DEF StartReplay, lv
<1>3. CASE slot' = "lost" /\ UNCHANGED job
  <2> USE DEF StartReplay, lv, fv, tv
  <2>1. EngineTyped' /\ FilesTyped' /\ ThreadsTyped'
    BY <1>3, FilesTypedStays, ThreadsTypedStays
       DEF ReplayInv, EngineTyped, Jobs, NoJob, Versions
  <2>2. TornIsLast' /\ DiffsCounted' /\ CompleteIsWhole' /\ Running'
    BY <1>3, TornStays, DiffsStay, CompleteStaysWhole, RunningStays
       DEF ReplayInv
  <2>3. JobAlone'
    BY <1>1, <1>3 DEF JobAlone, Joined, Ended
  <2> QED
    BY <2>1, <2>2, <2>3 DEF ReplayInv
<1> QED
  BY <1>2, <1>3 DEF StartReplay

\* A replay from the command line.
LEMMA CliReplaySound ==
  ASSUME ReplayInv, CliReplay PROVE ReplayInv'
<1>1. job = NoJob /\ Joined
  BY NoJobThen DEF CliReplay
<1>2. slot \in {"free", "running", "lost"}
  BY DEF ReplayInv, EngineTyped
<1> QED
  BY <1>1, <1>2, NewJobSound DEF CliReplay

\* A job whose threads are joined returns; its version may now be complete.
LEMMA ReturnedSound ==
  ASSUME ReplayInv, Joined, job # NoJob, Returned,
         UNCHANGED <<stored, bad, files, exists, torn, diff, seen, index,
                     rd, wk>>,
         out' \in [Versions -> Seq(LineSet)],
         meta' \in [Versions -> Metas \cup {NoMeta}],
         ThreadsTyped', CompleteIsWhole', Len(out'[1]) = Len(out[1])
  PROVE  ReplayInv'
<1>1. /\ job' = NoJob /\ cur' = NoCur
      /\ live' \in {"off", "serve", "cli"}
      /\ slot' \in {"free", "running", "lost"}
      /\ live' = "serve" => live = "serve"
  BY DEF Returned, ReplayInv, EngineTyped
<1>2. EngineTyped' /\ FilesTyped'
  <2> QED
    BY <1>1, NoCurType DEF ReplayInv, EngineTyped, FilesTyped
<1>3. TornIsLast' /\ DiffsCounted'
  BY <1>1, DiffsStay DEF ReplayInv, TornIsLast
<1>4. JobAlone' /\ Running'
  BY <1>1 DEF JobAlone, Running, Joined, Ended, NoJob
<1> QED
  BY <1>2, <1>3, <1>4 DEF ReplayInv

\* A stage fails on a file.
LEMMA StageFailsSound ==
  ASSUME ReplayInv, StageFails PROVE ReplayInv'
<1> USE DEF StageFails, fv, tv
<1>1. job # NoJob
  BY DEF NoJob
<1>2. Joined
  BY <1>1 DEF ReplayInv, JobAlone
<1>3. ThreadsTyped' /\ CompleteIsWhole'
  BY ThreadsTypedStays, CompleteStaysWhole DEF ReplayInv
<1> QED
  BY <1>1, <1>2, <1>3, ReturnedSound DEF ReplayInv, FilesTyped

\* A job whose writer failed returns.
LEMMA FailedReturnsSound ==
  ASSUME ReplayInv, FailedReturns PROVE ReplayInv'
<1> USE DEF FailedReturns, fv, tv
<1>1. job # NoJob
  BY DEF NoJob
<1>2. ThreadsTyped' /\ CompleteIsWhole'
  BY ThreadsTypedStays, CompleteStaysWhole DEF ReplayInv
<1> QED
  BY <1>1, <1>2, ReturnedSound DEF ReplayInv, FilesTyped

\* The version's file is made and the threads begin.
LEMMA CreateSound ==
  ASSUME ReplayInv, Create PROVE ReplayInv'
<1> USE DEF Create
<1>1. job # NoJob
  BY DEF NoJob
<1>2. /\ job \in Jobs /\ job.version \in Versions \ {1} /\ job.total \in Nat
      /\ live \in {"serve", "cli"} /\ ~HasMeta(job.version)
  BY <1>1, JobIs
<1>3. /\ job' \in Jobs /\ job'.at = "run" /\ job'.version = job.version
      /\ job'.total = job.total /\ job'.set = job.set /\ job' # NoJob
  BY <1>2 DEF Jobs, NoJob
<1>4. /\ out' \in [Versions -> Seq(LineSet)] /\ out'[job.version] = << >>
      /\ \A v \in Versions : v # job.version => out'[v] = out[v]
  <2>1. << >> \in Seq(LineSet)
    BY EmptySeq
  <2> QED
    BY <1>2, <2>1 DEF ReplayInv, FilesTyped
<1>5. EngineTyped' /\ FilesTyped'
  BY <1>2, <1>3, <1>4 DEF ReplayInv, EngineTyped, FilesTyped, lv
<1>6. ThreadsTyped'
  <2>1. /\ << >> \in Seq(BatchSet) /\ << >> \in Seq(LineSet)
        /\ Len(<< >>) = 0 /\ Cardinality(Workers) \in Nat
    BY EmptySeq, ReplayAssumption, FS_CardinalityType
  <2> QED
    BY <2>1 DEF ThreadsTyped
<1>7. TornIsLast' /\ DiffsCounted' /\ CompleteIsWhole'
  <2>1. 1 \in Versions /\ job.version # 1
    BY <1>2, ReplayAssumption DEF Versions
  <2>2. TornIsLast'
    BY <2>1, <1>4 DEF ReplayInv, TornIsLast, lv
  <2>3. DiffsCounted'
    BY DEF ReplayInv, DiffsCounted
  <2>4. CompleteIsWhole'
    <3>1. \A v \in Versions \ {1} : HasMeta(v) => out'[v] = out[v]
      BY <1>2, <1>4
    <3>2. meta' = meta
      OBVIOUS
    <3> QED
      BY <3>1, <3>2 DEF ReplayInv, CompleteIsWhole, HasMeta
  <2> QED
    BY <2>2, <2>3, <2>4
<1>8. JobAlone'
  BY <1>1, <1>2, <1>3 DEF ReplayInv, JobAlone, HasMeta, lv
<1>9. Running'
  <2>1. Upto(job.total, 0) = 0 /\ 0 \in Nat
    BY <1>2, UptoType
  <2>2. Handed' /\ Received'
    BY DEF Handed, Received, Holds, Idle
  <2>3. Tracked'
    BY <1>3, <2>1 DEF Tracked
  <2>4. NobodyLeavesEarly'
    BY DEF NobodyLeavesEarly, Idle, Gone
  <2>5. Written'
    <3>1. Whole(job.set, 0) = << >>
      BY DEF Whole
    <3> QED
      BY <3>1, <2>1, <1>3, <1>4 DEF Written
  <2> QED
    BY <1>3, <2>1, <2>2, <2>3, <2>4, <2>5 DEF Running
<1> QED
  BY <1>5, <1>6, <1>7, <1>8, <1>9 DEF ReplayInv

-----------------------------------------------------------------------------
(* The reader and the workers.                                             *)

\* While a job runs: its numbers and types.
LEMMA RunIs ==
  ASSUME ReplayInv, job.at \in {"run", "failed"}
  PROVE  /\ job # NoJob /\ job \in Jobs /\ job.version \in Versions \ {1}
         /\ job.total \in Nat /\ job.total <= MaxRecords
         /\ live \in {"serve", "cli"} /\ ~HasMeta(job.version)
         /\ Handed /\ \E K \in Nat : rd.id = Upto(job.total, K)
         /\ job.at = "run" =>
              Tracked /\ Received /\ NobodyLeavesEarly /\ Written
<1>1. job # NoJob
  BY DEF NoJob
<1> QED
  BY <1>1, JobIs DEF ReplayInv, Running

\* A job whose threads went on, or whose writer failed.
LEMMA ThreadsSound ==
  ASSUME ReplayInv, job.at \in {"run", "failed"}, job' \in Jobs,
         job'.at \in {"run", "failed"}, job'.version = job.version,
         job'.total = job.total,
         UNCHANGED <<lv, exists, torn, meta, diff, seen, index, slot, cur>>,
         out' \in [Versions -> Seq(LineSet)],
         \A v \in Versions : v # job.version => out'[v] = out[v],
         ThreadsTyped', Running'
  PROVE  ReplayInv'
<1> USE DEF lv
<1>1. /\ job # NoJob /\ job' # NoJob /\ job.version \in Versions \ {1}
      /\ ~HasMeta(job.version)
  BY RunIs DEF NoJob
<1>2. EngineTyped' /\ FilesTyped'
  BY DEF ReplayInv, EngineTyped, FilesTyped
<1>3. TornIsLast' /\ DiffsCounted'
  <2>1. 1 \in Versions /\ job.version # 1
    BY <1>1, ReplayAssumption DEF Versions
  <2> QED
    BY <2>1, DiffsStay DEF ReplayInv, TornIsLast
<1>4. CompleteIsWhole'
  <2>1. \A v \in Versions \ {1} : HasMeta(v) => out'[v] = out[v]
    BY <1>1
  <2>2. meta' = meta
    OBVIOUS
  <2>3. CompleteIsWhole
    BY DEF ReplayInv
  <2> SUFFICES ASSUME NEW v \in Versions \ {1}, HasMeta(v)'
               PROVE  out'[v] = [i \in 1 .. meta[v].events |->
                                   Line(i - 1, meta[v].set)]
    BY <2>2 DEF CompleteIsWhole, Line
  <2>4. HasMeta(v)
    BY <2>2 DEF HasMeta
  <2> QED
    BY <2>1, <2>3, <2>4 DEF CompleteIsWhole
<1>5. JobAlone'
  BY <1>1 DEF ReplayInv, JobAlone, HasMeta
<1> QED
  BY <1>2, <1>3, <1>4, <1>5 DEF ReplayInv

\* What a worker holds is a batch.
LEMMA HeldIs ==
  ASSUME ReplayInv
  PROVE  \A w \in Workers :
           /\ Holds(w) => wk[w] \in BatchSet /\ wk[w].first \in Int
           /\ ~Holds(w) => wk[w] \in {Idle, Gone, Panicked}
<1> TAKE w \in Workers
<1>1. wk[w] \in BatchSet \cup {Idle, Gone, Panicked}
  BY DEF ReplayInv, ThreadsTyped
<1>2. wk[w] \in BatchSet => wk[w].first \in Int /\ wk[w].first >= 0
  BY DEF BatchSet, Ids
<1>3. Idle.first < 0 /\ Gone.first < 0 /\ Panicked.first < 0
  BY DEF Idle, Gone, Panicked
<1>4. CASE wk[w] \in BatchSet
  BY <1>2, <1>4 DEF Holds
<1>5. CASE wk[w] \in {Idle, Gone, Panicked}
  BY <1>3, <1>5 DEF Holds, Idle, Gone, Panicked
<1> QED
  BY <1>1, <1>4, <1>5

\* The batch the reader makes is the next, and nobody has it.
LEMMA NextBatch ==
  ASSUME ReplayInv, job.at \in {"run", "failed"}, rd.id < job.total,
         NEW K \in Nat, rd.id = Upto(job.total, K)
  PROVE  /\ BatchAt(rd.id) \in BatchSet /\ InPlace(job.total, BatchAt(rd.id))
         /\ BatchAt(rd.id).first = rd.id /\ BatchAt(rd.id).seq = K
         /\ rd.id + BatchAt(rd.id).n = Upto(job.total, K + 1)
         /\ rd.id < Upto(job.total, K + 1)
<1>1. job.total \in Nat /\ job.total <= MaxRecords /\ MaxRecords \in Nat
      /\ BatchSize \in Nat \ {0}
  BY RunIs, ReplayAssumption
<1>2. PICK t : t = job.total
  OBVIOUS
<1>3. /\ Upto(t, K) \div BatchSize = K /\ Upto(t, K) < Upto(t, K + 1)
      /\ Upto(t, K + 1) = IF t - Upto(t, K) < BatchSize THEN t
                          ELSE Upto(t, K) + BatchSize
      /\ Upto(t, K) \in 0 .. t /\ Upto(t, K + 1) \in 0 .. t
  <2>1. t \in Nat /\ Upto(t, K) < t /\ K + 1 \in Nat
    BY <1>1, <1>2
  <2>2. Upto(t, K) \in 0 .. t /\ Upto(t, K + 1) \in 0 .. t
    BY <2>1, UptoType
  <2> QED
    BY <2>1, <2>2, BatchIs
<1>4. PICK i : i = rd.id
  OBVIOUS
<1>5. /\ BatchAt(i).seq = K /\ BatchAt(i).first = i
      /\ BatchAt(i).n = IF t - i < BatchSize THEN t - i ELSE BatchSize
      /\ BatchAt(i) = [seq |-> BatchAt(i).seq, first |-> i, n |-> BatchAt(i).n]
  BY <1>2, <1>3, <1>4 DEF BatchAt
<1>6. /\ i \in Nat /\ i < t /\ i = Upto(t, K) /\ BatchAt(i).n \in 1 .. BatchSize
      /\ i + BatchAt(i).n = Upto(t, K + 1)
  BY <1>1, <1>2, <1>3, <1>4, <1>5
<1>7. BatchAt(i) \in BatchSet
  <2>1. i \in Ids
    BY <1>1, <1>2, <1>6 DEF Ids
  <2> QED
    BY <2>1, <1>5, <1>6 DEF BatchSet
<1>8. InPlace(t, BatchAt(i))
  BY <1>5, <1>6 DEF InPlace
<1> QED
  BY <1>2, <1>3, <1>4, <1>5, <1>6, <1>7, <1>8

\* The reader stops, for whatever reason.
LEMMA ReaderStops ==
  ASSUME ReplayInv, rd.at = "reading", job.at \in {"run", "failed"},
         \E a \in {"done", "failed"} : rd' = [rd EXCEPT !.at = a],
         rd'.at = "done" => rd.id >= job.total \/ Disconnected,
         UNCHANGED <<lv, fv, slot, job, wk, batches, outs, pend, nxt, buf, cur>>
  PROVE  ReplayInv'
<1> USE DEF fv
<1>1. /\ rd' \in [id : Nat, at : {"reading", "done", "failed"}]
      /\ rd'.id = rd.id /\ rd'.at # "reading"
  BY DEF ReplayInv, ThreadsTyped
<1>2. ThreadsTyped'
  BY <1>1 DEF ReplayInv, ThreadsTyped
<1>3. Handed' /\ \E K \in Nat : rd'.id = Upto(job'.total, K)
  BY <1>1, RunIs DEF Handed, Holds
<1>4. job.at = "run" => Tracked' /\ Received' /\ Written'
  BY <1>1, RunIs DEF Tracked, Received, Written, SomePanic, Somewhere, Holds
<1>5. job.at = "run" => NobodyLeavesEarly'
  <2> SUFFICES ASSUME job.at = "run" PROVE NobodyLeavesEarly'
    OBVIOUS
  <2>1. NobodyLeavesEarly
    BY RunIs
  <2>2. ASSUME Disconnected PROVE SomePanic
    <3>1. \A w \in Workers : wk[w] # Gone
      BY <2>1 DEF NobodyLeavesEarly
    <3>2. Workers # {}
      BY ReplayAssumption
    <3> QED
      BY <2>2, <3>1, <3>2 DEF Disconnected, Ended, SomePanic
  <2>3. SomePanic' <=> SomePanic
    BY DEF SomePanic
  <2> QED
    BY <1>1, <2>1, <2>2, <2>3 DEF NobodyLeavesEarly
<1>6. Running'
  BY <1>3, <1>4, <1>5 DEF Running
<1>7. /\ out' \in [Versions -> Seq(LineSet)] /\ job' \in Jobs
      /\ \A v \in Versions : v # job.version => out'[v] = out[v]
  BY RunIs DEF ReplayInv, FilesTyped
<1> QED
  BY <1>2, <1>6, <1>7, ThreadsSound

\* The reader sends the next batch.
LEMMA ReaderSends ==
  ASSUME ReplayInv, rd.at = "reading", job.at \in {"run", "failed"},
         rd.id < job.total, Len(batches) < 2 * Cardinality(Workers),
         batches' = Append(batches, BatchAt(rd.id)),
         rd' = [rd EXCEPT !.id = @ + BatchAt(rd.id).n],
         UNCHANGED <<lv, fv, slot, job, wk, outs, pend, nxt, buf, cur>>
  PROVE  ReplayInv'
<1> USE DEF fv
<1>1. PICK K \in Nat :
        /\ rd.id = Upto(job.total, K)
        /\ job.at = "run" =>
             SomePanic \/ \A k \in Nat : nxt <= k /\ k < K => Somewhere(k)
  BY RunIs DEF Tracked
<1>2. PICK b : b = BatchAt(rd.id)
  OBVIOUS
<1>3. /\ b \in BatchSet /\ InPlace(job.total, b) /\ b.first = rd.id /\ b.seq = K
      /\ rd.id + b.n = Upto(job.total, K + 1) /\ rd.id < Upto(job.total, K + 1)
  BY <1>1, <1>2, NextBatch
<1>4. batches \in Seq(BatchSet) /\ rd.id \in Nat /\ b.n \in Nat
      /\ Cardinality(Workers) \in Nat
  BY <1>3, ReplayAssumption, FS_CardinalityType
     DEF ReplayInv, ThreadsTyped, BatchSet
<1>5. /\ rd' \in [id : Nat, at : {"reading", "done", "failed"}]
      /\ rd'.id = Upto(job.total, K + 1) /\ rd.id < rd'.id
      /\ rd'.at = "reading"
  <2>1. PICK e : e = Upto(job.total, K + 1)
    OBVIOUS
  <2>2. rd' = [rd EXCEPT !.id = e] /\ e \in Nat /\ rd.id < e
    BY <2>1, <1>2, <1>3, <1>4, SMTT(30)
  <2>3. rd \in [id : Nat, at : {"reading", "done", "failed"}]
    BY DEF ReplayInv, ThreadsTyped
  <2> QED
    BY <2>1, <2>2, <2>3
<1>6. PICK m \in Nat : m = Len(batches)
  BY <1>4, LenProperties
<1>7. /\ batches' \in Seq(BatchSet) /\ Len(batches') = m + 1
      /\ DOMAIN batches = 1 .. m /\ DOMAIN batches' = 1 .. m + 1
      /\ batches'[m + 1] = b /\ \A i \in 1 .. m : batches'[i] = batches[i]
  BY <1>2, <1>3, <1>4, <1>6, AppendProperties, LenProperties
<1>8. ThreadsTyped'
  BY <1>4, <1>5, <1>6, <1>7, SMTT(30) DEF ReplayInv, ThreadsTyped
<1>9. \A i \in 1 .. m : batches[i] \in BatchSet /\ batches[i].first < rd.id
                        /\ InPlace(job.total, batches[i])
  BY <1>4, <1>7, RunIs, ElementOfSeq DEF Handed
<1>10. \A w \in Workers : Holds(w) =>
         wk[w].first < rd.id /\ InPlace(job.total, wk[w])
  BY RunIs DEF Handed
<1>11. Handed'
  <2>1. \A i \in 1 .. m + 1 :
          InPlace(job.total, batches'[i]) /\ batches'[i].first < rd'.id
    <3> TAKE i \in 1 .. m + 1
    <3>1. CASE i \in 1 .. m
      <4>1. batches'[i] = batches[i] /\ batches[i].first \in Int
        BY <3>1, <1>7, <1>9 DEF BatchSet, Ids
      <4> QED
        BY <3>1, <4>1, <1>9, <1>4, <1>5, SMTT(30)
    <3>2. CASE i = m + 1
      BY <3>2, <1>3, <1>5, <1>7
    <3>3. i \in 1 .. m \/ i = m + 1
      OBVIOUS
    <3> QED
      BY <3>1, <3>2, <3>3, Zenon
  <2>2. \A i, j \in 1 .. m + 1 : i # j => batches'[i] # batches'[j]
    <3>1. \A i \in 1 .. m : batches[i] # b
      BY <1>3, <1>4, <1>9
    <3>2. \A i, j \in 1 .. m : i # j => batches[i] # batches[j]
      BY <1>7, RunIs DEF Handed
    <3>3. \A i \in 1 .. m + 1 : i \in 1 .. m \/ i = m + 1
      OBVIOUS
    <3> QED
      BY <3>1, <3>2, <3>3, <1>7
  <2>3. \A w \in Workers, i \in 1 .. m + 1 : wk[w] # batches'[i]
    <3>1. \A w \in Workers : wk[w] # b
      <4> TAKE w \in Workers
      <4>1. CASE Holds(w)
        BY <4>1, <1>3, <1>4, <1>10
      <4>2. CASE ~Holds(w)
        BY <4>2, <1>3, <1>4 DEF Holds
      <4> QED
        BY <4>1, <4>2
    <3>2. \A w \in Workers, i \in 1 .. m : wk[w] # batches[i]
      BY <1>7, RunIs DEF Handed
    <3>3. \A i \in 1 .. m + 1 : i \in 1 .. m \/ i = m + 1
      OBVIOUS
    <3> QED
      BY <3>1, <3>2, <3>3, <1>7
  <2>4. \A w \in Workers : Holds(w) =>
          InPlace(job.total, wk[w]) /\ wk[w].first < rd'.id
    <3>1. \A w \in Workers : Holds(w) => wk[w].first \in Int
      BY HeldIs
    <3> QED
      BY <3>1, <1>4, <1>5, <1>10
  <2>5. \A v, w \in Workers : v # w /\ Holds(v) => wk[v] # wk[w]
    BY RunIs DEF Handed
  <2> QED
    BY <2>1, <2>2, <2>3, <2>4, <2>5, <1>7 DEF Handed, Holds
<1>12. job.at = "run" => Tracked'
  <2> SUFFICES ASSUME job.at = "run", ~SomePanic
               PROVE  \A k \in Nat : nxt <= k /\ k < K + 1 => Somewhere(k)'
    BY <1>5 DEF Tracked, SomePanic
  <2> TAKE k \in Nat
  <2> HAVE nxt <= k /\ k < K + 1
  <2>1. CASE k = K
    <3>1. m + 1 \in DOMAIN batches' /\ batches'[m + 1].seq = k
      BY <2>1, <1>3, <1>7
    <3> QED
      BY <3>1 DEF Somewhere
  <2>2. CASE k # K
    <3>1. Somewhere(k)
      BY <2>2, <1>1
    <3>2. \A i \in DOMAIN batches :
            i \in DOMAIN batches' /\ batches'[i] = batches[i]
      BY <1>7
    <3> QED
      BY <3>1, <3>2 DEF Somewhere, Holds
  <2> QED
    BY <2>1, <2>2
<1>13. job.at = "run" => Received' /\ NobodyLeavesEarly' /\ Written'
  <2>1. job.at = "run" => ~(\E w \in Workers : wk[w] = Gone)
    BY RunIs DEF NobodyLeavesEarly
  <2> QED
    BY <2>1, <1>5, RunIs DEF Received, NobodyLeavesEarly, Written
<1>14. Running'
  <2>1. \E J \in Nat : rd'.id = Upto(job'.total, J)
    BY <1>5
  <2> QED
    BY <2>1, <1>11, <1>12, <1>13, RunIs DEF Running
<1>15. /\ out' \in [Versions -> Seq(LineSet)] /\ job' \in Jobs
       /\ \A v \in Versions : v # job.version => out'[v] = out[v]
  BY RunIs DEF ReplayInv, FilesTyped
<1> QED
  BY <1>8, <1>14, <1>15, ThreadsSound

\* A step of the reader.
LEMMA ReaderStepSound ==
  ASSUME ReplayInv, ReaderStep PROVE ReplayInv'
<1>1. rd.at = "reading" /\ job.at \in {"run", "failed"}
  <2>1. rd.at = "reading" /\ ~Joined
    BY DEF ReaderStep, Joined
  <2>2. job = NoJob \/ job \in Jobs
    BY DEF ReplayInv, EngineTyped
  <2> QED
    BY <2>1, <2>2 DEF ReplayInv, JobAlone, Jobs
<1>2. rd.id \in Nat
  BY DEF ReplayInv, ThreadsTyped
<1>3. \/ /\ rd' = [rd EXCEPT !.at = "done"] /\ UNCHANGED batches
         /\ rd.id >= job.total \/ Disconnected
      \/ rd' = [rd EXCEPT !.at = "failed"] /\ UNCHANGED batches
      \/ /\ rd.id < job.total /\ Len(batches) < 2 * Cardinality(Workers)
         /\ batches' = Append(batches, BatchAt(rd.id))
         /\ rd' = [rd EXCEPT !.id = @ + BatchAt(rd.id).n]
  BY DEF ReaderStep
<1>4. UNCHANGED <<lv, fv, slot, job, wk, outs, pend, nxt, buf, cur>>
  BY DEF ReaderStep
<1>5. CASE rd' = [rd EXCEPT !.at = "done"] /\ UNCHANGED batches
           /\ (rd.id >= job.total \/ Disconnected)
  BY <1>1, <1>4, <1>5, ReaderStops
<1>6. CASE rd' = [rd EXCEPT !.at = "failed"] /\ UNCHANGED batches
  <2>1. rd'.at # "done"
    BY <1>6 DEF ReplayInv, ThreadsTyped
  <2> QED
    BY <1>1, <1>4, <1>6, <2>1, ReaderStops
<1>7. CASE /\ rd.id < job.total /\ Len(batches) < 2 * Cardinality(Workers)
           /\ batches' = Append(batches, BatchAt(rd.id))
           /\ rd' = [rd EXCEPT !.id = @ + BatchAt(rd.id).n]
  BY <1>1, <1>4, <1>7, ReaderSends
<1> QED
  BY <1>3, <1>5, <1>6, <1>7

\* A worker's step that leaves the writer's side alone; where a panic is new,
\* nothing is owed for the batch that died with it.
LEMMA WorkersSound ==
  ASSUME ReplayInv, job.at \in {"run", "failed"},
         UNCHANGED <<lv, fv, slot, job, rd, pend, nxt, buf, cur>>,
         ThreadsTyped', Handed',
         job.at = "run" =>
           /\ Received' /\ NobodyLeavesEarly'
           /\ ~SomePanic' => ~SomePanic /\ \A k \in Nat :
                Somewhere(k) => Somewhere(k)'
  PROVE  ReplayInv'
<1> USE DEF fv
<1>1. job.at = "run" => Tracked'
  <2> SUFFICES ASSUME job.at = "run" PROVE Tracked'
    OBVIOUS
  <2>1. PICK K \in Nat :
          /\ rd.id = Upto(job.total, K)
          /\ SomePanic \/ \A k \in Nat : nxt <= k /\ k < K => Somewhere(k)
    BY RunIs DEF Tracked
  <2>2. SomePanic' \/ \A k \in Nat : nxt <= k /\ k < K => Somewhere(k)'
    BY <2>1
  <2> QED
    BY <2>1, <2>2 DEF Tracked
<1>2. job.at = "run" => Written'
  BY RunIs DEF Written
<1>3. Running'
  BY <1>1, <1>2, RunIs DEF Running
<1>4. /\ out' \in [Versions -> Seq(LineSet)] /\ job' \in Jobs
      /\ \A v \in Versions : v # job.version => out'[v] = out[v]
  BY RunIs DEF ReplayInv, FilesTyped
<1> QED
  BY <1>3, <1>4, ThreadsSound

\* A thread of a job is at work only while the job is.
LEMMA WorkingJob ==
  ASSUME ReplayInv, ~Joined
  PROVE  job.at \in {"run", "failed"}
<1>1. job = NoJob \/ job \in Jobs
  BY DEF ReplayInv, EngineTyped
<1> QED
  BY <1>1 DEF ReplayInv, JobAlone, Jobs

\* A worker takes the next batch from the channel.
LEMMA WorkerTakes ==
  ASSUME ReplayInv, NEW w \in Workers, wk[w] = Idle, batches # << >>,
         wk' = [wk EXCEPT ![w] = Head(batches)], batches' = Tail(batches),
         UNCHANGED <<lv, fv, slot, job, rd, outs, pend, nxt, buf, cur, bv>>
  PROVE  ReplayInv'
<1>1. job.at \in {"run", "failed"}
  BY WorkingJob DEF Joined, Ended, Idle, Gone, Panicked
<1>2. batches \in Seq(BatchSet) /\ wk \in
        [Workers -> BatchSet \cup {Idle, Gone, Panicked}]
  BY DEF ReplayInv, ThreadsTyped
<1>3. PICK m \in Nat : m + 1 = Len(batches)
  <2>1. Len(batches) \in Nat /\ Len(batches) # 0
    BY <1>2, LenProperties, EmptySeq
  <2>2. Len(batches) - 1 \in Nat /\ (Len(batches) - 1) + 1 = Len(batches)
    BY <2>1
  <2> QED
    BY <2>2
<1>4. /\ DOMAIN batches = 1 .. m + 1 /\ DOMAIN batches' = 1 .. m
      /\ batches' \in Seq(BatchSet) /\ Len(batches') = m
      /\ \A i \in 1 .. m : batches'[i] = batches[i + 1]
      /\ Head(batches) = batches[1] /\ batches[1] \in BatchSet
      /\ 1 \in 1 .. m + 1 /\ \A i \in 1 .. m : i + 1 \in 1 .. m + 1 /\ i + 1 # 1
  BY <1>2, <1>3, HeadTailProperties, LenProperties, ElementOfSeq
<1>5. PICK b \in BatchSet : b = batches[1]
  BY <1>4
<1>6. /\ wk' \in [Workers -> BatchSet \cup {Idle, Gone, Panicked}]
      /\ wk'[w] = b /\ \A v \in Workers : v # w => wk'[v] = wk[v]
  BY <1>2, <1>4, <1>5
<1>7. ThreadsTyped'
  BY <1>3, <1>4, <1>6, FS_CardinalityType, ReplayAssumption
     DEF ReplayInv, ThreadsTyped
<1>8. b.first \in Nat /\ b.first >= 0 /\ b \notin {Idle, Gone, Panicked}
  BY DEF BatchSet, Ids, Idle, Gone, Panicked
<1>9. /\ InPlace(job.total, b) /\ b.first < rd.id
      /\ \A i \in 1 .. m : batches'[i] # b /\ batches'[i].first < rd.id
           /\ InPlace(job.total, batches'[i])
      /\ \A i, j \in 1 .. m : i # j => batches'[i] # batches'[j]
      /\ \A v \in Workers : wk[v] # b /\ \A i \in 1 .. m : wk[v] # batches'[i]
      /\ \A v \in Workers : Holds(v) =>
           InPlace(job.total, wk[v]) /\ wk[v].first < rd.id
      /\ \A u, v \in Workers : u # v /\ Holds(u) => wk[u] # wk[v]
  <2>1. Handed
    BY <1>1, RunIs
  <2>2. \A i, j \in 1 .. m + 1 : i # j => batches[i] # batches[j]
    BY <2>1, <1>4 DEF Handed
  <2>3. \A i \in 1 .. m + 1 : InPlace(job.total, batches[i])
                              /\ batches[i].first < rd.id
    BY <2>1, <1>4 DEF Handed
  <2>4. \A v \in Workers, i \in 1 .. m + 1 : wk[v] # batches[i]
    BY <2>1, <1>4 DEF Handed
  <2>5. \A i, j \in 1 .. m : i # j => i + 1 # j + 1
    OBVIOUS
  <2>6. /\ \A v \in Workers : Holds(v) =>
             InPlace(job.total, wk[v]) /\ wk[v].first < rd.id
        /\ \A u, v \in Workers : u # v /\ Holds(u) => wk[u] # wk[v]
    BY <2>1 DEF Handed
  <2>7. \A i \in 1 .. m : batches'[i] # b /\ batches'[i].first < rd.id
                          /\ InPlace(job.total, batches'[i])
    BY <2>2, <2>3, <1>4, <1>5
  <2>8. \A i, j \in 1 .. m : i # j => batches'[i] # batches'[j]
    BY <2>2, <2>5, <1>4
  <2>9. \A v \in Workers : wk[v] # b /\ \A i \in 1 .. m : wk[v] # batches'[i]
    BY <2>4, <1>4, <1>5
  <2> QED
    BY <2>3, <2>6, <2>7, <2>8, <2>9, <1>4, <1>5
<1>10. \A v \in Workers : v # w => (Holds(v)' <=> Holds(v))
  BY <1>6 DEF Holds
<1>11. Handed'
  <2>1. \A v \in Workers : Holds(v)' =>
          InPlace(job.total, wk'[v]) /\ wk'[v].first < rd.id
    BY <1>6, <1>9, <1>10
  <2>2. \A v \in Workers, i \in 1 .. m : wk'[v] # batches'[i]
    BY <1>6, <1>9
  <2>3. \A u, v \in Workers : u # v /\ Holds(u)' => wk'[u] # wk'[v]
    BY <1>6, <1>9, <1>10
  <2>4. /\ \A i \in 1 .. m : InPlace(job.total, batches'[i])
                               /\ batches'[i].first < rd.id
        /\ \A i, j \in 1 .. m : i # j => batches'[i] # batches'[j]
    BY <1>9
  <2>5. job' = job /\ rd' = rd /\ DOMAIN batches' = 1 .. m
    BY <1>4
  <2>6. /\ \A i \in DOMAIN batches' : InPlace(job.total, batches'[i])
                                       /\ batches'[i].first < rd.id
        /\ \A i, j \in DOMAIN batches' : i # j => batches'[i] # batches'[j]
        /\ \A v \in Workers, i \in DOMAIN batches' : wk'[v] # batches'[i]
    BY <2>2, <2>4, <2>5
  <2> QED
    BY <2>1, <2>3, <2>5, <2>6 DEF Handed, InPlace, Upto
<1>12. job.at = "run" => Received' /\ NobodyLeavesEarly'
  <2>1. SomePanic => SomePanic'
    <3>1. wk[w] # Panicked
      BY DEF Idle, Panicked
    <3> QED
      BY <3>1, <1>6 DEF SomePanic
  <2>2. (\E v \in Workers : wk'[v] = Gone) => \E v \in Workers : wk[v] = Gone
    BY <1>6, <1>8
  <2> QED
    BY <2>1, <2>2, RunIs DEF Received, NobodyLeavesEarly
<1>13. ~SomePanic' => ~SomePanic
  <2>1. wk[w] # Panicked
    BY DEF Idle, Panicked
  <2> QED
    BY <2>1, <1>6 DEF SomePanic
<1>14. \A k \in Nat : Somewhere(k) => Somewhere(k)'
  <2> TAKE k \in Nat
  <2> HAVE Somewhere(k)
  <2>1. CASE \E i \in DOMAIN batches : batches[i].seq = k
    <3>1. PICK i \in 1 .. m + 1 : batches[i].seq = k
      BY <2>1, <1>4
    <3>2. CASE i = 1
      <4>1. Holds(w)' /\ wk'[w].seq = k
        BY <3>1, <3>2, <1>5, <1>6, <1>8 DEF Holds
      <4> QED
        BY <4>1 DEF Somewhere, Holds
    <3>3. CASE i # 1
      <4>1. i - 1 \in 1 .. m /\ (i - 1) + 1 = i
        BY <3>3
      <4>2. i - 1 \in DOMAIN batches' /\ batches'[i - 1].seq = k
        BY <4>1, <3>1, <1>4
      <4> QED
        BY <4>2 DEF Somewhere
    <3> QED
      BY <3>2, <3>3
  <2>2. CASE \E v \in Workers : Holds(v) /\ wk[v].seq = k
    <3>1. PICK v \in Workers : Holds(v) /\ wk[v].seq = k
      BY <2>2
    <3>2. v # w
      BY <3>1 DEF Holds, Idle
    <3>3. Holds(v)' /\ wk'[v].seq = k
      BY <3>1, <3>2, <1>6, <1>10
    <3> QED
      BY <3>3 DEF Somewhere, Holds
  <2>3. CASE \/ \E i \in DOMAIN outs : outs[i].seq = k
             \/ \E b2 \in pend : b2.seq = k
    BY <2>3 DEF Somewhere
  <2> QED
    BY <2>1, <2>2, <2>3 DEF Somewhere
<1> QED
  BY <1>1, <1>7, <1>11, <1>12, <1>13, <1>14, WorkersSound

\* A worker puts down what it has, if anything, and holds nothing.
LEMMA HandsEmptied ==
  ASSUME ReplayInv, job.at \in {"run", "failed"}, NEW w \in Workers,
         NEW x \in {Idle, Gone, Panicked}, wk' = [wk EXCEPT ![w] = x],
         UNCHANGED <<batches, job, rd>>
  PROVE  /\ wk' \in [Workers -> BatchSet \cup {Idle, Gone, Panicked}]
         /\ wk'[w] = x /\ \A v \in Workers : v # w => wk'[v] = wk[v]
         /\ \A v \in Workers : Holds(v)' => v # w /\ Holds(v)
         /\ \A v \in Workers : v # w /\ Holds(v) => Holds(v)'
         /\ Handed'
<1>1. /\ wk' \in [Workers -> BatchSet \cup {Idle, Gone, Panicked}]
      /\ wk'[w] = x /\ \A v \in Workers : v # w => wk'[v] = wk[v]
  BY DEF ReplayInv, ThreadsTyped
<1>2. ~(x.first >= 0)
  BY DEF Idle, Gone, Panicked
<1>3. /\ \A v \in Workers : Holds(v)' => v # w /\ Holds(v)
      /\ \A v \in Workers : v # w /\ Holds(v) => Holds(v)'
  BY <1>1, <1>2 DEF Holds
<1>4. Handed
  BY RunIs
<1>5. \A i \in DOMAIN batches : batches[i] \in BatchSet
  BY ElementOfSeq, LenProperties DEF ReplayInv, ThreadsTyped
<1>6. x \notin BatchSet
  BY <1>2 DEF BatchSet, Ids
<1>7. \A v \in Workers, i \in DOMAIN batches : wk'[v] # batches[i]
  BY <1>1, <1>4, <1>5, <1>6 DEF Handed
<1>8. /\ \A v \in Workers : Holds(v)' =>
           InPlace(job.total, wk'[v]) /\ wk'[v].first < rd.id
      /\ \A u, v \in Workers : u # v /\ Holds(u)' => wk'[u] # wk'[v]
  <2>1. ASSUME NEW u \in Workers, NEW v \in Workers, u # v, Holds(u)'
        PROVE  wk'[u] # wk'[v]
    <3>1. u # w /\ Holds(u) /\ wk'[u] = wk[u]
      BY <2>1, <1>1, <1>3
    <3>2. CASE v = w
      <4>1. wk[u] \in BatchSet
        BY <3>1, HeldIs
      <4> QED
        BY <4>1, <3>1, <3>2, <1>1, <1>6
    <3>3. CASE v # w
      BY <2>1, <3>1, <3>3, <1>1, <1>4 DEF Handed
    <3> QED
      BY <3>2, <3>3
  <2> QED
    BY <2>1, <1>1, <1>3, <1>4 DEF Handed
<1>9. Handed'
  BY <1>4, <1>7, <1>8 DEF Handed
<1> QED
  BY <1>1, <1>3, <1>9

\* A worker that finds its channel closed and empty leaves.
LEMMA WorkerLeaves ==
  ASSUME ReplayInv, NEW w \in Workers, wk[w] = Idle, batches = << >>,
         rd.at # "reading", wk' = [wk EXCEPT ![w] = Gone],
         UNCHANGED <<lv, fv, slot, job, rd, batches, outs, pend, nxt, buf, cur,
                     bv>>
  PROVE  ReplayInv'
<1>1. job.at \in {"run", "failed"}
  BY WorkingJob DEF Joined, Ended, Idle, Gone, Panicked
<1>2. /\ wk' \in [Workers -> BatchSet \cup {Idle, Gone, Panicked}]
      /\ wk'[w] = Gone /\ \A v \in Workers : v # w => wk'[v] = wk[v]
      /\ \A v \in Workers : v # w /\ Holds(v) => Holds(v)'
      /\ Handed'
  BY <1>1, HandsEmptied
<1>3. ThreadsTyped'
  BY <1>2 DEF ReplayInv, ThreadsTyped
<1>4. SomePanic <=> SomePanic'
  BY <1>2 DEF SomePanic, Gone, Panicked, Idle
<1>5. job.at = "run" => Received' /\ NobodyLeavesEarly'
  BY <1>4, RunIs DEF Received, NobodyLeavesEarly
<1>6. \A k \in Nat : Somewhere(k) => Somewhere(k)'
  <2>1. \A v \in Workers : Holds(v) => Holds(v)' /\ wk'[v] = wk[v]
    BY <1>2 DEF Holds, Idle
  <2> QED
    BY <2>1 DEF Somewhere, Holds
<1> QED
  BY <1>1, <1>2, <1>3, <1>4, <1>5, <1>6, WorkersSound

\* Behind a writer that failed a worker drops what it has and leaves.
LEMMA WorkerStops ==
  ASSUME ReplayInv, NEW w \in Workers, job.at = "failed",
         wk' = [wk EXCEPT ![w] = Gone],
         UNCHANGED <<lv, fv, slot, job, rd, batches, outs, pend, nxt, buf, cur,
                     bv>>
  PROVE  ReplayInv'
<1>1. /\ wk' \in [Workers -> BatchSet \cup {Idle, Gone, Panicked}]
      /\ Handed'
  BY HandsEmptied
<1>2. ThreadsTyped'
  BY <1>1 DEF ReplayInv, ThreadsTyped
<1> QED
  BY <1>1, <1>2, WorkersSound

\* A worker panics.
LEMMA PanicSound ==
  ASSUME ReplayInv, NEW w \in Workers, Panic(w) PROVE ReplayInv'
<1> USE DEF Panic
<1>1. job.at \in {"run", "failed"}
  BY WorkingJob DEF Joined, Ended, Holds, Gone, Panicked
<1>2. /\ wk' \in [Workers -> BatchSet \cup {Idle, Gone, Panicked}]
      /\ wk'[w] = Panicked /\ \A v \in Workers : v # w => wk'[v] = wk[v]
      /\ Handed'
  BY <1>1, HandsEmptied
<1>3. ThreadsTyped' /\ SomePanic'
  BY <1>2 DEF ReplayInv, ThreadsTyped, SomePanic
<1>4. (\E v \in Workers : wk'[v] = Gone) => \E v \in Workers : wk[v] = Gone
  BY <1>2 DEF Gone, Panicked
<1>5. job.at = "run" => Received' /\ NobodyLeavesEarly'
  BY <1>3, <1>4, RunIs DEF Received, NobodyLeavesEarly
<1> QED
  BY <1>1, <1>2, <1>3, <1>5, WorkersSound

\* A worker hands the lines of its batch to the writer.
LEMMA WorkerSends ==
  ASSUME ReplayInv, NEW w \in Workers, Holds(w), job.at = "run",
         Len(outs) < 4 * Cardinality(Workers), outs' = Append(outs, wk[w]),
         wk' = [wk EXCEPT ![w] = Idle],
         UNCHANGED <<lv, fv, slot, job, rd, batches, pend, nxt, buf, cur, bv>>
  PROVE  ReplayInv'
<1> USE DEF fv
<1>1. /\ wk' \in [Workers -> BatchSet \cup {Idle, Gone, Panicked}]
      /\ wk'[w] = Idle /\ \A v \in Workers : v # w => wk'[v] = wk[v]
      /\ \A v \in Workers : v # w /\ Holds(v) => Holds(v)'
      /\ Handed'
  BY HandsEmptied
<1>2. PICK b \in BatchSet : b = wk[w]
  BY HeldIs
<1>3. outs \in Seq(BatchSet) /\ Cardinality(Workers) \in Nat
  BY ReplayAssumption, FS_CardinalityType DEF ReplayInv, ThreadsTyped
<1>4. PICK m \in Nat : m = Len(outs)
  BY <1>3, LenProperties
<1>5. /\ outs' \in Seq(BatchSet) /\ Len(outs') = m + 1
      /\ DOMAIN outs = 1 .. m /\ DOMAIN outs' = 1 .. m + 1
      /\ outs'[m + 1] = b /\ \A i \in 1 .. m : outs'[i] = outs[i]
  BY <1>2, <1>3, <1>4, AppendProperties, LenProperties
<1>6. ThreadsTyped'
  BY <1>1, <1>3, <1>4, <1>5 DEF ReplayInv, ThreadsTyped
<1>7. SomePanic <=> SomePanic'
  <2>1. wk[w] # Panicked
    BY DEF Holds, Panicked
  <2> QED
    BY <2>1, <1>1 DEF SomePanic, Idle, Panicked
<1>8. NobodyLeavesEarly'
  <2>1. (\E v \in Workers : wk'[v] = Gone) => \E v \in Workers : wk[v] = Gone
    BY <1>1 DEF Idle, Gone
  <2> QED
    BY <2>1, <1>7, RunIs DEF NobodyLeavesEarly
<1>9. Received'
  <2>1. InPlace(job.total, b)
    BY <1>2, RunIs DEF Handed
  <2>2. \A i \in 1 .. m : InPlace(job.total, outs[i])
    BY <1>5, RunIs DEF Received
  <2>3. \A i \in 1 .. m + 1 : i \in 1 .. m \/ i = m + 1
    OBVIOUS
  <2>4. \A i \in 1 .. m + 1 : InPlace(job.total, outs'[i])
    BY <2>1, <2>2, <2>3, <1>5, Zenon
  <2> QED
    BY <2>4, <1>5, RunIs DEF Received
<1>10. \A k \in Nat : Somewhere(k) => Somewhere(k)'
  <2> TAKE k \in Nat
  <2> HAVE Somewhere(k)
  <2>1. CASE \E i \in DOMAIN outs : outs[i].seq = k
    BY <2>1, <1>5 DEF Somewhere
  <2>2. CASE \E v \in Workers : Holds(v) /\ wk[v].seq = k
    <3>1. PICK v \in Workers : Holds(v) /\ wk[v].seq = k
      BY <2>2
    <3>2. CASE v = w
      <4>1. m + 1 \in DOMAIN outs' /\ outs'[m + 1].seq = k
        BY <3>1, <3>2, <1>2, <1>5
      <4> QED
        BY <4>1 DEF Somewhere
    <3>3. CASE v # w
      <4>1. Holds(v)' /\ wk'[v].seq = k
        BY <3>1, <3>3, <1>1
      <4> QED
        BY <4>1 DEF Somewhere, Holds
    <3> QED
      BY <3>2, <3>3
  <2>3. CASE \/ \E i \in DOMAIN batches : batches[i].seq = k
             \/ \E b2 \in pend : b2.seq = k
    BY <2>3 DEF Somewhere
  <2> QED
    BY <2>1, <2>2, <2>3 DEF Somewhere
<1>11. Tracked' /\ Written'
  <2>1. PICK K \in Nat :
          /\ rd.id = Upto(job.total, K)
          /\ SomePanic \/ \A k \in Nat : nxt <= k /\ k < K => Somewhere(k)
    BY RunIs DEF Tracked
  <2>2. SomePanic' \/ \A k \in Nat : nxt <= k /\ k < K => Somewhere(k)'
    BY <2>1, <1>7, <1>10
  <2> QED
    BY <2>1, <2>2, RunIs DEF Tracked, Written
<1>12. Running'
  BY <1>1, <1>8, <1>9, <1>11, RunIs DEF Running
<1>13. /\ out' \in [Versions -> Seq(LineSet)] /\ job' \in Jobs
       /\ \A v \in Versions : v # job.version => out'[v] = out[v]
  BY RunIs DEF ReplayInv, FilesTyped
<1> QED
  BY <1>6, <1>12, <1>13, ThreadsSound

\* A step of a worker.
LEMMA WorkerStepSound ==
  ASSUME ReplayInv, NEW w \in Workers, WorkerStep(w) PROVE ReplayInv'
<1>1. CASE /\ wk[w] = Idle /\ batches # << >>
           /\ wk' = [wk EXCEPT ![w] = Head(batches)]
           /\ batches' = Tail(batches) /\ UNCHANGED outs
  BY <1>1, WorkerTakes DEF WorkerStep
<1>2. CASE /\ wk[w] = Idle /\ batches = << >> /\ rd.at # "reading"
           /\ wk' = [wk EXCEPT ![w] = Gone] /\ UNCHANGED <<batches, outs>>
  BY <1>2, WorkerLeaves DEF WorkerStep
<1>3. CASE /\ Holds(w) /\ job.at = "run"
           /\ Len(outs) < 4 * Cardinality(Workers)
           /\ outs' = Append(outs, wk[w])
           /\ wk' = [wk EXCEPT ![w] = Idle] /\ UNCHANGED batches
  BY <1>3, WorkerSends DEF WorkerStep
<1>4. CASE /\ Holds(w) /\ job.at = "failed"
           /\ wk' = [wk EXCEPT ![w] = Gone] /\ UNCHANGED <<batches, outs>>
  BY <1>4, WorkerStops DEF WorkerStep
<1> QED
  BY <1>1, <1>2, <1>3, <1>4 DEF WorkerStep

-----------------------------------------------------------------------------
(* The lines of batches in a row.                                          *)

\* A function on 1 .. n is a sequence of n elements.
LEMMA FunctionIsSeq ==
  ASSUME NEW S, NEW n \in Nat, NEW f \in [1 .. n -> S]
  PROVE  f \in Seq(S) /\ Len(f) = n
<1>1. f \in Seq(S)
  OBVIOUS
<1>2. 1 .. Len(f) = 1 .. n /\ Len(f) \in Nat
  BY <1>1, LenProperties
<1> QED
  BY <1>1, <1>2

\* The lines of the first records are lines.
LEMMA WholeType ==
  ASSUME NEW set \in FileSets, NEW n \in 0 .. MaxRecords
  PROVE  /\ Whole(set, n) \in Seq(LineSet) /\ Len(Whole(set, n)) = n
         /\ \A i \in 1 .. n : Whole(set, n)[i] = Line(i - 1, set)
<1>1. MaxRecords \in Nat /\ n \in Nat
  BY ReplayAssumption
<1>2. \A i \in 1 .. n : i - 1 \in Ids
  BY <1>1 DEF Ids
<1>3. \A i \in 1 .. n : Line(i - 1, set) \in LineSet
  BY <1>2, LineType
<1>4. /\ Whole(set, n) \in [1 .. n -> LineSet]
      /\ \A i \in 1 .. n : Whole(set, n)[i] = Line(i - 1, set)
  BY <1>3 DEF Whole
<1> QED
  BY <1>1, <1>4, FunctionIsSeq

\* A batch's lines continue the lines of the records before it.
LEMMA BatchContinues ==
  ASSUME NEW t \in 0 .. MaxRecords, NEW set \in FileSets, NEW b \in BatchSet,
         InPlace(t, b)
  PROVE  /\ Lines(b, set) \in Seq(LineSet) /\ Lines(b, set) # << >>
         /\ Whole(set, Upto(t, b.seq)) \o Lines(b, set)
              = Whole(set, Upto(t, b.seq + 1))
<1>1. MaxRecords \in Nat /\ t \in Nat /\ b.seq \in Nat
  BY ReplayAssumption DEF BatchSet
<1>2. PICK f, n, e : f = b.first /\ n = b.n /\ e = Upto(t, b.seq + 1)
  OBVIOUS
<1>3. /\ f \in Nat /\ n \in Nat \ {0} /\ e \in 0 .. t /\ f + n = e
      /\ f = Upto(t, b.seq)
  <2>1. e \in 0 .. t
    BY <1>1, <1>2, UptoType
  <2>2. b.first \in Nat /\ b.n \in Nat \ {0}
    BY DEF BatchSet, Ids
  <2> QED
    BY <2>1, <2>2, <1>2 DEF InPlace
<1>4. \A i \in 1 .. n : f + i - 1 \in Ids
  BY <1>1, <1>3 DEF Ids
<1>5. \A i \in 1 .. n : Line(f + i - 1, set) \in LineSet
  BY <1>4, LineType
<1>6. PICK l : l = Lines(b, set)
  OBVIOUS
<1>7. /\ l \in [1 .. n -> LineSet]
      /\ \A i \in 1 .. n : l[i] = Line(f + i - 1, set)
  BY <1>2, <1>5, <1>6 DEF Lines
<1>8. l \in Seq(LineSet) /\ Len(l) = n
  BY <1>3, <1>7, FunctionIsSeq
<1>9. f \in 0 .. MaxRecords /\ e \in 0 .. MaxRecords
  BY <1>1, <1>3
<1>10. PICK u, w : u = Whole(set, f) /\ w = Whole(set, e)
  OBVIOUS
<1>11. /\ u \in Seq(LineSet) /\ Len(u) = f /\ w \in Seq(LineSet) /\ Len(w) = e
       /\ \A i \in 1 .. f : u[i] = Line(i - 1, set)
       /\ \A i \in 1 .. e : w[i] = Line(i - 1, set)
  BY <1>9, <1>10, WholeType
<1>12. /\ u \o l \in Seq(LineSet) /\ Len(u \o l) = e
       /\ \A i \in 1 .. e : (u \o l)[i] = IF i <= f THEN u[i] ELSE l[i - f]
  <2>1. /\ u \o l \in Seq(LineSet) /\ Len(u \o l) = Len(u) + Len(l)
        /\ \A i \in 1 .. Len(u) + Len(l) :
             (u \o l)[i] = IF i <= Len(u) THEN u[i] ELSE l[i - Len(u)]
    BY <1>8, <1>11, ConcatProperties
  <2>2. Len(u) = f /\ Len(u) + Len(l) = e
    BY <1>3, <1>8, <1>11
  <2> QED
    BY <2>1, <2>2
<1>13. \A i \in 1 .. e : (u \o l)[i] = w[i]
  <2> TAKE i \in 1 .. e
  <2>1. CASE i <= f
    BY <2>1, <1>3, <1>11, <1>12
  <2>2. CASE ~(i <= f)
    <3>1. i - f \in 1 .. n /\ f + (i - f) - 1 = i - 1
      BY <2>2, <1>3
    <3> QED
      BY <2>2, <3>1, <1>7, <1>11, <1>12
  <2> QED
    BY <2>1, <2>2
<1>14. u \o l = w
  BY <1>11, <1>12, <1>13, SeqEqual
<1>15. l # << >>
  BY <1>3, <1>8
<1> QED
  BY <1>2, <1>3, <1>6, <1>8, <1>10, <1>14, <1>15

\* s are k batches, in a row from batch n on.
Row(t, s, n, k) ==
  /\ s \in [1 .. k -> BatchSet]
  /\ \A i \in 1 .. k : InPlace(t, s[i]) /\ s[i].seq = n + i - 1

\* The lines of s, joined.
RowLines(set, s, k) == FlattenSeq([i \in 1 .. k |-> Lines(s[i], set)])

\* The lines of batches in a row continue the lines before them.
LEMMA RowContinues ==
  ASSUME NEW t \in 0 .. MaxRecords, NEW set \in FileSets, NEW n \in Nat,
         NEW k \in Nat, NEW s, Row(t, s, n, k)
  PROVE  /\ RowLines(set, s, k) \in Seq(LineSet)
         /\ Whole(set, Upto(t, n)) \o RowLines(set, s, k)
              = Whole(set, Upto(t, n + k))
<1> DEFINE L(j) == [i \in 1 .. j |-> Lines(s[i], set)]
           T == {j \in Nat : j <= k =>
                   /\ L(j) \in Seq(Seq(LineSet))
                   /\ Whole(set, Upto(t, n)) \o FlattenSeq(L(j))
                        = Whole(set, Upto(t, n + j))}
<1>1. \A i \in 1 .. k : /\ s[i] \in BatchSet /\ InPlace(t, s[i])
                        /\ s[i].seq = n + i - 1
                        /\ Lines(s[i], set) \in Seq(LineSet)
  <2>1. \A i \in 1 .. k : /\ s[i] \in BatchSet /\ InPlace(t, s[i])
                          /\ s[i].seq = n + i - 1
    BY DEF Row
  <2> QED
    BY <2>1, BatchContinues
<1>2. \A j \in Nat : j <= k => L(j) \in Seq(Seq(LineSet)) /\ Len(L(j)) = j
  <2> SUFFICES ASSUME NEW j \in Nat, j <= k
               PROVE  L(j) \in Seq(Seq(LineSet)) /\ Len(L(j)) = j
    OBVIOUS
  <2>1. \A i \in 1 .. j : i \in 1 .. k
    OBVIOUS
  <2>2. L(j) \in [1 .. j -> Seq(LineSet)]
    BY <2>1, <1>1
  <2> HIDE DEF L
  <2> QED
    BY <2>2, FunctionIsSeq
<1>3. MaxRecords \in Nat /\ t \in Nat
  BY ReplayAssumption
<1>4. \A j \in Nat : Upto(t, n + j) \in 0 .. MaxRecords
  <2> TAKE j \in Nat
  <2>1. n + j \in Nat
    OBVIOUS
  <2>2. Upto(t, n + j) \in 0 .. t
    BY <2>1, <1>3, UptoType
  <2> QED
    BY <2>2, <1>3
<1>5. \A j \in Nat : Whole(set, Upto(t, n + j)) \in Seq(LineSet)
  BY <1>4, WholeType
<1>6. 0 \in T
  <2>1. L(0) = << >>
    OBVIOUS
  <2>2. Upto(t, n + 0) = Upto(t, n)
    OBVIOUS
  <2>3. Whole(set, Upto(t, n)) \in Seq(LineSet) /\ 0 \in Nat
    BY <1>5, <2>2
  <2>4. Whole(set, Upto(t, n)) \o FlattenSeq(L(0)) = Whole(set, Upto(t, n + 0))
    BY <2>1, <2>2, <2>3, FlatEmpty, ConcatEmptySeq, Zenon
  <2>5. L(0) \in Seq(Seq(LineSet))
    BY <1>2, <2>3
  <2> HIDE DEF L
  <2> QED
    BY <2>3, <2>4, <2>5
<1>7. ASSUME NEW j \in Nat, j < k, j \in T PROVE j + 1 \in T
  <2>1. j + 1 \in 1 .. k /\ j + 1 \in Nat /\ j <= k /\ n + (j + 1) - 1 = n + j
        /\ n + (j + 1) = n + j + 1
    BY <1>7
  <2>2. PICK l : l = Lines(s[j + 1], set)
    OBVIOUS
  <2>3. /\ l \in Seq(LineSet)
        /\ Whole(set, Upto(t, n + j)) \o l = Whole(set, Upto(t, n + (j + 1)))
    <3>1. /\ s[j + 1] \in BatchSet /\ InPlace(t, s[j + 1])
          /\ s[j + 1].seq = n + j /\ s[j + 1].seq + 1 = n + (j + 1)
      BY <2>1, <1>1
    <3>2. /\ Lines(s[j + 1], set) \in Seq(LineSet)
          /\ Whole(set, Upto(t, s[j + 1].seq)) \o Lines(s[j + 1], set)
               = Whole(set, Upto(t, s[j + 1].seq + 1))
      BY <3>1, BatchContinues
    <3> QED
      BY <2>2, <3>1, <3>2
  <2>4. /\ L(j) \in Seq(Seq(LineSet)) /\ L(j + 1) \in Seq(Seq(LineSet))
        /\ Len(L(j)) = j /\ Len(L(j + 1)) = j + 1
    BY <2>1, <1>2
  <2>5. \A i \in 1 .. j : L(j + 1)[i] = L(j)[i]
    OBVIOUS
  <2>6. L(j + 1)[j + 1] = l
    BY <2>2
  <2>7. L(j) \in Seq(Seq(LineSet)) /\
        Whole(set, Upto(t, n)) \o FlattenSeq(L(j)) = Whole(set, Upto(t, n + j))
    BY <1>7, <2>1
  <2> HIDE DEF L
  <2>8. L(j + 1) = Append(L(j), l)
    <3>1. /\ Append(L(j), l) \in Seq(Seq(LineSet))
          /\ Len(Append(L(j), l)) = j + 1
          /\ \A i \in 1 .. j : Append(L(j), l)[i] = L(j)[i]
          /\ Append(L(j), l)[j + 1] = l
      BY <2>3, <2>4, AppendProperties
    <3>2. \A i \in 1 .. j + 1 : i \in 1 .. j \/ i = j + 1
      OBVIOUS
    <3>3. \A i \in 1 .. j + 1 : L(j + 1)[i] = Append(L(j), l)[i]
      BY <3>1, <3>2, <2>5, <2>6
    <3> QED
      BY <3>1, <3>3, <2>4, SeqEqual
  <2>9. FlattenSeq(L(j + 1)) = FlattenSeq(L(j)) \o l
    BY <2>3, <2>4, <2>8, FlatAppend
  <2>10. FlattenSeq(L(j)) \in Seq(LineSet)
    BY <2>4, FlatType
  <2>11. Whole(set, Upto(t, n)) \in Seq(LineSet)
    <3>1. Upto(t, n + 0) = Upto(t, n) /\ 0 \in Nat
      OBVIOUS
    <3> QED
      BY <3>1, <1>5
  <2>12. (Whole(set, Upto(t, n)) \o FlattenSeq(L(j))) \o l
           = Whole(set, Upto(t, n)) \o (FlattenSeq(L(j)) \o l)
    BY <2>3, <2>10, <2>11, ConcatAssociative, SMTT(30)
  <2>13. Whole(set, Upto(t, n)) \o FlattenSeq(L(j + 1))
           = Whole(set, Upto(t, n + (j + 1)))
    BY <2>3, <2>7, <2>9, <2>12, Zenon
  <2> QED
    BY <2>1, <2>4, <2>13
<1>8. \A j \in Nat : j < k /\ j \in T => j + 1 \in T
  BY <1>7
<1> HIDE DEF T
<1>9. k \in T
  BY <1>6, <1>8, Induction
<1> USE DEF T
<1> HIDE DEF L
<1>10. L(k) \in Seq(Seq(LineSet)) /\
       Whole(set, Upto(t, n)) \o FlattenSeq(L(k)) = Whole(set, Upto(t, n + k))
  BY <1>9
<1>11. FlattenSeq(L(k)) \in Seq(LineSet)
  BY <1>10, FlatType
<1> QED
  BY <1>10, <1>11 DEF RowLines, L

-----------------------------------------------------------------------------
(* The writer.                                                             *)

\* The batches in turn are the ones from nxt on, in a row; the next is missing.
LEMMA InSequenceIs ==
  ASSUME ReplayInv, job.at = "run",
         NEW p, p \subseteq BatchSet, \A b \in p : InPlace(job.total, b)
  PROVE  \E k \in Nat :
           /\ Row(job.total, InSequence(p), nxt, k)
           /\ \A i \in 1 .. k : InSequence(p)[i] \in p
           /\ \A b \in p : b.seq # nxt + k
<1> DEFINE there == {b.seq : b \in p}
           missing == {s \in nxt .. nxt + job.total : s \notin there}
           gap == Min(missing)
<1>1. job.total \in Nat /\ nxt \in Nat
  BY RunIs DEF ReplayInv, ThreadsTyped
<1>2. \A b \in p : b.seq \in Nat /\ b.seq < job.total
  <2> TAKE b \in p
  <2>1. b.seq \in Nat /\ Upto(job.total, b.seq) < job.total
    BY DEF BatchSet, InPlace
  <2> QED
    BY <2>1, <1>1, BatchIs
<1>3. nxt + job.total \in missing
  BY <1>1, <1>2
<1>4. missing \subseteq Nat
  BY <1>1
<1>5. InSequence(p) =
        [i \in 1 .. gap - nxt |-> CHOOSE b \in p : b.seq = nxt + i - 1]
  BY DEF InSequence
<1>6. gap \in missing /\ \A s \in missing : gap <= s
  <2> HIDE DEF missing
  <2> QED
    BY <1>3, <1>4, MinIs
<1>7. PICK k \in Nat : gap = nxt + k
  <2>1. gap \in nxt .. nxt + job.total
    BY <1>6
  <2>2. gap - nxt \in Nat /\ gap = nxt + (gap - nxt)
    BY <2>1, <1>1
  <2> QED
    BY <2>2
<1>8. \A b \in p : b.seq # nxt + k
  BY <1>6, <1>7
<1>9. \A i \in 1 .. k : \E b \in p : b.seq = nxt + i - 1
  <2> SUFFICES ASSUME NEW i \in 1 .. k, \A b \in p : b.seq # nxt + i - 1
               PROVE  FALSE
    OBVIOUS
  <2>1. nxt + k \in nxt .. nxt + job.total
    BY <1>6, <1>7
  <2>2. nxt + i - 1 \in nxt .. nxt + job.total /\ nxt + i - 1 < nxt + k
    BY <2>1, <1>1
  <2>3. nxt + i - 1 \in missing
    BY <2>2
  <2>4. nxt + k <= nxt + i - 1
    BY <2>3, <1>6, <1>7
  <2> QED
    BY <2>2, <2>4, <1>1
<1>10. gap - nxt = k
  BY <1>7, <1>1
<1> HIDE DEF missing, gap
<1>11. PICK q : q = InSequence(p)
  OBVIOUS
<1>12. q = [i \in 1 .. k |-> CHOOSE b \in p : b.seq = nxt + i - 1]
  BY <1>5, <1>10, <1>11
<1>13. \A i \in 1 .. k : q[i] \in p /\ q[i].seq = nxt + i - 1
  BY <1>9, <1>12
<1>14. q \in [1 .. k -> BatchSet]
  BY <1>12, <1>13
<1>15. Row(job.total, q, nxt, k)
  BY <1>13, <1>14 DEF Row
<1> QED
  BY <1>8, <1>11, <1>13, <1>15

\* The writer receives a batch and writes what is in turn.
LEMMA ReceiveSound ==
  ASSUME ReplayInv, Receive PROVE ReplayInv'
<1> USE DEF lv
<1>1. job.at = "run" /\ outs # << >> /\ outs' = Tail(outs)
  BY DEF Receive
<1>2. outs \in Seq(BatchSet) /\ pend \subseteq BatchSet /\ nxt \in Nat
      /\ buf \in Seq(LineSet) /\ out \in [Versions -> Seq(LineSet)]
  BY DEF ReplayInv, ThreadsTyped, FilesTyped
<1>3. PICK m \in Nat : m + 1 = Len(outs)
  <2>1. Len(outs) \in Nat /\ Len(outs) # 0
    BY <1>1, <1>2, LenProperties, EmptySeq
  <2>2. Len(outs) - 1 \in Nat /\ (Len(outs) - 1) + 1 = Len(outs)
    BY <2>1
  <2> QED
    BY <2>2
<1>4. /\ DOMAIN outs = 1 .. m + 1 /\ DOMAIN outs' = 1 .. m
      /\ outs' \in Seq(BatchSet) /\ Len(outs') = m
      /\ \A i \in 1 .. m : outs'[i] = outs[i + 1]
      /\ Head(outs) = outs[1] /\ outs[1] \in BatchSet
      /\ 1 \in 1 .. m + 1 /\ \A i \in 1 .. m : i + 1 \in 1 .. m + 1
  BY <1>1, <1>2, <1>3, HeadTailProperties, LenProperties, ElementOfSeq
<1>5. PICK p : p = pend \cup {Head(outs)}
  OBVIOUS
<1>6. p \subseteq BatchSet /\ \A b \in p : InPlace(job.total, b)
  BY <1>1, <1>2, <1>4, <1>5, RunIs DEF Received
<1>7. PICK k \in Nat : /\ Row(job.total, InSequence(p), nxt, k)
                       /\ \A i \in 1 .. k : InSequence(p)[i] \in p
                       /\ \A b \in p : b.seq # nxt + k
  BY <1>1, <1>6, InSequenceIs
<1>8. PICK q : q = InSequence(p)
  OBVIOUS
<1>9. /\ Row(job.total, q, nxt, k) /\ \A i \in 1 .. k : q[i] \in p
      /\ q \in [1 .. k -> BatchSet] /\ Len(q) = k /\ DOMAIN q = 1 .. k
      /\ \A i \in 1 .. k : q[i].seq = nxt + i - 1
  <2>1. Row(job.total, q, nxt, k) /\ \A i \in 1 .. k : q[i] \in p
    BY <1>7, <1>8
  <2>2. q \in [1 .. k -> BatchSet] /\ \A i \in 1 .. k : q[i].seq = nxt + i - 1
    BY <2>1 DEF Row
  <2> QED
    BY <2>1, <2>2, FunctionIsSeq
<1>10. PICK new : new = RowLines(job.set, q, k)
  OBVIOUS
<1>11. /\ pend' = p \ ToSet(q) /\ nxt' = nxt + k
       /\ \/ buf' = buf \o new /\ UNCHANGED out
          \/ /\ buf' = new
             /\ out' = [out EXCEPT ![job.version] = @ \o buf]
  BY <1>5, <1>8, <1>9, <1>10 DEF Receive, RowLines
<1>12. UNCHANGED <<lv, exists, torn, meta, diff, seen, index, slot, job, rd,
                   wk, batches, cur, bv>>
  BY DEF Receive
<1>13. /\ job.version \in Versions /\ job.set \in FileSets
       /\ job.total \in 0 .. MaxRecords
  BY <1>1, RunIs DEF Jobs
<1>14. /\ new \in Seq(LineSet)
       /\ Whole(job.set, Upto(job.total, nxt)) \o new
            = Whole(job.set, Upto(job.total, nxt + k))
  <2>1. \A t \in 0 .. MaxRecords, set \in FileSets, n, j \in Nat :
          \A s : Row(t, s, n, j) =>
            /\ RowLines(set, s, j) \in Seq(LineSet)
            /\ Whole(set, Upto(t, n)) \o RowLines(set, s, j)
                 = Whole(set, Upto(t, n + j))
    BY RowContinues
  <2>2. Row(job.total, q, nxt, k) /\ nxt \in Nat /\ k \in Nat
    BY <1>2, <1>9
  <2>3. /\ RowLines(job.set, q, k) \in Seq(LineSet)
        /\ Whole(job.set, Upto(job.total, nxt)) \o RowLines(job.set, q, k)
             = Whole(job.set, Upto(job.total, nxt + k))
    BY <2>1, <2>2, <1>13, Zenon
  <2> QED
    BY <2>3, <1>10
<1>15. PICK o : o = out[job.version]
  OBVIOUS
<1>16. o \in Seq(LineSet)
       /\ o \o buf = Whole(job.set, Upto(job.total, nxt))
  BY <1>1, <1>2, <1>13, <1>15, RunIs DEF Written
<1>17. /\ out' \in [Versions -> Seq(LineSet)] /\ buf' \in Seq(LineSet)
       /\ \A v \in Versions : v # job.version => out'[v] = out[v]
       /\ out'[job.version] \o buf' = (o \o buf) \o new
  <2>1. o \o buf \in Seq(LineSet) /\ buf \o new \in Seq(LineSet)
    BY <1>2, <1>14, <1>16, ConcatProperties
  <2>2. (o \o buf) \o new = o \o (buf \o new)
    <3>1. \A x, y, z \in Seq(LineSet) : (x \o y) \o z = x \o (y \o z)
      BY ConcatAssociative
    <3> QED
      BY <3>1, <1>2, <1>14, <1>16, Zenon
  <2>3. CASE buf' = buf \o new /\ UNCHANGED out
    BY <2>1, <2>2, <2>3, <1>2, <1>15
  <2>4. CASE /\ buf' = new /\ out' = [out EXCEPT ![job.version] = @ \o buf]
    <3>1. out' = [out EXCEPT ![job.version] = o \o buf]
      BY <2>4, <1>15
    <3>2. out'[job.version] = o \o buf
      BY <3>1, <1>2, <1>13
    <3> QED
      BY <2>1, <2>4, <3>1, <3>2, <1>2, <1>13, <1>14
  <2> QED
    BY <2>3, <2>4, <1>11
<1>18. Written'
  BY <1>11, <1>12, <1>14, <1>16, <1>17 DEF Written
<1>19. ThreadsTyped'
  <2>1. nxt' \in Nat /\ pend' \subseteq BatchSet
    BY <1>2, <1>6, <1>11
  <2>2. Len(outs') <= 4 * Cardinality(Workers)
    <3>1. Len(outs) <= 4 * Cardinality(Workers) /\ Cardinality(Workers) \in Nat
      BY ReplayAssumption, FS_CardinalityType DEF ReplayInv, ThreadsTyped
    <3> QED
      BY <3>1, <1>3, <1>4
  <2> QED
    BY <2>1, <2>2, <1>4, <1>12, <1>17 DEF ReplayInv, ThreadsTyped
<1>20. Handed' /\ NobodyLeavesEarly'
  BY <1>1, <1>12, RunIs, HandedStays DEF NobodyLeavesEarly, SomePanic
<1>21. Received'
  <2>1. \A i \in 1 .. m : InPlace(job.total, outs'[i])
    BY <1>1, <1>4, RunIs DEF Received
  <2> QED
    BY <2>1, <1>4, <1>6, <1>7, <1>11, <1>12 DEF Received
<1>22. \A j \in Nat : nxt + k <= j /\ Somewhere(j) => Somewhere(j)'
  <2> TAKE j \in Nat
  <2> HAVE nxt + k <= j /\ Somewhere(j)
  <2>1. \A b \in p : b.seq = j => b \in pend'
    <3> SUFFICES ASSUME NEW b \in p, b.seq = j, b \in ToSet(q) PROVE FALSE
      BY <1>11
    <3>1. PICK i \in 1 .. k : b = q[i]
      BY <1>9 DEF ToSet
    <3> QED
      BY <3>1, <1>2, <1>9
  <2>2. CASE \E i \in DOMAIN outs : outs[i].seq = j
    <3>1. PICK i \in 1 .. m + 1 : outs[i].seq = j
      BY <2>2, <1>4
    <3>2. CASE i = 1
      <4>1. outs[1] \in p
        BY <1>4, <1>5
      <4> QED
        BY <4>1, <3>1, <3>2, <2>1 DEF Somewhere
    <3>3. CASE i # 1
      <4>1. i - 1 \in 1 .. m /\ (i - 1) + 1 = i
        BY <3>3
      <4>2. i - 1 \in DOMAIN outs' /\ outs'[i - 1].seq = j
        BY <4>1, <3>1, <1>4
      <4> QED
        BY <4>2 DEF Somewhere
    <3> QED
      BY <3>2, <3>3
  <2>3. CASE \E b \in pend : b.seq = j
    BY <2>1, <2>3, <1>5 DEF Somewhere
  <2>4. CASE \/ \E i \in DOMAIN batches : batches[i].seq = j
             \/ \E w \in Workers : Holds(w) /\ wk[w].seq = j
    BY <2>4, <1>12 DEF Somewhere, Holds
  <2> QED
    BY <2>2, <2>3, <2>4 DEF Somewhere
<1>23. Tracked'
  <2>1. PICK K \in Nat :
          /\ rd.id = Upto(job.total, K)
          /\ SomePanic \/ \A j \in Nat : nxt <= j /\ j < K => Somewhere(j)
    BY <1>1, RunIs DEF Tracked
  <2>2. SomePanic' \/ \A j \in Nat : nxt' <= j /\ j < K => Somewhere(j)'
    <3>1. SomePanic => SomePanic'
      BY <1>12 DEF SomePanic
    <3>2. \A j \in Nat : nxt' <= j => nxt + k <= j /\ nxt <= j
      BY <1>2, <1>11
    <3> QED
      BY <3>1, <3>2, <2>1, <1>22
  <2> QED
    BY <2>1, <2>2, <1>12 DEF Tracked
<1>24. Running'
  BY <1>1, <1>12, <1>18, <1>20, <1>21, <1>23, RunIs DEF Running
<1>25. job' \in Jobs /\ job'.at \in {"run", "failed"}
  BY <1>1, <1>12, RunIs
<1> QED
  BY <1>1, <1>12, <1>17, <1>19, <1>24, <1>25, ThreadsSound

\* The writer fails, and drops what it has.
LEMMA WriteFailsSound ==
  ASSUME ReplayInv, WriteFails PROVE ReplayInv'
<1> USE DEF WriteFails, fv
<1>1. job.at = "run" /\ job \in Jobs
  BY RunIs
<1>2. /\ job' \in Jobs /\ job'.at = "failed" /\ job'.version = job.version
      /\ job'.total = job.total
  BY <1>1 DEF Jobs
<1>3. ThreadsTyped'
  <2>1. /\ << >> \in Seq(BatchSet) /\ << >> \in Seq(LineSet)
        /\ Len(<< >>) = 0 /\ Cardinality(Workers) \in Nat
    BY EmptySeq, ReplayAssumption, FS_CardinalityType
  <2> QED
    BY <2>1 DEF ReplayInv, ThreadsTyped
<1>4. Handed'
  BY <1>1, <1>2, RunIs, HandedStays
<1>5. Running'
  BY <1>1, <1>2, <1>4, RunIs DEF Running
<1>6. /\ out' \in [Versions -> Seq(LineSet)]
      /\ \A v \in Versions : v # job.version => out'[v] = out[v]
  BY DEF ReplayInv, FilesTyped
<1> QED
  BY <1>1, <1>2, <1>3, <1>5, <1>6, ThreadsSound

\* Both channels are closed: with no failure among the threads, every record
\* of the snapshot is in the file or about to be flushed to it.
LEMMA ClosedIsWhole ==
  ASSUME ReplayInv, job.at = "run", Closed, Sound
  PROVE  Upto(job.total, nxt) = job.total
<1>1. /\ Tracked /\ Received /\ NobodyLeavesEarly /\ job.total \in Nat
      /\ nxt \in Nat
  BY RunIs DEF ReplayInv, ThreadsTyped
<1>2. ~SomePanic /\ \A w \in Workers : wk[w] = Gone
  BY DEF Closed, Joined, Ended, Sound, SomePanic
<1>3. batches = << >> /\ outs = << >>
  BY <1>1, <1>2, ReplayAssumption DEF NobodyLeavesEarly, Closed
<1>4. rd.at = "done" /\ rd.id >= job.total
  BY <1>1, <1>2 DEF ReplayInv, ThreadsTyped, Closed, Joined, Sound,
                    NobodyLeavesEarly
<1>5. PICK K \in Nat :
        /\ rd.id = Upto(job.total, K)
        /\ \A k \in Nat : nxt <= k /\ k < K => Somewhere(k)
  BY <1>1, <1>2 DEF Tracked
<1>6. ~Somewhere(nxt)
  BY <1>1, <1>2, <1>3 DEF Somewhere, Received, Holds, Gone
<1>7. K <= nxt
  BY <1>1, <1>5, <1>6
<1>8. Upto(job.total, K) <= Upto(job.total, nxt)
  BY <1>1, <1>7, UptoGrows
<1>9. Upto(job.total, nxt) \in 0 .. job.total
      /\ Upto(job.total, K) \in 0 .. job.total
  BY <1>1, UptoType
<1> QED
  BY <1>1, <1>4, <1>5, <1>8, <1>9

\* The last flush, and the end of the threads.
LEMMA DrainedSound ==
  ASSUME ReplayInv, Drained PROVE ReplayInv'
<1>1. job.at = "run" /\ Closed /\ Joined
  BY DEF Drained, Closed
<1>2. /\ job # NoJob /\ job \in Jobs /\ job.version \in Versions \ {1}
      /\ ~HasMeta(job.version) /\ Written /\ job.set \in FileSets
  BY <1>1, RunIs DEF Jobs
<1>3. buf \in Seq(LineSet) /\ out \in [Versions -> Seq(LineSet)]
  BY DEF ReplayInv, ThreadsTyped, FilesTyped
<1>4. PICK o : o = out[job.version] \o buf
  OBVIOUS
<1>5. o \in Seq(LineSet)
  BY <1>2, <1>3, <1>4, ConcatProperties
<1>6. out' = [out EXCEPT ![job.version] = o] /\ buf' = << >>
      /\ UNCHANGED <<stored, bad, files, exists, torn, meta, diff, seen, index,
                     rd, wk, batches, outs, pend, nxt, bv>>
  BY <1>4 DEF Drained
<1>7. /\ out' \in [Versions -> Seq(LineSet)] /\ out'[job.version] = o
      /\ \A v \in Versions : v # job.version => out'[v] = out[v]
  BY <1>2, <1>3, <1>5, <1>6
<1>8. ThreadsTyped'
  BY <1>6, EmptySeq DEF ReplayInv, ThreadsTyped
<1>9. CompleteIsWhole'
  <2>1. \A v \in Versions \ {1} : HasMeta(v) => out'[v] = out[v]
    BY <1>2, <1>7
  <2> QED
    BY <2>1, <1>6 DEF ReplayInv, CompleteIsWhole, HasMeta
<1>10. 1 \in Versions /\ out'[1] = out[1]
  BY <1>2, <1>7, ReplayAssumption DEF Versions
<1>11. CASE ~Sound
  <2>1. Returned
    BY <1>11 DEF Drained
  <2>2. meta' \in [Versions -> Metas \cup {NoMeta}]
    BY <1>6 DEF ReplayInv, FilesTyped
  <2> QED
    BY <2>1, <2>2, <1>1, <1>2, <1>6, <1>7, <1>8, <1>9, <1>10, ReturnedSound
<1>12. CASE Sound
  <2>1. job' = [job EXCEPT !.at = "compare"] /\ UNCHANGED <<slot, live, cur>>
    BY <1>12 DEF Drained
  <2>2. /\ job' \in Jobs /\ job'.at = "compare" /\ job'.version = job.version
        /\ job'.total = job.total /\ job'.set = job.set /\ job' # NoJob
    BY <2>1, <1>2 DEF Jobs, NoJob
  <2>3. EngineTyped' /\ FilesTyped'
    BY <2>1, <2>2, <1>6, <1>7 DEF ReplayInv, EngineTyped, FilesTyped
  <2>4. TornIsLast' /\ DiffsCounted'
    BY <2>1, <1>6, <1>10, DiffsStay DEF ReplayInv, TornIsLast
  <2>5. JobAlone'
    BY <2>1, <2>2, <1>1, <1>2, <1>6
       DEF ReplayInv, JobAlone, HasMeta, Joined, Ended
  <2>6. o = Whole(job.set, job.total)
    BY <1>1, <1>2, <1>4, <1>12, ClosedIsWhole DEF Written
  <2>7. Running'
    BY <2>2, <2>6, <1>7 DEF Running
  <2> QED
    BY <2>3, <2>4, <2>5, <2>7, <1>8, <1>9 DEF ReplayInv
<1> QED
  BY <1>11, <1>12

-----------------------------------------------------------------------------
(* The comparison.                                                         *)

\* The version compared with is a smaller one, or there is none.
LEMMA PreviousIs ==
  ASSUME NEW version \in Versions
  PROVE  /\ PreviousOf(version) \in 0 .. version - 1
         /\ PreviousOf(version) # 0 => Comparable(PreviousOf(version))
         /\ PreviousOf(version) \in 0 .. MaxVersion
<1> DEFINE c == {v \in 1 .. version - 1 : Comparable(v)}
           r == {version - v : v \in c}
<1>1. version \in Nat /\ version <= MaxVersion /\ MaxVersion \in Nat
  BY ReplayAssumption DEF Versions
<1>2. CASE c = {}
  <2>1. PreviousOf(version) = 0
    BY <1>2 DEF PreviousOf
  <2> HIDE DEF c, r
  <2> QED
    BY <1>1, <2>1 DEF Versions
<1>3. CASE c # {}
  <2>1. r \subseteq Nat /\ r # {}
    BY <1>1, <1>3
  <2>2. \A v \in c : v \in 1 .. version - 1 /\ version - v \in r
    OBVIOUS
  <2>3. \A x \in r : \E v \in c : x = version - v
    OBVIOUS
  <2> HIDE DEF c, r
  <2>4. PICK x \in r : \A y \in r : x <= y
    BY <2>1, MinIs
  <2>5. PICK v \in c : x = version - v
    BY <2>3, <2>4
  <2>6. \A u \in c : u <= v
    <3> TAKE u \in c
    <3>1. version - v <= version - u
      BY <2>2, <2>4, <2>5
    <3> QED
      BY <3>1, <2>2, <1>1
  <2>7. \E w \in c : \A u \in c : u <= w
    BY <2>6
  <2>8. PreviousOf(version) = CHOOSE w \in c : \A u \in c : u <= w
    BY <1>3 DEF PreviousOf, c
  <2>9. PreviousOf(version) \in c
    BY <2>7, <2>8
  <2>10. /\ PreviousOf(version) \in 1 .. version - 1
         /\ Comparable(PreviousOf(version))
    BY <2>9 DEF c
  <2> QED
    BY <2>10, <1>1
<1> QED
  BY <1>2, <1>3

\* Reading a line of either side gives a line.
LEMMA ReadType ==
  ASSUME ReplayInv, NEW c \in Curs
  PROVE  /\ \A p \in Versions : ReadOld(c, p) \in Curs
         /\ job # NoJob => ReadNew(c) \in Curs
<1>1. NoLine \in LineSet
  BY DEF NoLine, LineSet, NoId
<1>2. \A s \in Seq(LineSet) : \A i : LineAt(s, i) \in LineSet
  BY <1>1, LenProperties, ElementOfSeq DEF LineAt
<1>3. ASSUME NEW p \in Versions PROVE ReadableLines(p) \in Seq(LineSet)
  <2>1. out[p] \in Seq(LineSet)
    BY DEF ReplayInv, FilesTyped
  <2>2. CASE p = 1 /\ torn # "no"
    <3>1. /\ Len(out[1]) \in 1 .. stored - 1 /\ stored \in 0 .. MaxRecords
          /\ MaxRecords \in Nat
      BY <2>2, ReplayAssumption DEF ReplayInv, TornIsLast, EngineTyped
    <3>2. Len(out[1]) \in Ids /\ 0 \in Ids
      BY <3>1 DEF Ids
    <3>3. TornLine \in LineSet
      BY <3>2 DEF TornLine, LineSet
    <3> QED
      BY <2>1, <2>2, <3>3, AppendProperties DEF ReadableLines
  <2>3. CASE ~(p = 1 /\ torn # "no")
    BY <2>1, <2>3 DEF ReadableLines
  <2> QED
    BY <2>2, <2>3
<1>4. ASSUME NEW p \in Versions PROVE ReadOld(c, p) \in Curs
  <2>1. PICK s \in Seq(LineSet) : s = ReadableLines(p)
    BY <1>3
  <2>2. PICK l \in LineSet : l = LineAt(s, c.oi + 1)
    BY <1>2
  <2>3. PICK h \in BOOLEAN, k \in Nat :
          h = (c.oi + 1 \in DOMAIN s) /\ k = c.oi + 1
    <3>1. (c.oi + 1 \in DOMAIN s) \in BOOLEAN
      OBVIOUS
    <3>2. c.oi + 1 \in Nat
      BY DEF Curs
    <3> QED
      BY <3>1, <3>2, Zenon
  <2>4. ReadOld(c, p) = [c EXCEPT !.oi = k, !.old = l, !.ho = h]
    BY <2>1, <2>2, <2>3 DEF ReadOld
  <2> QED
    BY <2>4 DEF Curs
<1>5. ASSUME job # NoJob PROVE ReadNew(c) \in Curs
  <2>1. out[job.version] \in Seq(LineSet)
    BY <1>5, JobIs DEF ReplayInv, FilesTyped
  <2>2. PICK s \in Seq(LineSet) : s = out[job.version]
    BY <2>1
  <2>3. PICK l \in LineSet : l = LineAt(s, c.ni + 1)
    BY <1>2
  <2>4. PICK h \in BOOLEAN, k \in Nat :
          h = (c.ni + 1 \in DOMAIN s) /\ k = c.ni + 1
    <3>1. (c.ni + 1 \in DOMAIN s) \in BOOLEAN
      OBVIOUS
    <3>2. c.ni + 1 \in Nat
      BY DEF Curs
    <3> QED
      BY <3>1, <3>2, Zenon
  <2>5. ReadNew(c) = [c EXCEPT !.ni = k, !.new = l, !.hn = h]
    BY <2>2, <2>3, <2>4 DEF ReadNew
  <2> QED
    BY <2>5 DEF Curs
<1> QED
  BY <1>4, <1>5

\* What one turn of the loop finds.
LEMMA StepIs ==
  ASSUME NEW c \in Curs, c.ho \/ c.hn
  PROVE  \/ StepOf(c)[1] \in {"unchanged", "skip"}
         \/ StepOf(c)[1] = "changed" /\ c.old.id # NoId
         \/ StepOf(c)[1] = "only_in_old" /\ c.old.id # NoId
         \/ StepOf(c)[1] = "only_in_new" /\ c.new.id # NoId
<1>1. \A k, x, y : <<k, x, y>>[1] = k
  OBVIOUS
<1>2. CASE c.old.id = c.new.id /\ c.old.id # NoId
  <2>1. \/ StepOf(c) = <<"unchanged", TRUE, TRUE>>
        \/ StepOf(c) = <<"changed", TRUE, TRUE>>
    BY <1>2 DEF StepOf
  <2>2. StepOf(c)[1] = "unchanged" \/ StepOf(c)[1] = "changed"
    BY <2>1, <1>1, Zenon
  <2> QED
    BY <2>2, <1>2
<1>3. CASE /\ ~(c.old.id = c.new.id /\ c.old.id # NoId)
           /\ (c.ho /\ c.old.id = NoId) \/ (c.hn /\ c.new.id = NoId)
  <2>1. StepOf(c) = <<"skip", c.ho /\ c.old.id = NoId,
                      c.hn /\ c.new.id = NoId>>
    BY <1>3, Zenon DEF StepOf
  <2> QED
    BY <2>1, <1>1
<1>4. CASE /\ ~(c.old.id = c.new.id /\ c.old.id # NoId)
           /\ ~(c.ho /\ c.old.id = NoId) /\ ~(c.hn /\ c.new.id = NoId)
  <2>1. CASE c.old.id # NoId /\ (c.new.id = NoId \/ c.old.id < c.new.id)
    <3>1. StepOf(c) = <<"only_in_old", TRUE, FALSE>>
      BY <1>4, <2>1 DEF StepOf
    <3> QED
      BY <3>1, <2>1, <1>1
  <2>2. CASE ~(c.old.id # NoId /\ (c.new.id = NoId \/ c.old.id < c.new.id))
    <3>1. StepOf(c) = <<"only_in_new", FALSE, TRUE>>
      BY <1>4, <2>2 DEF StepOf
    <3>2. c.new.id # NoId
      BY <1>4, <2>2
    <3> QED
      BY <3>1, <3>2, <1>1
  <2> QED
    BY <2>1, <2>2
<1> QED
  BY <1>2, <1>3, <1>4

\* A stage after the threads that only touches the diff of its version.
LEMMA StageSound ==
  ASSUME ReplayInv, job.at \in {"compare", "diff"},
         job' \in Jobs, job'.at \in {"diff", "meta"},
         job'.at = "diff" => job'.prev \in Versions,
         job'.version = job.version, job'.total = job.total,
         job'.set = job.set,
         UNCHANGED <<lv, exists, out, torn, meta, index, slot, tv>>,
         cur' \in Curs, diff' \in [Versions -> Seq(Entries)],
         seen' \in [Versions -> Int],
         \A v \in Versions : v # job.version =>
           diff'[v] = diff[v] /\ seen'[v] = seen[v],
         seen'[job.version] \in NoDiff .. Len(diff'[job.version]),
         index[job.version] \in NoIndex .. Len(diff'[job.version])
  PROVE  ReplayInv'
<1> USE DEF lv, tv
<1>1. /\ job # NoJob /\ job' # NoJob /\ job.version \in Versions
      /\ ~HasMeta(job.version) /\ Joined /\ job.version \in exists
  <2>1. job # NoJob /\ job' # NoJob
    BY DEF NoJob
  <2> QED
    BY <2>1, JobIs DEF ReplayInv, JobAlone
<1>2. EngineTyped' /\ FilesTyped' /\ ThreadsTyped'
  BY ThreadsTypedStays DEF ReplayInv, EngineTyped, FilesTyped
<1>3. TornIsLast' /\ CompleteIsWhole'
  BY TornStays, CompleteStaysWhole DEF ReplayInv
<1>4. DiffsCounted'
  BY <1>1 DEF ReplayInv, DiffsCounted
<1>5. JobAlone'
  BY <1>1 DEF ReplayInv, JobAlone, HasMeta, Joined, Ended
<1>6. Running'
  BY DEF ReplayInv, Running
<1> QED
  BY <1>2, <1>3, <1>4, <1>5, <1>6 DEF ReplayInv

\* The comparison begins.
LEMMA CompareSound ==
  ASSUME ReplayInv, Compare PROVE ReplayInv'
<1>1. job.at = "compare" /\ job # NoJob
  BY DEF Compare, NoJob
<1>2. /\ job \in Jobs /\ job.version \in Versions
      /\ seen[job.version] = NoDiff /\ index[job.version] = NoIndex
  BY <1>1, JobIs DEF ReplayInv, JobAlone
<1>3. /\ diff \in [Versions -> Seq(Entries)] /\ seen \in [Versions -> Int]
      /\ cur \in Curs /\ \A v \in Versions : Len(diff[v]) \in Nat
  BY LenProperties DEF ReplayInv, FilesTyped
<1>4. PICK p : p = PreviousOf(job.version)
  OBVIOUS
<1>5. p \in 0 .. MaxVersion /\ p \in 0 .. job.version - 1
  BY <1>2, <1>4, PreviousIs
<1>6. UNCHANGED <<lv, exists, out, torn, meta, index, slot, tv, bv>>
  BY DEF Compare
<1>7. CASE p = 0
  <2>1. job' = [job EXCEPT !.at = "meta"] /\ UNCHANGED <<cur, diff, seen>>
    BY <1>4, <1>7 DEF Compare
  <2>2. /\ job' \in Jobs /\ job'.at = "meta" /\ job'.version = job.version
        /\ job'.total = job.total /\ job'.set = job.set
    BY <2>1, <1>2 DEF Jobs
  <2>3. /\ seen'[job.version] \in NoDiff .. Len(diff'[job.version])
        /\ index[job.version] \in NoIndex .. Len(diff'[job.version])
    BY <2>1, <1>2, <1>3 DEF NoDiff, NoIndex
  <2> QED
    BY <2>1, <2>2, <2>3, <1>1, <1>3, <1>6, StageSound
<1>8. CASE p # 0
  <2>1. /\ job' = [job EXCEPT !.at = "diff", !.prev = p,
                              !.torn = (p = 1 /\ torn # "no")]
        /\ diff' = [diff EXCEPT ![job.version] = << >>]
        /\ seen' = [seen EXCEPT ![job.version] = 0]
        /\ cur' = ReadNew(ReadOld(NoCur, p))
    BY <1>4, <1>8 DEF Compare
  <2>2. p \in Versions
    BY <1>5, <1>8, ReplayAssumption DEF Versions
  <2>3. /\ job' \in Jobs /\ job'.at = "diff" /\ job'.version = job.version
        /\ job'.total = job.total /\ job'.set = job.set /\ job'.prev = p
    BY <2>1, <1>2, <1>5 DEF Jobs
  <2>4. cur' \in Curs
    BY <2>1, <2>2, <1>1, NoCurType, ReadType
  <2>5. /\ diff' \in [Versions -> Seq(Entries)] /\ diff'[job.version] = << >>
        /\ seen' \in [Versions -> Int] /\ seen'[job.version] = 0
        /\ \A v \in Versions : v # job.version =>
             diff'[v] = diff[v] /\ seen'[v] = seen[v]
    BY <2>1, <1>2, <1>3, EmptySeq
  <2>6. /\ seen'[job.version] \in NoDiff .. Len(diff'[job.version])
        /\ index[job.version] \in NoIndex .. Len(diff'[job.version])
    BY <2>5, <1>2, EmptySeq DEF NoDiff, NoIndex
  <2> QED
    BY <2>2, <2>3, <2>4, <2>5, <2>6, <1>1, <1>6, StageSound
<1> QED
  BY <1>7, <1>8

\* One turn of the comparison.
LEMMA DiffStepSound ==
  ASSUME ReplayInv, DiffStep PROVE ReplayInv'
<1>1. job.at = "diff" /\ job # NoJob /\ (cur.ho \/ cur.hn)
  BY DEF DiffStep, NoJob
<1>2. /\ job \in Jobs /\ job.version \in Versions /\ job.prev \in Versions
      /\ seen[job.version] \in NoDiff .. Len(diff[job.version])
      /\ index[job.version] \in NoIndex .. Len(diff[job.version])
  BY <1>1, JobIs DEF ReplayInv, JobAlone, DiffsCounted
<1>3. /\ diff \in [Versions -> Seq(Entries)] /\ seen \in [Versions -> Int]
      /\ cur \in Curs /\ \A v \in Versions : Len(diff[v]) \in Nat
  BY LenProperties DEF ReplayInv, FilesTyped
<1>4. UNCHANGED <<lv, exists, out, torn, meta, index, slot, job, tv, bv>>
  BY DEF DiffStep
<1>5. cur' \in Curs
  <2>1. ReadOld(cur, job.prev) \in Curs
    BY <1>2, <1>3, ReadType
  <2>2. \A c \in Curs : ReadNew(c) \in Curs
    BY <1>1, ReadType
  <2> QED
    BY <2>1, <2>2, <1>3 DEF DiffStep
<1>6. CASE StepOf(cur)[1] \in {"unchanged", "skip"}
  <2>1. UNCHANGED <<diff, seen>>
    BY <1>6 DEF DiffStep
  <2> QED
    BY <2>1, <1>1, <1>2, <1>3, <1>4, <1>5, StageSound
<1>7. CASE StepOf(cur)[1] \notin {"unchanged", "skip"}
  <2>1. PICK e : e = [id |-> IF StepOf(cur)[1] = "only_in_new"
                             THEN cur.new.id ELSE cur.old.id,
                      kind |-> StepOf(cur)[1]]
    OBVIOUS
  <2>2. e \in Entries
    <3>1. cur.old.id \in Ids \cup {NoId} /\ cur.new.id \in Ids \cup {NoId}
      BY <1>3 DEF Curs, LineSet
    <3>2. \/ StepOf(cur)[1] = "changed" /\ cur.old.id # NoId
          \/ StepOf(cur)[1] = "only_in_old" /\ cur.old.id # NoId
          \/ StepOf(cur)[1] = "only_in_new" /\ cur.new.id # NoId
      BY <1>1, <1>3, <1>7, StepIs
    <3> QED
      BY <2>1, <3>1, <3>2 DEF Entries, Kinds
  <2>3. /\ diff' = [diff EXCEPT ![job.version] = Append(@, e)]
        /\ \E n \in {seen[job.version], Len(diff[job.version])} :
             seen' = [seen EXCEPT ![job.version] = n]
    BY <2>1, <1>7 DEF DiffStep
  <2>4. PICK n \in {seen[job.version], Len(diff[job.version])} :
          seen' = [seen EXCEPT ![job.version] = n]
    BY <2>3
  <2>5. PICK d : d = diff[job.version]
    OBVIOUS
  <2>6. /\ d \in Seq(Entries) /\ Append(d, e) \in Seq(Entries)
        /\ Len(Append(d, e)) = Len(d) + 1 /\ Len(d) \in Nat
    BY <2>2, <2>5, <1>2, <1>3, AppendProperties
  <2>7. diff' = [diff EXCEPT ![job.version] = Append(d, e)]
    BY <2>3, <2>5
  <2>8. /\ diff' \in [Versions -> Seq(Entries)]
        /\ diff'[job.version] = Append(d, e)
        /\ \A v \in Versions : v # job.version => diff'[v] = diff[v]
    BY <2>6, <2>7, <1>2, <1>3
  <2>9. n \in NoDiff .. Len(d) /\ n \in Int
    BY <2>4, <2>5, <2>6, <1>2 DEF NoDiff
  <2>10. /\ seen' \in [Versions -> Int] /\ seen'[job.version] = n
         /\ \A v \in Versions : v # job.version => seen'[v] = seen[v]
    BY <2>4, <2>9, <1>2, <1>3
  <2>11. /\ seen'[job.version] \in NoDiff .. Len(diff'[job.version])
         /\ index[job.version] \in NoIndex .. Len(diff'[job.version])
    BY <2>5, <2>6, <2>8, <2>9, <2>10, <1>2 DEF NoDiff, NoIndex
  <2> QED
    BY <2>8, <2>10, <2>11, <1>1, <1>2, <1>4, <1>5, StageSound
<1> QED
  BY <1>6, <1>7

\* The end of the comparison.
LEMMA DiffEndSound ==
  ASSUME ReplayInv, DiffEnd PROVE ReplayInv'
<1>1. job.at = "diff" /\ job # NoJob
  BY DEF DiffEnd, NoJob
<1>2. /\ job \in Jobs /\ job.version \in Versions
      /\ index[job.version] \in NoIndex .. Len(diff[job.version])
  BY <1>1, JobIs DEF ReplayInv, DiffsCounted
<1>3. /\ diff \in [Versions -> Seq(Entries)] /\ seen \in [Versions -> Int]
      /\ cur \in Curs /\ \A v \in Versions : Len(diff[v]) \in Nat
  BY LenProperties DEF ReplayInv, FilesTyped
<1>4. /\ UNCHANGED <<lv, exists, out, torn, meta, diff, index, slot, tv, cur>>
      /\ seen' = [seen EXCEPT ![job.version] = Len(diff[job.version])]
      /\ job' = [job EXCEPT !.at = "meta"]
  BY DEF DiffEnd
<1>5. /\ job' \in Jobs /\ job'.at = "meta" /\ job'.version = job.version
      /\ job'.total = job.total /\ job'.set = job.set
  BY <1>2, <1>4 DEF Jobs
<1>6. /\ seen' \in [Versions -> Int]
      /\ seen'[job.version] = Len(diff[job.version])
      /\ \A v \in Versions : v # job.version => seen'[v] = seen[v]
  BY <1>2, <1>3, <1>4
<1>7. seen'[job.version] \in NoDiff .. Len(diff'[job.version])
  BY <1>2, <1>3, <1>4, <1>6 DEF NoDiff
<1> QED
  BY <1>1, <1>2, <1>3, <1>4, <1>5, <1>6, <1>7, StageSound

\* The meta file completes the version, which is whole.
LEMMA WriteMetaSound ==
  ASSUME ReplayInv, WriteMeta PROVE ReplayInv'
<1>1. job.at = "meta" /\ job # NoJob
  BY DEF WriteMeta, NoJob
<1>2. /\ job \in Jobs /\ job.version \in Versions \ {1} /\ Joined
      /\ out[job.version] = Whole(job.set, job.total)
  BY <1>1, JobIs DEF ReplayInv, JobAlone, Running
<1>3. PICK m : m = [complete |-> TRUE, events |-> job.total, set |-> job.set,
                    prev |-> job.prev, torn |-> job.torn,
                    read |-> IF job.prev = 0 THEN 0
                             ELSE cur.oi - 1 - (IF job.torn THEN 1 ELSE 0)]
  OBVIOUS
<1>4. m \in Metas /\ m.events = job.total /\ m.set = job.set
  <2>1. cur.oi \in Nat /\ job.total \in Nat /\ job.prev \in 0 .. MaxVersion
        /\ job.torn \in BOOLEAN /\ job.set \in FileSets
    BY <1>1, <1>2, JobIs DEF ReplayInv, FilesTyped, Curs, Jobs
  <2>2. (IF job.prev = 0 THEN 0
         ELSE cur.oi - 1 - (IF job.torn THEN 1 ELSE 0)) \in Int
    BY <2>1
  <2> QED
    BY <2>1, <2>2, <1>3 DEF Metas
<1>5. meta' = [meta EXCEPT ![job.version] = m] /\ Returned
      /\ UNCHANGED <<stored, bad, files, exists, out, torn, diff, seen, index,
                     tv>>
  BY <1>3 DEF WriteMeta
<1>6. /\ meta' \in [Versions -> Metas \cup {NoMeta}] /\ meta'[job.version] = m
      /\ \A v \in Versions : v # job.version => meta'[v] = meta[v]
  BY <1>2, <1>4, <1>5 DEF ReplayInv, FilesTyped
<1>7. CompleteIsWhole'
  <2> SUFFICES ASSUME NEW v \in Versions \ {1}, meta'[v] # NoMeta
               PROVE  out'[v] = Whole(meta'[v].set, meta'[v].events)
    BY DEF CompleteIsWhole, HasMeta, Whole
  <2>1. CASE v = job.version
    BY <2>1, <1>2, <1>4, <1>5, <1>6
  <2>2. CASE v # job.version
    <3>1. meta'[v] = meta[v] /\ out'[v] = out[v]
      BY <2>2, <1>5, <1>6
    <3> QED
      BY <3>1 DEF ReplayInv, CompleteIsWhole, HasMeta, Whole
  <2> QED
    BY <2>1, <2>2
<1>8. ThreadsTyped' /\ out' \in [Versions -> Seq(LineSet)]
  BY <1>5, ThreadsTypedStays DEF ReplayInv, FilesTyped
<1> QED
  BY <1>1, <1>2, <1>5, <1>6, <1>7, <1>8, ReturnedSound DEF tv

-----------------------------------------------------------------------------
(* The theorems.                                                           *)

\* The first state.
LEMMA InitSound == Init => ReplayInv
<1> SUFFICES ASSUME Init PROVE ReplayInv
  OBVIOUS
<1> USE DEF Init
<1>1. EngineTyped
  BY ReplayAssumption DEF EngineTyped
<1>2. FilesTyped
  BY EmptySeq, NoCurType DEF FilesTyped, NoDiff, NoIndex
<1>3. ThreadsTyped
  <2>1. /\ << >> \in Seq(BatchSet) /\ << >> \in Seq(LineSet)
        /\ Len(<< >>) = 0 /\ Cardinality(Workers) \in Nat
    BY EmptySeq, ReplayAssumption, FS_CardinalityType
  <2> QED
    BY <2>1 DEF ThreadsTyped
<1>4. TornIsLast /\ DiffsCounted /\ CompleteIsWhole
  <2>1. \A v \in Versions : Len(diff[v]) = 0
    BY EmptySeq
  <2> QED
    BY <2>1 DEF TornIsLast, DiffsCounted, CompleteIsWhole, HasMeta, NoDiff,
                NoIndex
<1>5. JobAlone /\ Running
  BY DEF JobAlone, Running, NoJob, Joined, Ended
<1> QED
  BY <1>1, <1>2, <1>3, <1>4, <1>5 DEF ReplayInv

\* A step that changes nothing.
LEMMA StutterSound ==
  ASSUME ReplayInv, UNCHANGED vars PROVE ReplayInv'
<1> USE DEF vars, lv, fv, tv
<1>1. EngineTyped' /\ FilesTyped' /\ ThreadsTyped'
  BY EngineTypedStays, FilesTypedStays, ThreadsTypedStays DEF ReplayInv
<1>2. TornIsLast' /\ DiffsCounted' /\ JobAlone'
  BY TornStays, DiffsStay, JobStays DEF ReplayInv
<1>3. CompleteIsWhole' /\ Running'
  BY CompleteStaysWhole, RunningStays DEF ReplayInv
<1> QED
  BY <1>1, <1>2, <1>3 DEF ReplayInv

\* The invariant of a replay.
LEMMA ReplayInvariant == Spec => []ReplayInv
<1>1. ReplayInv /\ [Next]_vars => ReplayInv'
  <2> SUFFICES ASSUME ReplayInv, [Next]_vars PROVE ReplayInv'
    OBVIOUS
  <2>1. CASE Open
    BY <2>1, OpenSound
  <2>2. CASE Store
    BY <2>2, StoreSound
  <2>3. CASE EmitLive
    BY <2>3, EmitLiveSound
  <2>4. CASE Reload
    BY <2>4, ReloadSound
  <2>5. CASE Kill
    BY <2>5, KillSound
  <2>6. CASE StartReplay \/ CliReplay
    BY <2>6, StartReplaySound, CliReplaySound
  <2>7. CASE StageFails \/ WriteFails
    BY <2>7, StageFailsSound, WriteFailsSound
  <2>8. CASE ReaderStep
    BY <2>8, ReaderStepSound
  <2>9. CASE Create \/ FailedReturns
    BY <2>9, CreateSound, FailedReturnsSound
  <2>10. CASE Receive
    BY <2>10, ReceiveSound
  <2>11. CASE Drained
    BY <2>11, DrainedSound
  <2>12. CASE Compare \/ DiffStep \/ DiffEnd
    BY <2>12, CompareSound, DiffStepSound, DiffEndSound
  <2>13. CASE WriteMeta
    BY <2>13, WriteMetaSound
  <2>14. CASE \E w \in Workers : WorkerStep(w) \/ Panic(w)
    BY <2>14, WorkerStepSound, PanicSound
  <2>15. CASE \E v \in Versions : IndexDiff(v)
    BY <2>15, IndexDiffSound
  <2>16. CASE UNCHANGED vars
    BY <2>16, StutterSound
  <2> QED
    BY <2>1, <2>2, <2>3, <2>4, <2>5, <2>6, <2>7, <2>8, <2>9, <2>10, <2>11,
       <2>12, <2>13, <2>14, <2>15, <2>16 DEF Next, Main
<1> QED
  BY InitSound, <1>1, PTL DEF Spec

\* A version that has its meta file holds one line for every record of its
\* snapshot, in order, parsed with the files its meta names, whatever threads
\* fail and whenever the process is killed (replay.rs, run); the channels keep
\* to their capacities and no two workers hold the same batch.
THEOREM ReplayIsSound == Spec => []ReplaySound
<1>1. ReplayInv => ReplaySound
  <2> SUFFICES ASSUME ReplayInv PROVE ReplaySound
    OBVIOUS
  <2>1. \A v, w \in Workers : v # w /\ Holds(v) => wk[v] # wk[w]
    <3>1. CASE Joined
      BY <3>1 DEF Joined, Ended, Holds, Gone, Panicked
    <3>2. CASE ~Joined
      <4>1. job.at \in {"run", "failed"}
        BY <3>2, WorkingJob
      <4> QED
        BY <4>1, RunIs DEF Handed
    <3> QED
      BY <3>1, <3>2
  <2>2. \A v \in Versions :
          /\ \A i \in DOMAIN out[v] : out[v][i] \in LineSet
          /\ \A i \in DOMAIN diff[v] : diff[v][i] \in [id : Ids, kind : Kinds]
    <3> TAKE v \in Versions
    <3>1. out[v] \in Seq(LineSet) /\ diff[v] \in Seq(Entries)
      BY DEF ReplayInv, FilesTyped
    <3> QED
      BY <3>1, LenProperties, ElementOfSeq DEF Entries
  <2>3. cur.old \in LineSet /\ cur.new \in LineSet
    BY DEF ReplayInv, FilesTyped, Curs
  <2> QED
    BY <2>1, <2>2, <2>3 DEF ReplayInv, EngineTyped, FilesTyped, ThreadsTyped,
         DiffsCounted, ReplaySound, TypeOK
<1> QED
  BY <1>1, ReplayInvariant, PTL

\* No step touches the files of a version that is complete.
LEMMA CompleteKept ==
  ASSUME ReplayInv, Next, NEW v \in Versions \ {1}, HasMeta(v)
  PROVE  UNCHANGED <<out[v], meta[v], diff[v], seen[v]>>
<1>1. job # NoJob => job.version # v
  BY JobIs
<1>2. v # 1 /\ v \in Versions
  OBVIOUS
<1>3. /\ out \in [Versions -> Seq(LineSet)]
      /\ meta \in [Versions -> Metas \cup {NoMeta}]
      /\ diff \in [Versions -> Seq(Entries)] /\ seen \in [Versions -> Int]
  BY DEF ReplayInv, FilesTyped
<1>4. CASE Open \/ Store \/ Reload \/ Kill \/ StartReplay \/ CliReplay
           \/ StageFails \/ WriteFails \/ ReaderStep \/ FailedReturns
  BY <1>4 DEF Open, Store, Reload, Kill, StartReplay, CliReplay,
              StageFails, WriteFails, ReaderStep, FailedReturns, fv
<1>5. CASE \/ \E w \in Workers : WorkerStep(w) \/ Panic(w)
           \/ \E u \in Versions : IndexDiff(u)
  BY <1>5 DEF WorkerStep, Panic, IndexDiff, fv
<1>6. CASE EmitLive
  BY <1>2, <1>3, <1>6 DEF EmitLive
<1>7. CASE Create \/ Receive \/ Drained
  <2>1. job.version # v
    BY <1>1, <1>7 DEF Create, Receive, Drained, NoJob
  <2>2. UNCHANGED <<meta, diff, seen>>
    BY <1>7 DEF Create, Receive, Drained
  <2>3. out' = out \/ \E s : out' = [out EXCEPT ![job.version] = s]
    BY <1>7 DEF Create, Receive, Drained
  <2> QED
    BY <2>1, <2>2, <2>3, <1>2, <1>3
<1>8. CASE Compare \/ DiffStep \/ DiffEnd
  <2>1. job.version # v
    BY <1>1, <1>8 DEF Compare, DiffStep, DiffEnd, NoJob
  <2>2. UNCHANGED <<out, meta>>
    BY <1>8 DEF Compare, DiffStep, DiffEnd
  <2>3. /\ diff' = diff \/ \E s : diff' = [diff EXCEPT ![job.version] = s]
        /\ seen' = seen \/ \E n : seen' = [seen EXCEPT ![job.version] = n]
    BY <1>8 DEF Compare, DiffStep, DiffEnd
  <2> QED
    BY <2>1, <2>2, <2>3, <1>2, <1>3
<1>9. CASE WriteMeta
  <2>1. job.version # v
    BY <1>1, <1>9 DEF WriteMeta, NoJob
  <2>2. /\ UNCHANGED <<out, diff, seen>>
        /\ \E m : meta' = [meta EXCEPT ![job.version] = m]
    BY <1>9 DEF WriteMeta
  <2> QED
    BY <2>1, <2>2, <1>2, <1>3
<1> QED
  BY <1>4, <1>5, <1>6, <1>7, <1>8, <1>9 DEF Next, Main

\* No step of a replay, failed or not, and no restart touches the files of a
\* version that is complete (replay.rs, Versions::next).
THEOREM CompleteVersionsStay == Spec => CompleteStays
<1>1. ReplayInv /\ [Next]_vars =>
        [\A v \in Versions \ {1} : HasMeta(v) =>
           UNCHANGED <<out[v], meta[v], diff[v], seen[v]>>]_vars
  BY CompleteKept
<1> QED
  BY <1>1, ReplayInvariant, PTL DEF Spec, CompleteStays
-----------------------------------------------------------------------------
(* The invariant of the comparison.                                        *)

\* The lines of s are those of the records from 0 on, none left out.
Numbered(s) == \A i \in DOMAIN s : s[i].id = i - 1

\* p is the live output or a complete version.
Older(p) == p \in Versions /\ (p = 1 \/ HasMeta(p))

\* What there is to say of each id, of the first a lines of s and b of t.
Found(s, t, a, b) ==
  [id \in Nat |->
     IF id < a /\ id < b
     THEN IF s[id + 1] = t[id + 1] THEN "unchanged" ELSE "changed"
     ELSE IF id < a THEN "only_in_old"
     ELSE IF id < b THEN "only_in_new" ELSE "unchanged"]

\* The entries that say it.
Listed(f) ==
  {[id |-> i, kind |-> f[i]] : i \in {j \in Nat : f[j] # "unchanged"}}

Told(d, f) == Ascending(d) /\ ToSet(d) = Listed(f)

\* The cursor's sides are at their lines, or past the last.
OldSide(c, s) ==
  /\ c.oi >= 1
  /\ c.ho => c.oi \in 1 .. Len(s) /\ c.old = s[c.oi]
  /\ ~c.ho => c.old = NoLine /\ c.oi <= Len(s) + 1

NewSide(c, t) ==
  /\ c.ni >= 1
  /\ c.hn => c.ni \in 1 .. Len(t) /\ c.new = t[c.ni]
  /\ ~c.hn => c.new = NoLine /\ c.ni = Len(t) + 1

\* A side that still has a line is not behind the other.
InStep(c) == (c.ho => c.ni <= c.oi) /\ (c.hn => c.oi <= c.ni)

\* What the comparison of s with t has found so far is in the diff.
ToldSoFar(s, t) ==
  /\ OldSide(cur, s) /\ NewSide(cur, t) /\ InStep(cur)
  /\ Told(diff[job.version], Found(s, t, cur.oi - 1, cur.ni - 1))
  /\ job.at = "meta" => /\ ~cur.ho /\ ~cur.hn
                        /\ seen[job.version] = Len(diff[job.version])

Comparing ==
  /\ job.at \in {"create", "run", "failed", "compare"} => job.prev = 0
  /\ job.at = "diff" \/ (job.at = "meta" /\ job.prev # 0) =>
       /\ Older(job.prev)
       /\ ~job.torn => /\ job.prev = 1 => torn = "no"
                       /\ ToldSoFar(out[job.prev], out[job.version])

\* The diff of v says what the first lines of s have and those of v have not,
\* and the other way round.
Faithful(v, s) ==
  /\ meta[v].read \in 0 .. Len(s) /\ seen[v] = Len(diff[v])
  /\ Told(diff[v], Found(s, out[v], meta[v].read, Len(out[v])))

AllFaithful ==
  \A v \in Versions \ {1} : HasPrevious(v) =>
    /\ Older(meta[v].prev)
    /\ ~meta[v].torn => Faithful(v, out[meta[v].prev])

DiffInv == Numbered(out[1]) /\ Comparing /\ AllFaithful
-----------------------------------------------------------------------------
(* What the entries of a comparison say.                                   *)

\* One more id that is not the same adds its entry.
LEMMA ListedMore ==
  ASSUME NEW f, NEW g, NEW k \in Nat, f[k] = "unchanged",
         \A i \in Nat : i # k => g[i] = f[i]
  PROVE  /\ g[k] = "unchanged" => Listed(g) = Listed(f)
         /\ g[k] # "unchanged" =>
              Listed(g) = Listed(f) \cup {[id |-> k, kind |-> g[k]]}
<1> DEFINE e(h, i) == [id |-> i, kind |-> h[i]]
           there(h) == {j \in Nat : h[j] # "unchanged"}
<1>1. \A i \in there(f) : i # k /\ i \in there(g) /\ e(g, i) = e(f, i)
  OBVIOUS
<1>2. \A i \in there(g) : i # k => i \in there(f) /\ e(g, i) = e(f, i)
  OBVIOUS
<1>3. g[k] # "unchanged" => k \in there(g)
  OBVIOUS
<1>4. g[k] = "unchanged" => k \notin there(g)
  OBVIOUS
<1>5. /\ Listed(f) = {e(f, i) : i \in there(f)}
      /\ Listed(g) = {e(g, i) : i \in there(g)}
  BY DEF Listed
<1>6. [id |-> k, kind |-> g[k]] = e(g, k)
  OBVIOUS
<1> HIDE DEF e, there
<1>7. CASE g[k] = "unchanged"
  BY <1>1, <1>2, <1>4, <1>5, <1>7
<1>8. CASE g[k] # "unchanged"
  BY <1>1, <1>2, <1>3, <1>5, <1>6, <1>8
<1> QED
  BY <1>7, <1>8

\* An entry of a higher id goes to the end.
LEMMA AscendingMore ==
  ASSUME NEW d \in Seq(Entries), Ascending(d), NEW e \in Entries,
         \A x \in ToSet(d) : x.id < e.id
  PROVE  /\ Ascending(Append(d, e))
         /\ ToSet(Append(d, e)) = ToSet(d) \cup {e}
<1>1. PICK m \in Nat : m = Len(d)
  BY LenProperties
<1>2. PICK q \in Seq(Entries) : q = Append(d, e)
  BY AppendProperties
<1>3. /\ DOMAIN d = 1 .. m /\ DOMAIN q = 1 .. m + 1
      /\ q[m + 1] = e /\ \A i \in 1 .. m : q[i] = d[i]
  BY <1>1, <1>2, AppendProperties, LenProperties
<1>4. \A i \in 1 .. m + 1 : i \in 1 .. m \/ i = m + 1
  OBVIOUS
<1>5. ToSet(d) = {d[i] : i \in 1 .. m} /\ ToSet(q) = {q[i] : i \in 1 .. m + 1}
  BY <1>3 DEF ToSet
<1>6. 1 .. m \subseteq 1 .. m + 1 /\ m + 1 \in 1 .. m + 1
  OBVIOUS
<1>7. ToSet(q) = ToSet(d) \cup {e}
  BY <1>3, <1>4, <1>5, <1>6
<1>8. Ascending(q)
  <2> SUFFICES ASSUME NEW i \in 1 .. m + 1, NEW j \in 1 .. m + 1, i < j
               PROVE  q[i].id < q[j].id
    BY <1>3 DEF Ascending
  <2>1. i \in 1 .. m
    OBVIOUS
  <2>2. CASE j \in 1 .. m
    BY <1>3, <2>1, <2>2 DEF Ascending
  <2>3. CASE j = m + 1
    <3>1. q[i] \in ToSet(d) /\ q[j] = e
      BY <1>3, <1>5, <2>1, <2>3
    <3> QED
      BY <3>1
  <2> QED
    BY <1>4, <2>2, <2>3
<1> QED
  BY <1>2, <1>7, <1>8

\* The entry of the next id, when there is anything to say of it.
LEMMA ToldMore ==
  ASSUME NEW d \in Seq(Entries), NEW f, Told(d, f), NEW g, NEW k \in Ids,
         \A i \in Nat : i >= k => f[i] = "unchanged",
         \A i \in Nat : i # k => g[i] = f[i]
  PROVE  /\ g[k] = "unchanged" => Told(d, g)
         /\ g[k] \in Kinds =>
              Told(Append(d, [id |-> k, kind |-> g[k]]), g)
<1>1. k \in Nat /\ f[k] = "unchanged"
  BY ReplayAssumption DEF Ids
<1>2. /\ g[k] = "unchanged" => Listed(g) = Listed(f)
      /\ g[k] # "unchanged" =>
           Listed(g) = Listed(f) \cup {[id |-> k, kind |-> g[k]]}
  BY <1>1, ListedMore
<1>3. g[k] = "unchanged" => Told(d, g)
  BY <1>2 DEF Told
<1>4. ASSUME g[k] \in Kinds
      PROVE  Told(Append(d, [id |-> k, kind |-> g[k]]), g)
  <2>1. g[k] # "unchanged"
    BY <1>4 DEF Kinds
  <2>2. PICK e \in Entries : e = [id |-> k, kind |-> g[k]]
    BY <1>4 DEF Entries
  <2>3. \A x \in Listed(f) : x.id < k
    <3> SUFFICES ASSUME NEW i \in Nat, f[i] # "unchanged" PROVE i < k
      BY DEF Listed
    <3> QED
      BY <1>1
  <2>4. \A x \in ToSet(d) : x.id < e.id
    BY <2>2, <2>3 DEF Told
  <2>5. Ascending(d)
    BY DEF Told
  <2>6. /\ Ascending(Append(d, e))
        /\ ToSet(Append(d, e)) = Listed(f) \cup {e}
    BY <2>4, <2>5, AscendingMore DEF Told
  <2> QED
    BY <1>2, <2>1, <2>2, <2>6 DEF Told
<1> QED
  BY <1>3, <1>4

\* Nothing is said of ids that neither side has reached.
LEMMA FoundNone ==
  ASSUME NEW s, NEW t, NEW a \in Nat, NEW b \in Nat, NEW i \in Nat,
         i >= a, i >= b
  PROVE  Found(s, t, a, b)[i] = "unchanged"
BY DEF Found

\* A line of the older side more says something of its id only.
LEMMA FoundOlder ==
  ASSUME NEW s, NEW t, NEW a \in Nat, NEW b \in Nat, NEW i \in Nat, i # a
  PROVE  Found(s, t, a + 1, b)[i] = Found(s, t, a, b)[i]
<1>1. i < a + 1 <=> i < a
  OBVIOUS
<1> QED
  BY <1>1 DEF Found

\* And so does a line of the newer side.
LEMMA FoundNewer ==
  ASSUME NEW s, NEW t, NEW a \in Nat, NEW b \in Nat, NEW i \in Nat, i # b
  PROVE  Found(s, t, a, b + 1)[i] = Found(s, t, a, b)[i]
<1>1. i < b + 1 <=> i < b
  OBVIOUS
<1> QED
  BY <1>1 DEF Found

\* What is said does not depend on lines that were not read.
LEMMA FoundSame ==
  ASSUME NEW s, NEW r, NEW t, NEW a \in Nat, NEW b \in Nat,
         \A i \in 1 .. a : r[i] = s[i]
  PROVE  Found(r, t, a, b) = Found(s, t, a, b)
<1>1. \A i \in Nat : i < a => r[i + 1] = s[i + 1]
  <2> TAKE i \in Nat
  <2>1. i < a => i + 1 \in 1 .. a
    OBVIOUS
  <2> QED
    BY <2>1
<1> QED
  BY <1>1 DEF Found

-----------------------------------------------------------------------------
(* The comparison's steps.                                                 *)

\* The files that are compared have the ids of their places.
LEMMA SidesNumbered ==
  ASSUME ReplayInv, Numbered(out[1])
  PROVE  /\ \A p : Older(p) =>
              out[p] \in Seq(LineSet) /\ Numbered(out[p]) /\ Len(out[p]) \in Nat
         /\ job.at \in {"compare", "diff", "meta"} =>
              /\ out[job.version] \in Seq(LineSet) /\ Numbered(out[job.version])
              /\ Len(out[job.version]) \in Nat
<1>1. \A v \in Versions : out[v] \in Seq(LineSet) /\ Len(out[v]) \in Nat
  BY LenProperties DEF ReplayInv, FilesTyped
<1>2. \A set, n : Numbered(Whole(set, n))
  BY DEF Numbered, Whole, Line
<1>3. ASSUME NEW p, Older(p) PROVE Numbered(out[p])
  <2>1. CASE p = 1
    BY <2>1
  <2>2. CASE p # 1
    <3>1. p \in Versions \ {1} /\ HasMeta(p)
      BY <1>3, <2>2 DEF Older
    <3>2. out[p] = Whole(meta[p].set, meta[p].events)
      BY <3>1 DEF ReplayInv, CompleteIsWhole, Whole
    <3> QED
      BY <3>2, <1>2
  <2> QED
    BY <2>1, <2>2
<1>4. ASSUME job.at \in {"compare", "diff", "meta"}
      PROVE  job.version \in Versions /\ Numbered(out[job.version])
  <2>1. job # NoJob
    BY <1>4 DEF NoJob
  <2>2. out[job.version] = Whole(job.set, job.total)
    BY <1>4 DEF ReplayInv, Running
  <2> QED
    BY <2>1, <2>2, <1>2, JobIs
<1> QED
  BY <1>1, <1>3, <1>4 DEF Older

\* Reading a line of the older side.
LEMMA ReadOldIs ==
  ASSUME NEW c \in Curs, NEW p, NEW s \in Seq(LineSet), ReadableLines(p) = s,
         c.oi <= Len(s)
  PROVE  /\ OldSide(ReadOld(c, p), s) /\ ReadOld(c, p).oi = c.oi + 1
         /\ ReadOld(c, p).ni = c.ni /\ ReadOld(c, p).new = c.new
         /\ ReadOld(c, p).hn = c.hn
<1>1. PICK m \in Nat : m = Len(s) /\ DOMAIN s = 1 .. m
  BY LenProperties
<1>2. PICK k \in Nat : k = c.oi + 1
  BY DEF Curs
<1>3. PICK l : l = LineAt(s, k)
  OBVIOUS
<1>4. PICK h : h = (k \in 1 .. m)
  OBVIOUS
<1>5. ReadOld(c, p) = [c EXCEPT !.oi = k, !.old = l, !.ho = h]
  BY <1>1, <1>2, <1>3, <1>4 DEF ReadOld
<1>6. PICK r : r = ReadOld(c, p)
  OBVIOUS
<1>7. /\ r.oi = k /\ r.old = l /\ r.ho = h /\ r.ni = c.ni /\ r.new = c.new
      /\ r.hn = c.hn
  BY <1>5, <1>6 DEF Curs
<1>8. k >= 1 /\ k <= m + 1
  BY <1>1, <1>2 DEF Curs
<1>9. (k \in 1 .. m => l = s[k]) /\ (k \notin 1 .. m => l = NoLine)
  BY <1>1, <1>3 DEF LineAt
<1>10. r.ho <=> k \in 1 .. m
  BY <1>4, <1>7
<1>11. OldSide(r, s)
  BY <1>1, <1>7, <1>8, <1>9, <1>10 DEF OldSide
<1> QED
  BY <1>2, <1>6, <1>7, <1>11

\* Reading a line of the version's own side.
LEMMA ReadNewIs ==
  ASSUME NEW c \in Curs, NEW t \in Seq(LineSet), out[job.version] = t,
         c.ni <= Len(t)
  PROVE  /\ NewSide(ReadNew(c), t) /\ ReadNew(c).ni = c.ni + 1
         /\ ReadNew(c).oi = c.oi /\ ReadNew(c).old = c.old
         /\ ReadNew(c).ho = c.ho
<1>1. PICK m \in Nat : m = Len(t) /\ DOMAIN t = 1 .. m
  BY LenProperties
<1>2. PICK k \in Nat : k = c.ni + 1
  BY DEF Curs
<1>3. PICK l : l = LineAt(t, k)
  OBVIOUS
<1>4. PICK h : h = (k \in 1 .. m)
  OBVIOUS
<1>5. ReadNew(c) = [c EXCEPT !.ni = k, !.new = l, !.hn = h]
  BY <1>1, <1>2, <1>3, <1>4 DEF ReadNew
<1>6. PICK r : r = ReadNew(c)
  OBVIOUS
<1>7. /\ r.ni = k /\ r.new = l /\ r.hn = h /\ r.oi = c.oi /\ r.old = c.old
      /\ r.ho = c.ho
  BY <1>5, <1>6 DEF Curs
<1>8. k >= 1 /\ k <= m + 1
  BY <1>1, <1>2 DEF Curs
<1>9. (k \in 1 .. m => l = t[k]) /\ (k \notin 1 .. m => l = NoLine)
  BY <1>1, <1>3 DEF LineAt
<1>10. r.hn <=> k \in 1 .. m
  BY <1>4, <1>7
<1>11. ~r.hn => k = m + 1
  BY <1>8, <1>10
<1>12. NewSide(r, t)
  BY <1>1, <1>7, <1>8, <1>9, <1>10, <1>11 DEF NewSide
<1> QED
  BY <1>2, <1>6, <1>7, <1>12

\* What a turn finds, by the sides that have a line.
LEMMA TurnIs ==
  ASSUME NEW c \in Curs, NEW s \in Seq(LineSet), NEW t \in Seq(LineSet),
         OldSide(c, s), NewSide(c, t), InStep(c), Numbered(s), Numbered(t),
         c.ho \/ c.hn
  PROVE  \/ /\ c.ho /\ c.hn /\ c.oi = c.ni
            /\ c.old.id = c.oi - 1 /\ c.new.id = c.ni - 1
            /\ StepOf(c) = <<IF s[c.oi] = t[c.ni] THEN "unchanged"
                             ELSE "changed", TRUE, TRUE>>
         \/ /\ c.ho /\ ~c.hn /\ c.ni <= c.oi /\ c.old.id = c.oi - 1
            /\ StepOf(c) = <<"only_in_old", TRUE, FALSE>>
         \/ /\ ~c.ho /\ c.hn /\ c.oi <= c.ni /\ c.new.id = c.ni - 1
            /\ StepOf(c) = <<"only_in_new", FALSE, TRUE>>
<1>1. c.oi \in Nat /\ c.ni \in Nat /\ c.oi >= 1 /\ c.ni >= 1
  BY DEF Curs, OldSide, NewSide
<1>2. DOMAIN s = 1 .. Len(s) /\ DOMAIN t = 1 .. Len(t)
  BY LenProperties
<1>3. c.ho => c.old = s[c.oi] /\ c.old.id = c.oi - 1 /\ c.old.id # NoId
  BY <1>1, <1>2 DEF OldSide, Numbered, NoId
<1>4. c.hn => c.new = t[c.ni] /\ c.new.id = c.ni - 1 /\ c.new.id # NoId
  BY <1>1, <1>2 DEF NewSide, Numbered, NoId
<1>5. (~c.ho => c.old.id = NoId) /\ (~c.hn => c.new.id = NoId)
  BY DEF OldSide, NewSide, NoLine
<1>6. CASE c.ho /\ c.hn
  <2>1. c.oi = c.ni
    BY <1>1, <1>6 DEF InStep
  <2>2. StepOf(c) = <<IF c.old = c.new THEN "unchanged" ELSE "changed",
                      TRUE, TRUE>>
    BY <2>1, <1>3, <1>4, <1>6 DEF StepOf
  <2> QED
    BY <2>1, <2>2, <1>3, <1>4, <1>6
<1>7. CASE c.ho /\ ~c.hn
  <2>1. StepOf(c) = <<"only_in_old", TRUE, FALSE>>
    BY <1>3, <1>5, <1>7 DEF StepOf
  <2> QED
    BY <2>1, <1>3, <1>7 DEF InStep
<1>8. CASE ~c.ho /\ c.hn
  <2>1. StepOf(c) = <<"only_in_new", FALSE, TRUE>>
    BY <1>4, <1>5, <1>8 DEF StepOf
  <2> QED
    BY <2>1, <1>4, <1>8 DEF InStep
<1> QED
  BY <1>6, <1>7, <1>8

\* What a turn does, given what it finds.
LEMMA TurnDoes ==
  ASSUME ReplayInv, DiffStep, NEW k, NEW x, NEW y,
         StepOf(cur) = <<k, x, y>>
  PROVE  /\ job' = job /\ out' = out /\ torn' = torn /\ meta' = meta
         /\ cur' = LET c == IF x THEN ReadOld(cur, job.prev) ELSE cur
                   IN  IF y THEN ReadNew(c) ELSE c
         /\ k = "unchanged" => diff' = diff
         /\ k \in Kinds => diff'[job.version] =
              Append(diff[job.version],
                     [id |-> IF k = "only_in_new" THEN cur.new.id
                             ELSE cur.old.id, kind |-> k])
<1>1. job \in Jobs /\ job.version \in Versions /\ DOMAIN diff = Versions
  <2>1. job # NoJob
    BY DEF DiffStep, NoJob
  <2> QED
    BY <2>1, JobIs DEF ReplayInv, FilesTyped
<1>2. PICK o : o = <<k, x, y>>
  OBVIOUS
<1>3. o[1] = k /\ o[2] = x /\ o[3] = y
  BY <1>2, Zenon
<1>4. StepOf(cur) = o
  BY <1>2
<1>5. cur' = LET c == IF x THEN ReadOld(cur, job.prev) ELSE cur
             IN  IF y THEN ReadNew(c) ELSE c
  BY <1>3, <1>4, Zenon DEF DiffStep
<1>6. k = "unchanged" => diff' = diff
  BY <1>3, <1>4 DEF DiffStep
<1>7. ASSUME k \in Kinds
      PROVE  diff'[job.version] =
               Append(diff[job.version],
                      [id |-> IF k = "only_in_new" THEN cur.new.id
                              ELSE cur.old.id, kind |-> k])
  <2>1. k \notin {"unchanged", "skip"}
    BY <1>7 DEF Kinds
  <2>2. PICK e : e = [id |-> IF k = "only_in_new" THEN cur.new.id
                             ELSE cur.old.id, kind |-> k]
    OBVIOUS
  <2>3. diff' = [diff EXCEPT ![job.version] = Append(@, e)]
    BY <2>1, <2>2, <1>3, <1>4 DEF DiffStep
  <2> QED
    BY <2>2, <2>3, <1>1
<1> QED
  BY <1>5, <1>6, <1>7 DEF DiffStep

\* What a turn needs to know of the state it begins in.
LEMMA TurnBegins ==
  ASSUME ReplayInv, DiffInv, job.at = "diff", ~job.torn
  PROVE  /\ job \in Jobs /\ job.prev \in Versions /\ cur \in Curs
         /\ out[job.prev] \in Seq(LineSet) /\ Numbered(out[job.prev])
         /\ out[job.version] \in Seq(LineSet) /\ Numbered(out[job.version])
         /\ Len(out[job.prev]) \in Nat /\ Len(out[job.version]) \in Nat
         /\ diff[job.version] \in Seq(Entries)
         /\ ReadableLines(job.prev) = out[job.prev]
         /\ ToldSoFar(out[job.prev], out[job.version])
         /\ \A c \in Curs : /\ ReadOld(c, job.prev) \in Curs
                            /\ ReadNew(c) \in Curs
<1>1. job # NoJob
  BY DEF NoJob
<1>2. /\ Older(job.prev) /\ (job.prev = 1 => torn = "no")
      /\ ToldSoFar(out[job.prev], out[job.version])
  BY DEF DiffInv, Comparing
<1>3. ReadableLines(job.prev) = out[job.prev]
  BY <1>2 DEF ReadableLines
<1>4. job.prev \in Versions
  BY <1>2 DEF Older
<1>5. /\ out[job.prev] \in Seq(LineSet) /\ Numbered(out[job.prev])
      /\ out[job.version] \in Seq(LineSet) /\ Numbered(out[job.version])
      /\ Len(out[job.prev]) \in Nat /\ Len(out[job.version]) \in Nat
  BY <1>2, SidesNumbered DEF DiffInv
<1>6. /\ cur \in Curs /\ diff[job.version] \in Seq(Entries) /\ job \in Jobs
  BY <1>1, JobIs DEF ReplayInv, FilesTyped
<1>7. \A c \in Curs : ReadOld(c, job.prev) \in Curs /\ ReadNew(c) \in Curs
  BY <1>1, <1>4, ReadType
<1> QED
  BY <1>2, <1>3, <1>4, <1>5, <1>6, <1>7

\* A turn at two lines of one record.
LEMMA TurnAtBoth ==
  ASSUME ReplayInv, DiffInv, DiffStep, ~job.torn, cur.ho, cur.hn,
         NEW s, NEW t, s = out[job.prev], t = out[job.version]
  PROVE  ToldSoFar(s, t)'
<1> DEFINE d == diff[job.version]
<1>1. job.at = "diff"
  BY DEF DiffStep
<1>2. /\ job.prev \in Versions /\ cur \in Curs /\ s \in Seq(LineSet)
      /\ t \in Seq(LineSet) /\ Numbered(s) /\ Numbered(t) /\ d \in Seq(Entries)
      /\ Len(s) \in Nat /\ Len(t) \in Nat /\ ReadableLines(job.prev) = s
      /\ \A c \in Curs : ReadOld(c, job.prev) \in Curs /\ ReadNew(c) \in Curs
  BY <1>1, TurnBegins
<1>3. /\ OldSide(cur, s) /\ NewSide(cur, t) /\ InStep(cur)
      /\ Told(d, Found(s, t, cur.oi - 1, cur.ni - 1))
  BY <1>1, TurnBegins DEF ToldSoFar
<1>4. /\ cur.oi = cur.ni /\ cur.old.id = cur.oi - 1
      /\ StepOf(cur) = <<IF s[cur.oi] = t[cur.ni] THEN "unchanged"
                         ELSE "changed", TRUE, TRUE>>
  BY <1>2, <1>3, TurnIs
<1>5. /\ cur.oi \in Nat /\ cur.oi >= 1 /\ cur.oi <= Len(s) /\ cur.ni <= Len(t)
      /\ cur.old \in LineSet
  BY <1>2, <1>3 DEF Curs, OldSide, NewSide
<1>6. PICK k \in Nat : k = cur.oi - 1
  BY <1>5
<1>7. k \in Ids /\ k + 1 = cur.oi
  <2>1. cur.old.id \in Ids \cup {NoId}
    BY <1>5 DEF LineSet
  <2> QED
    BY <2>1, <1>4, <1>5, <1>6 DEF NoId
<1>8. PICK f : f = Found(s, t, k, k)
  OBVIOUS
<1>9. PICK g : g = Found(s, t, k + 1, k + 1)
  OBVIOUS
<1>10. Told(d, f)
  BY <1>3, <1>4, <1>6, <1>8
<1>11. \A i \in Nat : i >= k => f[i] = "unchanged"
  BY <1>8, FoundNone
<1>12. \A i \in Nat : i # k => g[i] = f[i]
  <2>1. \A i \in Nat : i # k => Found(s, t, k + 1, k)[i]
                                  = Found(s, t, k, k)[i]
    BY FoundOlder
  <2>2. PICK a \in Nat : a = k + 1
    OBVIOUS
  <2>3. \A i \in Nat : i # k => Found(s, t, a, k + 1)[i]
                                  = Found(s, t, a, k)[i]
    BY FoundNewer
  <2> QED
    BY <2>1, <2>2, <2>3, <1>8, <1>9
<1>13. g[k] = IF s[k + 1] = t[k + 1] THEN "unchanged" ELSE "changed"
  <2>1. k < k + 1
    OBVIOUS
  <2> QED
    BY <2>1, <1>9 DEF Found
<1>14. /\ g[k] = "unchanged" => Told(d, g)
       /\ g[k] \in Kinds => Told(Append(d, [id |-> k, kind |-> g[k]]), g)
  <2> HIDE DEF d
  <2> QED
    BY <1>2, <1>7, <1>10, <1>11, <1>12, ToldMore
<1>15. StepOf(cur) = <<g[k], TRUE, TRUE>>
  BY <1>4, <1>7, <1>13
<1>16. g[k] = "unchanged" \/ (g[k] \in Kinds /\ g[k] # "only_in_new")
  BY <1>13 DEF Kinds
<1>17. /\ job' = job /\ out' = out
       /\ cur' = ReadNew(ReadOld(cur, job.prev))
       /\ g[k] = "unchanged" => diff' = diff
       /\ g[k] \in Kinds => diff'[job.version] =
            Append(d, [id |-> IF g[k] = "only_in_new" THEN cur.new.id
                              ELSE cur.old.id, kind |-> g[k]])
  BY <1>15, TurnDoes
<1>18. Told(diff'[job.version], g)
  BY <1>4, <1>6, <1>14, <1>16, <1>17
<1>19. PICK q \in Curs : q = ReadOld(cur, job.prev)
  BY <1>2
<1>20. /\ OldSide(q, s) /\ q.oi = cur.oi + 1 /\ q.ni = cur.ni
  BY <1>2, <1>5, <1>19, ReadOldIs
<1>21. PICK r \in Curs : r = ReadNew(q)
  BY <1>2
<1>22. /\ NewSide(r, t) /\ r.ni = q.ni + 1 /\ r.oi = q.oi /\ r.old = q.old
       /\ r.ho = q.ho
  BY <1>2, <1>5, <1>20, <1>21, ReadNewIs
<1>23. OldSide(r, s)
  BY <1>20, <1>22 DEF OldSide
<1>24. r.oi = k + 2 /\ r.ni = k + 2
  BY <1>4, <1>7, <1>20, <1>22
<1>25. InStep(r) /\ r.oi - 1 = k + 1 /\ r.ni - 1 = k + 1
  BY <1>24 DEF InStep
<1>26. cur' = r
  BY <1>17, <1>19, <1>21
<1>27. Told(diff'[job.version], Found(s, t, r.oi - 1, r.ni - 1))
  BY <1>9, <1>18, <1>25
<1>28. job'.at # "meta" /\ job'.version = job.version
  BY <1>1, <1>17
<1> QED
  BY <1>22, <1>23, <1>25, <1>26, <1>27, <1>28 DEF ToldSoFar, Told, Ascending

\* A turn at a line of the older side only.
LEMMA TurnAtOld ==
  ASSUME ReplayInv, DiffInv, DiffStep, ~job.torn, cur.ho, ~cur.hn,
         NEW s, NEW t, s = out[job.prev], t = out[job.version]
  PROVE  ToldSoFar(s, t)'
<1> DEFINE d == diff[job.version]
<1>1. job.at = "diff"
  BY DEF DiffStep
<1>2. /\ job.prev \in Versions /\ cur \in Curs /\ s \in Seq(LineSet)
      /\ t \in Seq(LineSet) /\ Numbered(s) /\ Numbered(t) /\ d \in Seq(Entries)
      /\ Len(s) \in Nat /\ Len(t) \in Nat /\ ReadableLines(job.prev) = s
      /\ \A c \in Curs : ReadOld(c, job.prev) \in Curs /\ ReadNew(c) \in Curs
  BY <1>1, TurnBegins
<1>3. /\ OldSide(cur, s) /\ NewSide(cur, t) /\ InStep(cur)
      /\ Told(d, Found(s, t, cur.oi - 1, cur.ni - 1))
  BY <1>1, TurnBegins DEF ToldSoFar
<1>4. /\ cur.ni <= cur.oi /\ cur.old.id = cur.oi - 1
      /\ StepOf(cur) = <<"only_in_old", TRUE, FALSE>>
  BY <1>2, <1>3, TurnIs
<1>5. /\ cur.oi \in Nat /\ cur.oi >= 1 /\ cur.oi <= Len(s)
      /\ cur.ni \in Nat /\ cur.ni >= 1 /\ cur.old \in LineSet
  BY <1>2, <1>3 DEF Curs, OldSide, NewSide
<1>6. PICK k \in Nat, b \in Nat : k = cur.oi - 1 /\ b = cur.ni - 1
  BY <1>5
<1>7. k \in Ids /\ k + 1 = cur.oi /\ b + 1 = cur.ni /\ b <= k
  <2>1. cur.old.id \in Ids \cup {NoId}
    BY <1>5 DEF LineSet
  <2> QED
    BY <2>1, <1>4, <1>5, <1>6 DEF NoId
<1>8. PICK f : f = Found(s, t, k, b)
  OBVIOUS
<1>9. PICK g : g = Found(s, t, k + 1, b)
  OBVIOUS
<1>10. Told(d, f)
  BY <1>3, <1>6, <1>8
<1>11. \A i \in Nat : i >= k => f[i] = "unchanged"
  BY <1>7, <1>8, FoundNone
<1>12. \A i \in Nat : i # k => g[i] = f[i]
  BY <1>8, <1>9, FoundOlder
<1>13. g[k] = "only_in_old"
  <2>1. k < k + 1 /\ ~(k < b)
    BY <1>7
  <2> QED
    BY <2>1, <1>9 DEF Found
<1>14. Told(Append(d, [id |-> k, kind |-> g[k]]), g)
  <2>1. g[k] \in Kinds
    BY <1>13 DEF Kinds
  <2> HIDE DEF d
  <2> QED
    BY <2>1, <1>2, <1>7, <1>10, <1>11, <1>12, ToldMore
<1>15. /\ job' = job /\ out' = out /\ cur' = ReadOld(cur, job.prev)
       /\ diff'[job.version] = Append(d, [id |-> k, kind |-> g[k]])
  <2>1. "only_in_old" \in Kinds /\ "only_in_old" # "only_in_new"
    BY DEF Kinds
  <2> QED
    BY <2>1, <1>4, <1>6, <1>13, TurnDoes
<1>16. PICK r \in Curs : r = ReadOld(cur, job.prev)
  BY <1>2
<1>17. /\ OldSide(r, s) /\ r.oi = cur.oi + 1 /\ r.ni = cur.ni
       /\ r.new = cur.new /\ r.hn = cur.hn
  BY <1>2, <1>5, <1>16, ReadOldIs
<1>18. NewSide(r, t)
  BY <1>3, <1>17 DEF NewSide
<1>19. InStep(r) /\ r.oi - 1 = k + 1 /\ r.ni - 1 = b
  BY <1>5, <1>7, <1>17 DEF InStep
<1>20. Told(diff'[job.version], Found(s, t, r.oi - 1, r.ni - 1))
  BY <1>9, <1>14, <1>15, <1>19
<1>21. cur' = r /\ job'.at # "meta" /\ job'.version = job.version
  BY <1>1, <1>15, <1>16
<1> QED
  BY <1>17, <1>18, <1>19, <1>20, <1>21 DEF ToldSoFar, Told, Ascending

\* A turn at a line of the version's own side only.
LEMMA TurnAtNew ==
  ASSUME ReplayInv, DiffInv, DiffStep, ~job.torn, ~cur.ho, cur.hn,
         NEW s, NEW t, s = out[job.prev], t = out[job.version]
  PROVE  ToldSoFar(s, t)'
<1> DEFINE d == diff[job.version]
<1>1. job.at = "diff"
  BY DEF DiffStep
<1>2. /\ job.prev \in Versions /\ cur \in Curs /\ s \in Seq(LineSet)
      /\ t \in Seq(LineSet) /\ Numbered(s) /\ Numbered(t) /\ d \in Seq(Entries)
      /\ Len(s) \in Nat /\ Len(t) \in Nat /\ ReadableLines(job.prev) = s
      /\ \A c \in Curs : ReadOld(c, job.prev) \in Curs /\ ReadNew(c) \in Curs
  BY <1>1, TurnBegins
<1>3. /\ OldSide(cur, s) /\ NewSide(cur, t) /\ InStep(cur)
      /\ Told(d, Found(s, t, cur.oi - 1, cur.ni - 1))
  BY <1>1, TurnBegins DEF ToldSoFar
<1>4. /\ cur.oi <= cur.ni /\ cur.new.id = cur.ni - 1
      /\ StepOf(cur) = <<"only_in_new", FALSE, TRUE>>
  BY <1>2, <1>3, TurnIs
<1>5. /\ cur.ni \in Nat /\ cur.ni >= 1 /\ cur.ni <= Len(t)
      /\ cur.oi \in Nat /\ cur.oi >= 1 /\ cur.new \in LineSet
  BY <1>2, <1>3 DEF Curs, OldSide, NewSide
<1>6. PICK k \in Nat, a \in Nat : k = cur.ni - 1 /\ a = cur.oi - 1
  BY <1>5
<1>7. k \in Ids /\ k + 1 = cur.ni /\ a + 1 = cur.oi /\ a <= k
  <2>1. cur.new.id \in Ids \cup {NoId}
    BY <1>5 DEF LineSet
  <2> QED
    BY <2>1, <1>4, <1>5, <1>6 DEF NoId
<1>8. PICK f : f = Found(s, t, a, k)
  OBVIOUS
<1>9. PICK g : g = Found(s, t, a, k + 1)
  OBVIOUS
<1>10. Told(d, f)
  BY <1>3, <1>6, <1>8
<1>11. \A i \in Nat : i >= k => f[i] = "unchanged"
  BY <1>7, <1>8, FoundNone
<1>12. \A i \in Nat : i # k => g[i] = f[i]
  BY <1>8, <1>9, FoundNewer
<1>13. g[k] = "only_in_new"
  <2>1. k < k + 1 /\ ~(k < a)
    BY <1>7
  <2> QED
    BY <2>1, <1>9 DEF Found
<1>14. Told(Append(d, [id |-> k, kind |-> g[k]]), g)
  <2>1. g[k] \in Kinds
    BY <1>13 DEF Kinds
  <2> HIDE DEF d
  <2> QED
    BY <2>1, <1>2, <1>7, <1>10, <1>11, <1>12, ToldMore
<1>15. /\ job' = job /\ out' = out /\ cur' = ReadNew(cur)
       /\ diff'[job.version] = Append(d, [id |-> k, kind |-> g[k]])
  <2>1. "only_in_new" \in Kinds
    BY DEF Kinds
  <2> QED
    BY <2>1, <1>4, <1>6, <1>13, TurnDoes
<1>16. PICK r \in Curs : r = ReadNew(cur)
  BY <1>2
<1>17. /\ NewSide(r, t) /\ r.ni = cur.ni + 1 /\ r.oi = cur.oi
       /\ r.old = cur.old /\ r.ho = cur.ho
  BY <1>2, <1>5, <1>16, ReadNewIs
<1>18. OldSide(r, s)
  BY <1>3, <1>17 DEF OldSide
<1>19. InStep(r) /\ r.ni - 1 = k + 1 /\ r.oi - 1 = a
  BY <1>5, <1>7, <1>17 DEF InStep
<1>20. Told(diff'[job.version], Found(s, t, r.oi - 1, r.ni - 1))
  BY <1>9, <1>14, <1>15, <1>19
<1>21. cur' = r /\ job'.at # "meta" /\ job'.version = job.version
  BY <1>1, <1>15, <1>16
<1> QED
  BY <1>17, <1>18, <1>19, <1>20, <1>21 DEF ToldSoFar, Told, Ascending
-----------------------------------------------------------------------------
(* The files beside the comparison.                                        *)

\* The live output grows at its end.
LEMMA LiveGrows ==
  ASSUME ReplayInv, Numbered(out[1]), Next
  PROVE  /\ Numbered(out'[1]) /\ Len(out[1]) \in Nat /\ Len(out'[1]) \in Nat
         /\ Len(out[1]) <= Len(out'[1])
         /\ \A i \in 1 .. Len(out[1]) : out'[1][i] = out[1][i]
<1>1. /\ 1 \in Versions /\ out \in [Versions -> Seq(LineSet)]
      /\ out[1] \in Seq(LineSet)
  BY ReplayAssumption DEF Versions, ReplayInv, FilesTyped
<1>2. PICK s \in Seq(LineSet) : s = out[1]
  BY <1>1
<1>3. Len(s) \in Nat /\ DOMAIN s = 1 .. Len(s)
  BY <1>2, LenProperties
<1>4. CASE EmitLive
  <2>1. PICK l : l = Line(Len(s), files)
    OBVIOUS
  <2>2. l \in LineSet /\ l.id = Len(s)
    <3>1. Len(s) \in Nat /\ Len(s) < stored /\ stored \in 0 .. MaxRecords
          /\ MaxRecords \in Nat /\ files \in FileSets
      BY <1>2, <1>3, <1>4, ReplayAssumption DEF EmitLive, ReplayInv, EngineTyped
    <3> QED
      BY <2>1, <3>1 DEF Line, LineSet, Ids
  <2>3. PICK q \in Seq(LineSet) : q = Append(s, l)
    BY <2>2, AppendProperties
  <2>4. out'[1] = q
    BY <1>1, <1>2, <1>4, <2>1, <2>3 DEF EmitLive
  <2>5. /\ Len(q) = Len(s) + 1 /\ DOMAIN q = 1 .. Len(s) + 1
        /\ q[Len(s) + 1] = l /\ \A i \in 1 .. Len(s) : q[i] = s[i]
    BY <2>2, <2>3, AppendProperties, LenProperties
  <2>6. \A i \in 1 .. Len(s) + 1 : i \in 1 .. Len(s) \/ i = Len(s) + 1
    BY <1>3
  <2>7. Numbered(q)
    BY <1>2, <1>3, <2>2, <2>5, <2>6 DEF Numbered
  <2> QED
    BY <1>2, <1>3, <2>4, <2>5, <2>7
<1>5. CASE ~EmitLive
  <2>1. out'[1] = out[1]
    <3>1. CASE Create \/ Receive \/ Drained
      <4>1. job.version # 1
        BY <3>1, JobIs DEF Create, Receive, Drained, NoJob
      <4>2. out' = out \/ \E r : out' = [out EXCEPT ![job.version] = r]
        BY <3>1 DEF Create, Receive, Drained
      <4> QED
        BY <4>1, <4>2, <1>1
    <3>2. CASE \/ Open \/ Store \/ Reload \/ Kill \/ StartReplay \/ CliReplay
               \/ StageFails \/ WriteFails \/ ReaderStep \/ FailedReturns
               \/ Compare \/ DiffStep \/ DiffEnd \/ WriteMeta
      BY <3>2 DEF Open, Store, Reload, Kill, StartReplay, CliReplay,
                  StageFails, WriteFails, ReaderStep, FailedReturns, Compare,
                  DiffStep, DiffEnd, WriteMeta, fv
    <3>3. CASE \/ \E w \in Workers : WorkerStep(w) \/ Panic(w)
               \/ \E u \in Versions : IndexDiff(u)
      BY <3>3 DEF WorkerStep, Panic, IndexDiff, fv
    <3> QED
      BY <1>5, <3>1, <3>2, <3>3 DEF Next, Main
  <2>2. Numbered(out'[1])
    BY <2>1 DEF Numbered
  <2> QED
    BY <2>1, <2>2, <1>2, <1>3
<1> QED
  BY <1>4, <1>5

\* So does every file something is compared with.
LEMMA OlderGrows ==
  ASSUME ReplayInv, Numbered(out[1]), Next, NEW p, Older(p)
  PROVE  /\ Older(p)' /\ Len(out[p]) \in Nat /\ Len(out'[p]) \in Nat
         /\ Len(out[p]) <= Len(out'[p])
         /\ \A i \in 1 .. Len(out[p]) : out'[p][i] = out[p][i]
<1>1. CASE p = 1
  BY <1>1, LiveGrows DEF Older
<1>2. CASE p # 1
  <2>1. p \in Versions \ {1} /\ HasMeta(p)
    BY <1>2 DEF Older
  <2>2. out'[p] = out[p] /\ meta'[p] = meta[p]
    BY <2>1, CompleteKept
  <2>3. Older(p)'
    BY <2>1, <2>2 DEF Older, HasMeta
  <2>4. Len(out[p]) \in Nat
    BY SidesNumbered
  <2> QED
    BY <2>2, <2>3, <2>4
<1> QED
  BY <1>1, <1>2

\* Only WriteMeta makes a meta file, of the job's version.
LEMMA MetaIsNew ==
  ASSUME ReplayInv, Next, NEW v \in Versions, HasMeta(v)'
  PROVE  HasMeta(v) \/ (WriteMeta /\ v = job.version)
<1>1. meta \in [Versions -> Metas \cup {NoMeta}]
  BY DEF ReplayInv, FilesTyped
<1>2. CASE WriteMeta
  <2>1. \E m : meta' = [meta EXCEPT ![job.version] = m]
    BY <1>2 DEF WriteMeta
  <2> QED
    BY <2>1, <1>1, <1>2 DEF HasMeta
<1>3. CASE ~WriteMeta
  <2>1. CASE \/ Open \/ Store \/ EmitLive \/ Reload \/ Kill \/ StartReplay
             \/ CliReplay \/ StageFails \/ WriteFails \/ ReaderStep
             \/ FailedReturns \/ Create \/ Receive \/ Drained
             \/ Compare \/ DiffStep \/ DiffEnd
    <3>1. meta' = meta
      BY <2>1 DEF Open, Store, EmitLive, Reload, Kill, StartReplay, CliReplay,
                  StageFails, WriteFails, ReaderStep, FailedReturns, Create,
                  Receive, Drained, Compare, DiffStep, DiffEnd, fv
    <3> QED
      BY <3>1 DEF HasMeta
  <2>2. CASE \/ \E w \in Workers : WorkerStep(w) \/ Panic(w)
             \/ \E u \in Versions : IndexDiff(u)
    <3>1. meta' = meta
      BY <2>2 DEF WorkerStep, Panic, IndexDiff, fv
    <3> QED
      BY <3>1 DEF HasMeta
  <2> QED
    BY <1>3, <2>1, <2>2 DEF Next, Main
<1> QED
  BY <1>2, <1>3

\* What is said of the lines that were read is still said when there are more.
LEMMA ToldStays ==
  ASSUME NEW d, NEW s, NEW r, NEW t, NEW a \in Nat, NEW b \in Nat,
         Told(d, Found(s, t, a, b)), \A i \in 1 .. a : r[i] = s[i]
  PROVE  Told(d, Found(r, t, a, b))
<1>1. Found(r, t, a, b) = Found(s, t, a, b)
  BY FoundSame
<1> QED
  BY <1>1

\* The diffs of complete versions stay faithful, and a new one is.
LEMMA AllFaithfulStays ==
  ASSUME ReplayInv, DiffInv, Next
  PROVE  AllFaithful'
<1> SUFFICES ASSUME NEW v \in Versions \ {1}, NEW p, HasPrevious(v)',
                    p = meta'[v].prev
             PROVE  Older(p)' /\ (~meta'[v].torn => Faithful(v, out[p])')
  BY DEF AllFaithful, Older, HasMeta, Faithful
<1>1. HasMeta(v)' /\ meta'[v].prev # 0 /\ Numbered(out[1]) /\ AllFaithful
  BY DEF HasPrevious, DiffInv
<1>2. \A u \in Versions : out[u] \in Seq(LineSet) /\ Len(out[u]) \in Nat
  BY LenProperties DEF ReplayInv, FilesTyped
<1>3. CASE HasMeta(v)
  <2>1. UNCHANGED <<out[v], meta[v], diff[v], seen[v]>>
    BY <1>3, CompleteKept
  <2>2. p = meta[v].prev
    BY <2>1
  <2>3. HasPrevious(v)
    BY <1>1, <1>3, <2>1 DEF HasPrevious
  <2>4. /\ Older(p) /\ (~meta[v].torn => Faithful(v, out[p]))
    BY <1>1, <2>2, <2>3 DEF AllFaithful
  <2>5. /\ Older(p)' /\ Len(out[p]) \in Nat /\ Len(out'[p]) \in Nat
        /\ Len(out[p]) <= Len(out'[p])
        /\ \A i \in 1 .. Len(out[p]) : out'[p][i] = out[p][i]
    BY <1>1, <2>4, OlderGrows
  <2>6. ASSUME ~meta[v].torn
        PROVE  /\ meta[v].read \in 0 .. Len(out'[p])
               /\ Told(diff[v], Found(out'[p], out[v], meta[v].read,
                                      Len(out[v])))
               /\ seen[v] = Len(diff[v])
    <3>1. PICK a \in Nat : a = meta[v].read /\ a <= Len(out[p])
      BY <2>4, <2>5, <2>6 DEF Faithful
    <3>2. Told(diff[v], Found(out[p], out[v], a, Len(out[v])))
      BY <2>4, <2>6, <3>1 DEF Faithful
    <3>3. \A i \in 1 .. a : out'[p][i] = out[p][i]
      BY <2>5, <3>1
    <3>4. Told(diff[v], Found(out'[p], out[v], a, Len(out[v])))
      BY <1>2, <3>2, <3>3, ToldStays
    <3> QED
      BY <2>4, <2>5, <2>6, <3>1, <3>4 DEF Faithful
  <2> QED
    BY <2>1, <2>2, <2>5, <2>6 DEF Faithful, Told, Ascending
<1>4. CASE ~HasMeta(v)
  <2>1. WriteMeta /\ v = job.version
    BY <1>1, <1>4, MetaIsNew
  <2>2. job.at = "meta" /\ job # NoJob /\ job \in Jobs
    BY <2>1, JobIs DEF WriteMeta, NoJob
  <2>3. UNCHANGED <<out, diff, seen, torn>>
    BY <2>1 DEF WriteMeta
  <2>4. PICK n : n = IF job.prev = 0 THEN 0
                     ELSE cur.oi - 1 - (IF job.torn THEN 1 ELSE 0)
    OBVIOUS
  <2>5. PICK m : m = [complete |-> TRUE, events |-> job.total,
                      set |-> job.set, prev |-> job.prev, torn |-> job.torn,
                      read |-> n]
    OBVIOUS
  <2>6. meta' = [meta EXCEPT ![v] = m]
    BY <2>1, <2>4, <2>5 DEF WriteMeta
  <2>7. meta'[v] = m
    BY <2>6 DEF ReplayInv, FilesTyped
  <2>8. /\ p = job.prev /\ meta'[v].torn = job.torn
        /\ meta'[v].read = n /\ job.prev # 0
    BY <1>1, <2>5, <2>7
  <2>9. Older(p) /\ (~job.torn => ToldSoFar(out[p], out[v]))
    BY <2>1, <2>2, <2>8 DEF DiffInv, Comparing
  <2>10. Older(p)'
    BY <1>1, <2>9, OlderGrows
  <2>11. ASSUME ~job.torn
         PROVE  /\ n \in 0 .. Len(out[p]) /\ seen[v] = Len(diff[v])
                /\ Told(diff[v], Found(out[p], out[v], n, Len(out[v])))
    <3>1. /\ OldSide(cur, out[p]) /\ NewSide(cur, out[v])
          /\ Told(diff[v], Found(out[p], out[v], cur.oi - 1,
                                 cur.ni - 1))
          /\ ~cur.ho /\ ~cur.hn /\ seen[v] = Len(diff[v])
      BY <2>1, <2>2, <2>9, <2>11 DEF ToldSoFar
    <3>2. cur.oi \in Nat /\ Len(out[p]) \in Nat /\ Len(out[v]) \in Nat
      BY <1>2, <2>9 DEF Older, ReplayInv, FilesTyped, Curs
    <3>3. cur.oi >= 1 /\ cur.oi <= Len(out[p]) + 1
          /\ cur.ni - 1 = Len(out[v])
      BY <3>1, <3>2 DEF OldSide, NewSide
    <3>4. n = cur.oi - 1
      BY <2>4, <2>8, <2>11, <3>2
    <3> QED
      BY <3>1, <3>2, <3>3, <3>4
  <2> QED
    BY <2>3, <2>8, <2>10, <2>11 DEF Faithful, Told, Ascending
<1> QED
  BY <1>3, <1>4
-----------------------------------------------------------------------------
(* The comparison over the steps.                                          *)

\* The sides of the cursor are where they were when a file grows.
LEMMA OldSideStays ==
  ASSUME NEW c \in Curs, NEW s, NEW r, OldSide(c, s), Len(s) \in Nat,
         Len(r) \in Nat, Len(s) <= Len(r), \A i \in 1 .. Len(s) : r[i] = s[i]
  PROVE  /\ OldSide(c, r) /\ c.oi - 1 \in Nat
         /\ \A i \in 1 .. c.oi - 1 : r[i] = s[i]
<1>1. c.oi \in Nat /\ c.oi >= 1 /\ c.oi <= Len(s) + 1 /\ c.ho \in BOOLEAN
  BY DEF OldSide, Curs
<1>2. \A i \in 1 .. c.oi - 1 : i \in 1 .. Len(s)
  BY <1>1
<1>3. c.ho => c.oi \in 1 .. Len(s) /\ c.oi \in 1 .. Len(r) /\ c.old = s[c.oi]
  BY <1>1 DEF OldSide
<1>4. ~c.ho => c.old = NoLine
  BY DEF OldSide
<1> QED
  BY <1>1, <1>2, <1>3, <1>4 DEF OldSide

\* A step that leaves the job and its files alone leaves the comparison alone.
LEMMA ComparingStays ==
  ASSUME ReplayInv, DiffInv, Next, job' = job, cur' = cur,
         job # NoJob => torn' = torn,
         job # NoJob => /\ out'[job.version] = out[job.version]
                        /\ diff'[job.version] = diff[job.version]
                        /\ seen'[job.version] = seen[job.version]
  PROVE  Comparing'
<1>1. Numbered(out[1]) /\ Comparing
  BY DEF DiffInv
<1> SUFFICES ASSUME job.at = "diff" \/ (job.at = "meta" /\ job.prev # 0),
                    NEW p, NEW v, p = job.prev, v = job.version
             PROVE  /\ Older(p)'
                    /\ ~job.torn => /\ p = 1 => torn' = "no"
                                    /\ ToldSoFar(out[p], out[v])'
  BY <1>1 DEF Comparing, Older, HasMeta
<1>2. job # NoJob
  BY DEF NoJob
<1>3. /\ Older(p)' /\ Older(p) /\ Len(out[p]) \in Nat /\ Len(out'[p]) \in Nat
      /\ Len(out[p]) <= Len(out'[p])
      /\ \A i \in 1 .. Len(out[p]) : out'[p][i] = out[p][i]
  BY <1>1, OlderGrows DEF Comparing
<1>4. ASSUME ~job.torn
      PROVE  (p = 1 => torn' = "no") /\ ToldSoFar(out[p], out[v])'
  <2>1. (p = 1 => torn = "no") /\ ToldSoFar(out[p], out[v])
    BY <1>1, <1>4 DEF Comparing
  <2>2. cur \in Curs /\ Len(out[v]) \in Nat
    BY <1>2, JobIs, LenProperties DEF ReplayInv, FilesTyped
  <2>3. /\ OldSide(cur, out[p]) /\ NewSide(cur, out[v]) /\ InStep(cur)
        /\ Told(diff[v], Found(out[p], out[v], cur.oi - 1, cur.ni - 1))
        /\ job.at = "meta" => ~cur.ho /\ ~cur.hn /\ seen[v] = Len(diff[v])
    BY <2>1 DEF ToldSoFar
  <2>4. /\ OldSide(cur, out'[p]) /\ cur.oi - 1 \in Nat
        /\ \A i \in 1 .. cur.oi - 1 : out'[p][i] = out[p][i]
    <3>1. PICK s, r : s = out[p] /\ r = out'[p]
      OBVIOUS
    <3>2. /\ Len(s) \in Nat /\ Len(r) \in Nat /\ Len(s) <= Len(r)
          /\ \A i \in 1 .. Len(s) : r[i] = s[i]
      BY <1>3, <3>1
    <3>3. OldSide(cur, s) /\ cur \in Curs
      BY <2>2, <2>3, <3>1
    <3>4. /\ OldSide(cur, r) /\ cur.oi - 1 \in Nat
          /\ \A i \in 1 .. cur.oi - 1 : r[i] = s[i]
      BY <3>2, <3>3, OldSideStays
    <3> QED
      BY <3>1, <3>4
  <2>5. cur.ni - 1 \in Nat
    BY <2>2, <2>3 DEF NewSide, Curs
  <2>6. Told(diff[v], Found(out'[p], out[v], cur.oi - 1, cur.ni - 1))
    BY <2>3, <2>4, <2>5, ToldStays
  <2>7. out'[v] = out[v] /\ diff'[v] = diff[v] /\ seen'[v] = seen[v]
    BY <1>2
  <2> QED
    BY <1>2, <2>1, <2>3, <2>4, <2>6, <2>7
       DEF ToldSoFar, Told, Ascending, OldSide, NewSide, InStep
<1> QED
  BY <1>3, <1>4

\* Nothing is said of no job, or of one that does not compare yet.
LEMMA NotComparing ==
  ASSUME job' = NoJob \/ (/\ job'.at \in {"create", "run", "failed", "compare"}
                          /\ job'.prev = 0)
  PROVE  Comparing'
BY DEF Comparing, NoJob

\* Nothing is said when nothing was read.
LEMMA ToldNothing ==
  ASSUME NEW s, NEW t
  PROVE  Told(<< >>, Found(s, t, 0, 0))
<1>1. \A i \in Nat : Found(s, t, 0, 0)[i] = "unchanged"
  BY FoundNone
<1>2. Listed(Found(s, t, 0, 0)) = {}
  BY <1>1 DEF Listed
<1>3. Ascending(<< >>) /\ ToSet(<< >>) = {}
  BY DEF Ascending, ToSet
<1> QED
  BY <1>2, <1>3 DEF Told

\* The comparison begins with a line of each side.
LEMMA CompareTells ==
  ASSUME ReplayInv, DiffInv, Compare
  PROVE  Comparing'
<1>1. job.at = "compare" /\ job # NoJob
  BY DEF Compare, NoJob
<1>2. job \in Jobs /\ job.version \in Versions /\ job.prev = 0
  BY <1>1, JobIs DEF DiffInv, Comparing
<1>3. PICK p : p = PreviousOf(job.version)
  OBVIOUS
<1>4. CASE p = 0
  <2>1. job' = [job EXCEPT !.at = "meta"]
    BY <1>3, <1>4 DEF Compare
  <2>2. job'.at = "meta" /\ job'.prev = 0
    BY <2>1, <1>2 DEF Jobs
  <2> QED
    BY <2>2 DEF Comparing
<1>5. CASE p # 0
  <2>1. p \in 1 .. MaxVersion /\ Comparable(p)
    BY <1>2, <1>3, <1>5, PreviousIs, ReplayAssumption
  <2>2. Older(p)
    BY <2>1 DEF Older, Comparable, HasMeta, NoMeta, Versions
  <2>3. PICK h \in BOOLEAN : h = (p = 1 /\ torn # "no")
    OBVIOUS
  <2>4. /\ job' = [job EXCEPT !.at = "diff", !.prev = p, !.torn = h]
        /\ diff' = [diff EXCEPT ![job.version] = << >>]
        /\ cur' = ReadNew(ReadOld(NoCur, p))
        /\ UNCHANGED <<out, meta, torn>>
    BY <1>3, <1>5, <2>3 DEF Compare
  <2>5. /\ job'.at = "diff" /\ job'.prev = p /\ job'.torn = h
        /\ job'.version = job.version
    BY <2>4, <1>2 DEF Jobs
  <2>6. diff'[job.version] = << >>
    BY <2>4, <1>2 DEF ReplayInv, FilesTyped
  <2>7. Older(p)'
    BY <2>2, <2>4 DEF Older, HasMeta
  <2>8. ASSUME ~h
        PROVE  (p = 1 => torn' = "no") /\ ToldSoFar(out[p], out[job.version])'
    <3>1. p = 1 => torn = "no"
      BY <2>3, <2>8
    <3>2. PICK s : s = out[p]
      OBVIOUS
    <3>3. PICK t : t = out[job.version]
      OBVIOUS
    <3>4. ReadableLines(p) = s
      BY <3>1, <3>2 DEF ReadableLines
    <3>5. /\ s \in Seq(LineSet) /\ t \in Seq(LineSet) /\ Len(s) \in Nat
          /\ Len(t) \in Nat
      BY <1>1, <2>2, <3>2, <3>3, SidesNumbered DEF DiffInv
    <3>6. NoCur \in Curs /\ NoCur.oi = 0 /\ NoCur.ni = 0
      BY NoCurType DEF NoCur
    <3>7. PICK c \in Curs : c = ReadOld(NoCur, p)
      BY <1>1, <2>2, <3>6, ReadType DEF Older
    <3>8. OldSide(c, s) /\ c.oi = 1 /\ c.ni = 0
      BY <3>4, <3>5, <3>6, <3>7, ReadOldIs
    <3>9. PICK r : r = ReadNew(c)
      OBVIOUS
    <3>10. /\ NewSide(r, t) /\ r.ni = 1 /\ r.oi = c.oi /\ r.old = c.old
           /\ r.ho = c.ho
      BY <3>3, <3>5, <3>8, <3>9, ReadNewIs
    <3>11. OldSide(r, s) /\ InStep(r) /\ r.oi - 1 = 0 /\ r.ni - 1 = 0
      BY <3>8, <3>10 DEF OldSide, InStep
    <3>12. Told(<< >>, Found(s, t, r.oi - 1, r.ni - 1))
      BY <3>11, ToldNothing
    <3>13. cur' = r /\ out' = out
      BY <2>4, <3>7, <3>9
    <3>14. ToldSoFar(s, t)'
      BY <2>5, <2>6, <3>10, <3>11, <3>12, <3>13
         DEF ToldSoFar, Told, Ascending
    <3> QED
      BY <2>4, <2>5, <3>1, <3>2, <3>3, <3>13, <3>14
  <2> QED
    BY <2>5, <2>7, <2>8 DEF Comparing
<1> QED
  BY <1>4, <1>5

\* A turn of the comparison.
LEMMA DiffStepTells ==
  ASSUME ReplayInv, DiffInv, DiffStep, Next
  PROVE  Comparing'
<1>1. job.at = "diff" /\ (cur.ho \/ cur.hn) /\ job # NoJob
  BY DEF DiffStep, NoJob
<1>2. /\ Numbered(out[1]) /\ Older(job.prev)
      /\ ~job.torn /\ job.prev = 1 => torn = "no"
  BY <1>1 DEF DiffInv, Comparing
<1>3. UNCHANGED <<job, out, torn, meta>>
  BY DEF DiffStep
<1>4. Older(job.prev)'
  BY <1>2, <1>3 DEF Older, HasMeta
<1>5. ASSUME ~job.torn
      PROVE  ToldSoFar(out[job.prev], out[job.version])'
  <2>1. PICK s, t : s = out[job.prev] /\ t = out[job.version]
    OBVIOUS
  <2>2. cur.ho \in BOOLEAN /\ cur.hn \in BOOLEAN
    BY DEF ReplayInv, FilesTyped, Curs
  <2>3. CASE cur.ho /\ cur.hn
    BY <1>3, <1>5, <2>1, <2>3, TurnAtBoth
  <2>4. CASE cur.ho /\ ~cur.hn
    BY <1>3, <1>5, <2>1, <2>4, TurnAtOld
  <2>5. CASE ~cur.ho /\ cur.hn
    BY <1>3, <1>5, <2>1, <2>5, TurnAtNew
  <2> QED
    BY <1>1, <2>2, <2>3, <2>4, <2>5
<1> QED
  BY <1>1, <1>2, <1>3, <1>4, <1>5 DEF Comparing

\* The end of the comparison.
LEMMA DiffEndTells ==
  ASSUME ReplayInv, DiffInv, DiffEnd
  PROVE  Comparing'
<1>1. job.at = "diff" /\ job # NoJob /\ ~cur.ho /\ ~cur.hn
  BY DEF DiffEnd, NoJob
<1>2. job \in Jobs /\ job.version \in Versions
  BY <1>1, JobIs
<1>3. /\ Older(job.prev)
      /\ ~job.torn => /\ job.prev = 1 => torn = "no"
                      /\ ToldSoFar(out[job.prev], out[job.version])
  BY <1>1 DEF DiffInv, Comparing
<1>4. /\ job' = [job EXCEPT !.at = "meta"]
      /\ seen' = [seen EXCEPT ![job.version] = Len(diff[job.version])]
      /\ UNCHANGED <<out, torn, meta, diff, cur>>
  BY DEF DiffEnd
<1>5. /\ job'.at = "meta" /\ job'.prev = job.prev /\ job'.torn = job.torn
      /\ job'.version = job.version
  BY <1>2, <1>4 DEF Jobs
<1>6. seen'[job.version] = Len(diff[job.version])
  BY <1>2, <1>4 DEF ReplayInv, FilesTyped
<1>7. Older(job.prev)'
  BY <1>3, <1>4, <1>5 DEF Older, HasMeta
<1>8. ASSUME ~job.torn
      PROVE  ToldSoFar(out[job.prev], out[job.version])'
  BY <1>1, <1>3, <1>4, <1>5, <1>6, <1>8
     DEF ToldSoFar, OldSide, NewSide, InStep, Told, Ascending
<1> QED
  BY <1>3, <1>4, <1>5, <1>7, <1>8 DEF Comparing

\* The comparison is what it says over every step.
LEMMA ComparingKept ==
  ASSUME ReplayInv, DiffInv, Next
  PROVE  Comparing'
<1>1. job \in Jobs \cup {NoJob}
  BY DEF ReplayInv, EngineTyped
<1>2. job.at \in {"create", "run", "failed", "compare"} => job.prev = 0
  BY DEF DiffInv, Comparing
<1>3. CASE Open
  <2>1. job = NoJob
    BY <1>3, NoJobThen DEF Open
  <2> QED
    BY <1>3, <2>1, NotComparing DEF Open
<1>4. CASE Store \/ Reload \/ ReaderStep
  BY <1>4, ComparingStays DEF Store, Reload, ReaderStep, fv
<1>5. CASE \/ \E w \in Workers : WorkerStep(w) \/ Panic(w)
           \/ \E v \in Versions : IndexDiff(v)
  BY <1>5, ComparingStays DEF WorkerStep, Panic, IndexDiff, fv
<1>6. CASE EmitLive
  <2>1. UNCHANGED <<job, cur, torn, diff, seen>>
    BY <1>6 DEF EmitLive
  <2>2. job # NoJob => out'[job.version] = out[job.version]
    BY <1>6, JobIs DEF EmitLive, ReplayInv, FilesTyped
  <2> QED
    BY <2>1, <2>2, ComparingStays
<1>7. CASE Kill \/ StageFails \/ FailedReturns \/ WriteMeta
  <2>1. job' = NoJob
    BY <1>7 DEF Kill, StageFails, FailedReturns, WriteMeta, Returned
  <2> QED
    BY <2>1, NotComparing
<1>8. CASE StartReplay \/ CliReplay
  <2>1. CASE job' = NewJob
    <3>1. job'.at = "create" /\ job'.prev = 0
      BY <2>1 DEF NewJob
    <3> QED
      BY <3>1, NotComparing
  <2>2. CASE job' = job
    BY <1>8, <2>2, ComparingStays DEF StartReplay, CliReplay, fv
  <2> QED
    BY <1>8, <2>1, <2>2 DEF StartReplay, CliReplay
<1>9. CASE Create \/ WriteFails
  <2>1. /\ job \in Jobs /\ job.prev = 0
        /\ \/ job' = [job EXCEPT !.at = "run"]
           \/ job' = [job EXCEPT !.at = "failed"]
    BY <1>1, <1>2, <1>9 DEF Create, WriteFails, NoJob
  <2>2. job'.at \in {"run", "failed"} /\ job'.prev = 0
    BY <2>1 DEF Jobs
  <2> QED
    BY <2>2, NotComparing
<1>10. CASE Receive
  <2>1. job' = job /\ job.at = "run" /\ job.prev = 0
    BY <1>2, <1>10 DEF Receive
  <2> QED
    BY <2>1, NotComparing
<1>11. CASE Drained
  <2>1. CASE job' = NoJob
    BY <2>1, NotComparing
  <2>2. CASE job' # NoJob
    <3>1. /\ job \in Jobs /\ job.prev = 0
          /\ job' = [job EXCEPT !.at = "compare"]
      BY <1>1, <1>2, <1>11, <2>2 DEF Drained, Returned, NoJob
    <3>2. job'.at = "compare" /\ job'.prev = 0
      BY <3>1 DEF Jobs
    <3> QED
      BY <3>2, NotComparing
  <2> QED
    BY <2>1, <2>2
<1>12. CASE Compare
  BY <1>12, CompareTells
<1>13. CASE DiffStep
  BY <1>13, DiffStepTells
<1>14. CASE DiffEnd
  BY <1>14, DiffEndTells
<1> QED
  BY <1>3, <1>4, <1>5, <1>6, <1>7, <1>8, <1>9, <1>10, <1>11, <1>12, <1>13,
     <1>14 DEF Next, Main

\* The invariant of the comparison.
LEMMA DiffInvariant == Spec => []DiffInv
<1>1. Init => DiffInv
  <2> SUFFICES ASSUME Init PROVE DiffInv
    OBVIOUS
  <2>1. 1 \in Versions
    BY ReplayAssumption DEF Versions
  <2>2. Numbered(out[1])
    BY <2>1 DEF Init, Numbered
  <2>3. Comparing
    BY DEF Init, Comparing, NoJob
  <2>4. AllFaithful
    BY DEF Init, AllFaithful, HasPrevious, HasMeta
  <2> QED
    BY <2>2, <2>3, <2>4 DEF DiffInv
<1>2. ReplayInv /\ DiffInv /\ [Next]_vars => DiffInv'
  <2>1. ASSUME ReplayInv, DiffInv, Next PROVE DiffInv'
    <3>1. Numbered(out'[1])
      BY <2>1, LiveGrows DEF DiffInv
    <3>2. Comparing' /\ AllFaithful'
      BY <2>1, ComparingKept, AllFaithfulStays
    <3> QED
      BY <3>1, <3>2 DEF DiffInv, Numbered
  <2>2. ASSUME DiffInv, UNCHANGED vars PROVE DiffInv'
    BY <2>2 DEF DiffInv, vars, lv, fv, tv, bv, Numbered, Comparing, Older,
                HasMeta, ToldSoFar, OldSide, NewSide, InStep, Told, Ascending,
                AllFaithful, HasPrevious, Faithful
  <2> QED
    BY <2>1, <2>2
<1> QED
  BY <1>1, <1>2, ReplayInvariant, PTL DEF Spec

\* The set of differences that the property speaks of, of numbered files.
LEMMA DifferencesAre ==
  ASSUME NEW s \in Seq(LineSet), NEW t \in Seq(LineSet), Numbered(s),
         Numbered(t)
  PROVE  Differences(s, t) = Listed(Found(s, t, Len(s), Len(t)))
<1>1. PICK a \in Nat : a = Len(s) /\ DOMAIN s = 1 .. a
  BY LenProperties
<1>2. PICK b \in Nat : b = Len(t) /\ DOMAIN t = 1 .. b
  BY LenProperties
<1>3. PICK f : f = Found(s, t, a, b)
  OBVIOUS
<1>4. \A i \in 1 .. a : s[i].id = i - 1
  BY <1>1 DEF Numbered
<1>5. \A i \in 1 .. b : t[i].id = i - 1
  BY <1>2 DEF Numbered
<1>6. \A i : i \in IdsOf(s) <=> i \in Nat /\ i < a
  <2>1. \A i \in Nat : i < a => i + 1 \in 1 .. a /\ i = i + 1 - 1
    BY <1>1
  <2>2. \A i \in 1 .. a : i - 1 \in Nat /\ i - 1 < a
    BY <1>1
  <2>3. IdsOf(s) = {s[i].id : i \in 1 .. a}
    BY <1>1 DEF IdsOf
  <2>4. ASSUME NEW i \in IdsOf(s) PROVE i \in Nat /\ i < a
    <3>1. PICK x \in 1 .. a : i = s[x].id
      BY <2>3
    <3> QED
      BY <1>4, <2>2, <3>1
  <2>5. ASSUME NEW i \in Nat, i < a PROVE i \in IdsOf(s)
    <3>1. PICK x \in 1 .. a : i = x - 1
      BY <2>1, <2>5
    <3>2. i = s[x].id
      BY <1>4, <3>1
    <3> QED
      BY <2>3, <3>2
  <2> QED
    BY <2>4, <2>5
<1>7. \A i : i \in IdsOf(t) <=> i \in Nat /\ i < b
  <2>1. \A i \in Nat : i < b => i + 1 \in 1 .. b /\ i = i + 1 - 1
    BY <1>2
  <2>2. \A i \in 1 .. b : i - 1 \in Nat /\ i - 1 < b
    BY <1>2
  <2>3. IdsOf(t) = {t[i].id : i \in 1 .. b}
    BY <1>2 DEF IdsOf
  <2>4. ASSUME NEW i \in IdsOf(t) PROVE i \in Nat /\ i < b
    <3>1. PICK x \in 1 .. b : i = t[x].id
      BY <2>3
    <3> QED
      BY <1>5, <2>2, <3>1
  <2>5. ASSUME NEW i \in Nat, i < b PROVE i \in IdsOf(t)
    <3>1. PICK x \in 1 .. b : i = x - 1
      BY <2>1, <2>5
    <3>2. i = t[x].id
      BY <1>5, <3>1
    <3> QED
      BY <2>3, <3>2
  <2> QED
    BY <2>4, <2>5
<1> DEFINE both == IdsOf(s) \cap IdsOf(t)
           entry(i, k) == [id |-> i, kind |-> k]
           apart == {j \in both : \E x \in DOMAIN s, y \in DOMAIN t :
                       s[x].id = j /\ t[y].id = j /\ s[x] # t[y]}
<1>8. \A j \in both : j \in apart <=> s[j + 1] # t[j + 1]
  <2> TAKE j \in both
  <2>1. j \in Nat /\ j < a /\ j < b
    BY <1>6, <1>7
  <2>2. /\ j + 1 \in 1 .. a /\ j + 1 \in 1 .. b
        /\ \A x \in 1 .. a : s[x].id = j <=> x = j + 1
        /\ \A y \in 1 .. b : t[y].id = j <=> y = j + 1
    BY <1>4, <1>5, <2>1
  <2>3. (\E x \in 1 .. a, y \in 1 .. b :
           s[x].id = j /\ t[y].id = j /\ s[x] # t[y])
          <=> s[j + 1] # t[j + 1]
    BY <2>2
  <2>4. j \in apart <=> \E x \in DOMAIN s, y \in DOMAIN t :
                          s[x].id = j /\ t[y].id = j /\ s[x] # t[y]
    OBVIOUS
  <2> HIDE DEF both, apart
  <2> QED
    BY <1>1, <1>2, <2>3, <2>4
<1>9. Differences(s, t) =
        {entry(i, "only_in_old") : i \in IdsOf(s) \ both}
          \cup {entry(i, "only_in_new") : i \in IdsOf(t) \ both}
          \cup {entry(i, "changed") : i \in apart}
  BY DEF Differences
<1>10. \A i \in Nat :
         /\ f[i] = "only_in_old" <=> i \in IdsOf(s) \ both
         /\ f[i] = "only_in_new" <=> i \in IdsOf(t) \ both
         /\ f[i] = "changed" <=> i \in apart
         /\ f[i] \in {"only_in_old", "only_in_new", "changed", "unchanged"}
  <2> TAKE i \in Nat
  <2>1. f[i] = IF i < a /\ i < b
               THEN IF s[i + 1] = t[i + 1] THEN "unchanged" ELSE "changed"
               ELSE IF i < a THEN "only_in_old"
               ELSE IF i < b THEN "only_in_new" ELSE "unchanged"
    BY <1>3 DEF Found
  <2>2. i \in apart <=> i < a /\ i < b /\ s[i + 1] # t[i + 1]
    BY <1>6, <1>7, <1>8
  <2>3. (i \in IdsOf(s) <=> i < a) /\ (i \in IdsOf(t) <=> i < b)
    BY <1>6, <1>7
  <2> HIDE DEF apart
  <2> QED
    BY <2>1, <2>2, <2>3
<1>11. /\ \A i \in IdsOf(s) \ both : i \in Nat
       /\ \A i \in IdsOf(t) \ both : i \in Nat
       /\ \A i \in apart : i \in Nat
  BY <1>6, <1>7
<1>12. Listed(f) = {entry(i, f[i]) : i \in {j \in Nat : f[j] # "unchanged"}}
  BY DEF Listed
<1> HIDE DEF both, entry, apart
<1>13. \A e : e \in Differences(s, t) <=>
         \E i \in Nat :
           \/ f[i] = "only_in_old" /\ e = entry(i, "only_in_old")
           \/ f[i] = "only_in_new" /\ e = entry(i, "only_in_new")
           \/ f[i] = "changed" /\ e = entry(i, "changed")
  BY <1>9, <1>10, <1>11
<1>14. \A e : e \in Listed(f) <=>
         \E i \in Nat : f[i] # "unchanged" /\ e = entry(i, f[i])
  BY <1>12
<1>15. \A e : e \in Listed(f) <=> e \in Differences(s, t)
  BY <1>10, <1>13, <1>14
<1>16. Differences(s, t) = Listed(f)
  BY <1>15
<1> QED
  BY <1>1, <1>2, <1>3, <1>16

\* The diff of a complete version lists exactly the events in which it differs
\* from the version before it, as far as that was read, once each and in the
\* order of the ids; also when the older one is the live output and grows
\* (replay.rs, diff).
THEOREM DiffsAreFaithful == Spec => []DiffIsFaithful
<1>1. ReplayInv /\ DiffInv => DiffIsFaithful
  <2> SUFFICES ASSUME ReplayInv, DiffInv, NEW v \in Versions \ {1},
                      HasPrevious(v), ~meta[v].torn
               PROVE  /\ Ascending(diff[v]) /\ seen[v] = Len(diff[v])
                      /\ ToSet(diff[v]) = Differences(Previous(v), out[v])
    BY DEF DiffIsFaithful
  <2>1. PICK p : p = meta[v].prev
    OBVIOUS
  <2>2. Older(p) /\ Faithful(v, out[p]) /\ Numbered(out[1])
    BY <2>1 DEF DiffInv, AllFaithful
  <2>3. PICK s \in Seq(LineSet) : s = out[p] /\ Numbered(s)
    BY <2>2, SidesNumbered
  <2>4. PICK t \in Seq(LineSet) : t = out[v] /\ Numbered(t)
    <3>1. Older(v)
      BY DEF Older, HasPrevious
    <3> QED
      BY <2>2, <3>1, SidesNumbered
  <2>5. PICK n \in 0 .. Len(s) : n = meta[v].read
    BY <2>2, <2>3 DEF Faithful
  <2>6. /\ Ascending(diff[v]) /\ seen[v] = Len(diff[v])
        /\ ToSet(diff[v]) = Listed(Found(s, t, n, Len(t)))
    BY <2>2, <2>3, <2>4, <2>5 DEF Faithful, Told
  <2>7. PICK q \in Seq(LineSet) : q = SubSeq(s, 1, n)
    <3>1. \A i \in 1 .. n : s[i] \in LineSet
      BY <2>5, LenProperties, ElementOfSeq
    <3>2. n \in Int /\ 1 \in Int
      BY <2>5, LenProperties
    <3> QED
      BY <3>1, <3>2, SubSeqProperties
  <2>8. /\ Len(q) = n /\ n \in Nat /\ Len(s) \in Nat
        /\ \A i \in 1 .. n : q[i] = s[i]
    BY <2>5, <2>7, SubSeqProperties, LenProperties
  <2>9. Numbered(q)
    <3>1. DOMAIN q = 1 .. n /\ \A i \in 1 .. n : i \in DOMAIN s
      BY <2>5, <2>8, LenProperties
    <3> QED
      BY <2>3, <2>8, <3>1 DEF Numbered
  <2>10. Found(q, t, n, Len(t)) = Found(s, t, n, Len(t))
    BY <2>8, FoundSame, LenProperties
  <2>11. Differences(q, t) = Listed(Found(q, t, n, Len(t)))
    BY <2>4, <2>8, <2>9, DifferencesAre
  <2>12. Previous(v) = q
    BY <2>1, <2>3, <2>5, <2>7 DEF Previous
  <2> QED
    BY <2>4, <2>6, <2>10, <2>11, <2>12
<1> QED
  BY <1>1, ReplayInvariant, DiffInvariant, PTL

-----------------------------------------------------------------------------
(* Pages: what a page begins with, what it finds, and that the walk over   *)
(* the pages takes every entry.                                            *)

\* The entries of d that a client wants which asks for those after an id.
WantedOf(d, after, kind) == {e \in ToSet(d) : Wanted(e, after, kind)}

\* A sequence with just these entries, in the order of their ids.
Gives(s, d, after, kind) ==
  /\ s \in Seq(Entries) /\ Ascending(s)
  /\ ToSet(s) = WantedOf(d, after, kind)

\* A page is read from an entry with nothing wanted before it.
LEMMA StartIs ==
  ASSUME NEW d \in Seq(Entries), Ascending(d), NEW n \in 0 .. Len(d),
         NEW after \in NoId .. MaxRecords
  PROVE  /\ StartOf(d, n, after) \in Nat \ {0}
         /\ \A i \in 1 .. Len(d) : i < StartOf(d, n, after) => d[i].id <= after
<1>1. PICK m \in Nat : m = Len(d)
  BY LenProperties
<1>2. DOMAIN d = 1 .. m /\ n \in Nat /\ n <= m
  BY <1>1, LenProperties
<1>3. \A i \in 1 .. m : d[i].id \in Nat
  <2>1. \A i \in 1 .. m : d[i] \in Entries
    BY <1>1, ElementOfSeq
  <2> QED
    BY <2>1, ReplayAssumption DEF Entries, Ids
<1>4. after \in Int
  BY ReplayAssumption DEF NoId
<1> DEFINE s == {i \in 1 .. n : i % Stride = 1 % Stride /\ d[i].id <= after}
           r == {n - i : i \in s}
<1>5. CASE s = {}
  <2>1. StartOf(d, n, after) = 1
    BY <1>5 DEF StartOf
  <2> HIDE DEF s, r
  <2> QED
    BY <1>1, <2>1
<1>6. CASE s # {}
  <2>1. r \subseteq Nat /\ r # {}
    BY <1>2, <1>6
  <2>2. \A i \in s : i \in 1 .. n /\ d[i].id <= after /\ n - i \in r
    OBVIOUS
  <2>3. \A x \in r : \E i \in s : x = n - i
    OBVIOUS
  <2>4. StartOf(d, n, after) = CHOOSE i \in s : \A j \in s : j <= i
    BY <1>6 DEF StartOf
  <2> HIDE DEF s, r
  <2>5. PICK x \in r : \A y \in r : x <= y
    BY <2>1, MinIs
  <2>6. PICK i \in s : x = n - i
    BY <2>3, <2>5
  <2>7. \A j \in s : j <= i
    <3> TAKE j \in s
    <3>1. n - i <= n - j
      BY <2>2, <2>5, <2>6
    <3> QED
      BY <3>1, <2>2, <1>2
  <2>8. StartOf(d, n, after) \in s
    BY <2>4, <2>7
  <2>9. PICK a \in s : a = StartOf(d, n, after)
    BY <2>8
  <2>10. a \in 1 .. m /\ d[a].id <= after
    BY <1>2, <2>2
  <2>11. ASSUME NEW j \in 1 .. m, j < a PROVE d[j].id <= after
    <3>1. d[j].id < d[a].id
      BY <1>2, <2>10, <2>11 DEF Ascending
    <3> QED
      BY <3>1, <1>3, <1>4, <2>10
  <2> QED
    BY <1>1, <2>9, <2>10, <2>11
<1> QED
  BY <1>5, <1>6

\* One entry of the file: what the page has found once it is read.
HitsStep(d, start, after, kind, h, i) ==
  IF i < start THEN << >>
  ELSE IF Wanted(d[i], after, kind) THEN Append(h[i - 1], d[i]) ELSE h[i - 1]

IsHits(h, d, start, after, kind) ==
  h = [i \in 0 .. Len(d) |-> HitsStep(d, start, after, kind, h, i)]

\* The equation of Hits has a solution.
LEMMA HitsExist ==
  ASSUME NEW d \in Seq(Entries), NEW start \in Nat \ {0}, NEW after, NEW kind
  PROVE  \E h : IsHits(h, d, start, after, kind)
<1>1. PICK m \in Nat : m = Len(d)
  BY LenProperties
<1> DEFINE Step(h, i) == HitsStep(d, start, after, kind, h, i)
           Sol(h, k) == h = [i \in 0 .. k |-> Step(h, i)]
           T == {k \in Nat : \E h : Sol(h, k)}
<1>2. 0 \in T
  <2> DEFINE h == [i \in 0 .. 0 |-> << >>]
  <2>1. \A i \in 0 .. 0 : Step(h, i) = << >>
    BY DEF HitsStep
  <2> HIDE DEF Step
  <2>2. Sol(h, 0)
    BY <2>1
  <2> QED
    BY <2>2
<1>3. ASSUME NEW k \in Nat, k < m, k \in T PROVE k + 1 \in T
  <2>1. PICK h : Sol(h, k)
    BY <1>3
  <2> DEFINE g == [i \in 0 .. k + 1 |-> IF i = k + 1 THEN Step(h, k + 1)
                                         ELSE h[i]]
  <2>2. \A i \in 0 .. k + 1 : i - 1 \in 0 .. k => g[i - 1] = h[i - 1]
    OBVIOUS
  <2>3. \A i \in 0 .. k + 1 : Step(g, i) = Step(h, i)
    <3> SUFFICES ASSUME NEW i \in 0 .. k + 1 PROVE Step(g, i) = Step(h, i)
      OBVIOUS
    <3>1. CASE i < start
      BY <3>1 DEF HitsStep
    <3>2. CASE ~(i < start)
      <4>1. i - 1 \in 0 .. k
        BY <3>2
      <4> HIDE DEF g
      <4> QED
        BY <2>2, <3>2, <4>1 DEF HitsStep
    <3> QED
      BY <3>1, <3>2
  <2>4. \A i \in 0 .. k : h[i] = Step(h, i)
    <3> HIDE DEF Step
    <3> QED
      BY <2>1
  <2> HIDE DEF Step
  <2>5. \A i \in 0 .. k + 1 : g[i] = Step(g, i)
    BY <2>3, <2>4
  <2>6. Sol(g, k + 1)
    BY <2>5
  <2> HIDE DEF Sol
  <2> QED
    BY <2>6
<1> HIDE DEF T
<1>4. \A k \in Nat : k <= m => k \in T
  BY <1>2, <1>3, Induction
<1>5. m \in T
  BY <1>4
<1> QED
  BY <1>1, <1>5 DEF T, IsHits

\* A page finds what is wanted, from the first of them on.
LEMMA HitsGive ==
  ASSUME NEW d \in Seq(Entries), Ascending(d), NEW n \in 0 .. Len(d),
         NEW after \in NoId .. MaxRecords, NEW kind
  PROVE  Gives(Hits(d, n, after, kind), d, after, kind)
<1>1. PICK m \in Nat : m = Len(d)
  BY LenProperties
<1>2. PICK start \in Nat \ {0} : start = StartOf(d, n, after)
  BY StartIs
<1>3. \A i \in 1 .. m : i < start => d[i].id <= after
  BY <1>1, <1>2, StartIs
<1>4. \A i \in 1 .. m : d[i] \in Entries /\ d[i].id \in Int
  <2>1. \A i \in 1 .. m : d[i] \in Entries
    BY <1>1, ElementOfSeq
  <2> QED
    BY <2>1, ReplayAssumption DEF Entries, Ids
<1>5. after \in Int /\ DOMAIN d = 1 .. m
  BY <1>1, LenProperties, ReplayAssumption DEF NoId
<1> DEFINE h == CHOOSE g : g = [i \in 0 .. Len(d) |->
                  IF i < start THEN << >>
                  ELSE IF Wanted(d[i], after, kind)
                  THEN Append(g[i - 1], d[i]) ELSE g[i - 1]]
<1>6. h = [i \in 0 .. Len(d) |->
             IF i < start THEN << >>
             ELSE IF Wanted(d[i], after, kind)
             THEN Append(h[i - 1], d[i]) ELSE h[i - 1]]
  <2>1. PICK g : IsHits(g, d, start, after, kind)
    BY HitsExist
  <2>2. g = [i \in 0 .. Len(d) |->
               IF i < start THEN << >>
               ELSE IF Wanted(d[i], after, kind)
               THEN Append(g[i - 1], d[i]) ELSE g[i - 1]]
    BY <2>1, Zenon DEF IsHits, HitsStep
  <2> QED
    BY <2>2, Zenon
<1>7. Hits(d, n, after, kind) = h[Len(d)]
  BY <1>2, Zenon DEF Hits
<1> HIDE DEF h
<1>8. \A i \in 0 .. m : h[i] = HitsStep(d, start, after, kind, h, i)
  <2> SUFFICES ASSUME NEW i \in 0 .. m
               PROVE  h[i] = HitsStep(d, start, after, kind, h, i)
    OBVIOUS
  <2> DEFINE v(j) == IF j < start THEN << >>
                     ELSE IF Wanted(d[j], after, kind)
                     THEN Append(h[j - 1], d[j]) ELSE h[j - 1]
  <2>1. h = [j \in 0 .. m |-> v(j)]
    BY <1>1, <1>6, Zenon
  <2> HIDE DEF v
  <2>2. h[i] = v(i)
    BY <2>1, Zenon
  <2> QED
    BY <2>2 DEF v, HitsStep
\* What is wanted of the first k entries.
<1> DEFINE W(k) == {d[i] : i \in {j \in 1 .. k : Wanted(d[j], after, kind)}}
           Good(k) == /\ h[k] \in Seq(Entries) /\ Ascending(h[k])
                      /\ ToSet(h[k]) = W(k)
           T == {k \in Nat : k <= m => Good(k)}
<1>9. << >> \in Seq(Entries) /\ Ascending(<< >>) /\ ToSet(<< >>) = {}
  BY DEF Ascending, ToSet
<1>10. \A k \in Nat : k <= m /\ k < start => W(k) = {}
  BY <1>3, <1>4, <1>5 DEF Wanted
<1>11. 0 \in T
  <2>1. h[0] = << >>
    BY <1>8 DEF HitsStep
  <2>2. W(0) = {}
    OBVIOUS
  <2>3. Good(0)
    BY <1>9, <2>1, <2>2, Zenon
  <2> HIDE DEF Good
  <2> QED
    BY <2>3
<1>12. ASSUME NEW k \in Nat, k < m, k \in T PROVE k + 1 \in T
  <2>1. /\ h[k] \in Seq(Entries) /\ Ascending(h[k]) /\ ToSet(h[k]) = W(k)
        /\ k + 1 \in 1 .. m /\ k + 1 \in 0 .. m /\ (k + 1) - 1 = k
    BY <1>12
  <2>2. PICK e \in Entries : e = d[k + 1]
    BY <1>4, <2>1
  <2>3. \A x \in W(k) : x.id < e.id
    <3>1. \A i \in 1 .. k : i \in 1 .. m /\ i < k + 1
      BY <2>1
    <3>2. \A i \in 1 .. k : d[i].id < e.id
      BY <1>5, <2>1, <2>2, <3>1 DEF Ascending
    <3> QED
      BY <3>2
  <2>4. W(k + 1) = IF Wanted(e, after, kind) THEN W(k) \cup {e} ELSE W(k)
    <3>1. \A i \in 1 .. k + 1 : i \in 1 .. k \/ i = k + 1
      OBVIOUS
    <3>2. 1 .. k \subseteq 1 .. k + 1 /\ k + 1 \in 1 .. k + 1
      OBVIOUS
    <3> QED
      BY <2>2, <3>1, <3>2
  <2> HIDE DEF W
  <2>5. h[k + 1] = IF k + 1 < start THEN << >>
                   ELSE IF Wanted(e, after, kind) THEN Append(h[k], e)
                   ELSE h[k]
    BY <1>8, <2>1, <2>2 DEF HitsStep
  <2>6. ASSUME k + 1 < start PROVE Good(k + 1)
    <3>1. h[k + 1] = << >>
      BY <2>5, <2>6
    <3>2. W(k + 1) = {}
      BY <1>10, <2>1, <2>6
    <3> QED
      BY <1>9, <3>1, <3>2, Zenon
  <2>7. ASSUME ~(k + 1 < start), Wanted(e, after, kind) PROVE Good(k + 1)
    <3>1. /\ Ascending(Append(h[k], e))
          /\ ToSet(Append(h[k], e)) = W(k) \cup {e}
      BY <2>1, <2>3, AscendingMore
    <3>2. Append(h[k], e) \in Seq(Entries)
      BY <2>1, AppendProperties
    <3>3. h[k + 1] = Append(h[k], e) /\ W(k + 1) = W(k) \cup {e}
      BY <2>4, <2>5, <2>7
    <3> QED
      BY <3>1, <3>2, <3>3, Zenon
  <2>8. ASSUME ~(k + 1 < start), ~Wanted(e, after, kind) PROVE Good(k + 1)
    <3>1. h[k + 1] = h[k] /\ W(k + 1) = W(k)
      BY <2>4, <2>5, <2>8
    <3> QED
      BY <2>1, <3>1, Zenon
  <2>9. Good(k + 1)
    BY <2>6, <2>7, <2>8
  <2> HIDE DEF Good
  <2> QED
    BY <2>9
<1>13. W(m) = WantedOf(d, after, kind)
  BY <1>5 DEF WantedOf, ToSet
<1> HIDE DEF T
<1>14. \A k \in Nat : k <= m => k \in T
  BY <1>11, <1>12, Induction
<1>15. Good(m)
  <2> HIDE DEF Good
  <2> QED
    BY <1>14 DEF T
<1> HIDE DEF W
<1> QED
  BY <1>1, <1>7, <1>13, <1>15, Zenon DEF Gives

\* One page: what it finds, or the first of it and the pages after.
WalkStep(d, n, limit, kind, w, after) ==
  LET hits == Hits(d, n, after, kind)
      next == NextAfter(hits, limit)
  IN  IF next = NoId THEN hits ELSE SubSeq(hits, 1, limit) \o w[next]

IsWalk(w, d, n, limit, kind) ==
  w = [a \in NoId .. MaxRecords |-> WalkStep(d, n, limit, kind, w, a)]

\* A page that is not the last one holds what is wanted up to its last id,
\* which is after the one it was asked for with.
LEMMA PageIs ==
  ASSUME NEW d \in Seq(Entries), Ascending(d), NEW n \in 0 .. Len(d),
         NEW limit \in Nat \ {0}, NEW after \in NoId .. MaxRecords, NEW kind,
         NEW hits, hits = Hits(d, n, after, kind),
         NEW next, next = NextAfter(hits, limit), next # NoId
  PROVE  /\ next \in Ids /\ after < next
         /\ SubSeq(hits, 1, limit) \in Seq(Entries)
         /\ Ascending(SubSeq(hits, 1, limit))
         /\ ToSet(SubSeq(hits, 1, limit))
              = {e \in WantedOf(d, after, kind) : e.id <= next}
<1>1. Gives(hits, d, after, kind)
  BY HitsGive
<1>2. PICK m \in Nat : m = Len(hits)
  BY <1>1, LenProperties DEF Gives
<1>3. limit < m /\ next = hits[limit].id
  BY <1>2 DEF NextAfter
<1>4. DOMAIN hits = 1 .. m /\ \A i \in 1 .. m : hits[i] \in Entries
  BY <1>1, <1>2, LenProperties, ElementOfSeq DEF Gives
<1>5. \A i \in 1 .. m : hits[i].id \in Ids /\ hits[i].id \in Int
  BY <1>4, ReplayAssumption DEF Entries, Ids
<1>6. limit \in 1 .. m /\ 1 .. limit \subseteq 1 .. m
  BY <1>3
<1>7. ToSet(hits) = {hits[i] : i \in 1 .. m}
  BY <1>4 DEF ToSet
<1>8. after < next
  <2>1. hits[limit] \in WantedOf(d, after, kind)
    BY <1>1, <1>6, <1>7 DEF Gives
  <2>2. hits[limit].id > after
    BY <2>1 DEF WantedOf, Wanted
  <2> QED
    BY <1>3, <1>5, <1>6, <2>2, ReplayAssumption DEF NoId
<1>9. PICK q \in Seq(Entries) : q = SubSeq(hits, 1, limit)
  <2>1. \A i \in 1 .. limit : hits[i] \in Entries
    BY <1>4, <1>6
  <2>2. limit \in Int /\ 1 \in Int
    OBVIOUS
  <2> QED
    BY <1>1, <2>1, <2>2, SubSeqProperties DEF Gives
<1>10. /\ DOMAIN q = 1 .. limit
       /\ \A i \in 1 .. limit : q[i] = hits[i]
  <2>1. Len(q) = limit
    BY <1>1, <1>4, <1>6, <1>9, SubSeqProperties, LenProperties DEF Gives
  <2> QED
    BY <1>1, <1>4, <1>6, <1>9, <2>1, SubSeqProperties, LenProperties DEF Gives
<1>11. \A i, j \in 1 .. m : i < j => hits[i].id < hits[j].id
  BY <1>1, <1>4 DEF Gives, Ascending
<1>12. Ascending(q)
  BY <1>6, <1>10, <1>11 DEF Ascending
<1>13. ToSet(q) = {hits[i] : i \in 1 .. limit}
  BY <1>10 DEF ToSet
<1>14. \A i \in 1 .. m : hits[i].id <= next <=> i \in 1 .. limit
  <2> TAKE i \in 1 .. m
  <2>1. CASE i < limit
    BY <1>3, <1>5, <1>6, <1>11, <2>1
  <2>2. CASE i = limit
    BY <1>3, <1>5, <1>6, <2>2
  <2>3. CASE limit < i
    BY <1>3, <1>5, <1>6, <1>11, <2>3
  <2> QED
    BY <1>6, <2>1, <2>2, <2>3
<1>15. ToSet(q) = {e \in ToSet(hits) : e.id <= next}
  BY <1>6, <1>7, <1>13, <1>14
<1> QED
  BY <1>1, <1>3, <1>5, <1>6, <1>8, <1>9, <1>12, <1>15 DEF Gives

\* Asked beyond the last id, a page is empty and the last one.
LEMMA LastPageIs ==
  ASSUME NEW d \in Seq(Entries), Ascending(d), NEW n \in 0 .. Len(d),
         NEW limit \in Nat \ {0}, NEW kind
  PROVE  NextAfter(Hits(d, n, MaxRecords, kind), limit) = NoId
<1> SUFFICES ASSUME NextAfter(Hits(d, n, MaxRecords, kind), limit) # NoId
             PROVE  FALSE
  OBVIOUS
<1>1. MaxRecords \in NoId .. MaxRecords
  BY ReplayAssumption DEF NoId
<1>2. PICK next : /\ next = NextAfter(Hits(d, n, MaxRecords, kind), limit)
                  /\ next \in Ids /\ MaxRecords < next
  BY <1>1, PageIs
<1> QED
  BY <1>2, ReplayAssumption DEF Ids

\* The entries of one sequence, and of another one all behind them.
LEMMA AscendingConcat ==
  ASSUME NEW a \in Seq(Entries), NEW b \in Seq(Entries),
         Ascending(a), Ascending(b),
         \A x \in ToSet(a), y \in ToSet(b) : x.id < y.id
  PROVE  /\ a \o b \in Seq(Entries) /\ Ascending(a \o b)
         /\ ToSet(a \o b) = ToSet(a) \cup ToSet(b)
<1>1. PICK m \in Nat, k \in Nat : m = Len(a) /\ k = Len(b)
  BY LenProperties
<1>2. PICK c \in Seq(Entries) : c = a \o b
  BY ConcatProperties
<1>3. /\ DOMAIN a = 1 .. m /\ DOMAIN b = 1 .. k /\ DOMAIN c = 1 .. m + k
      /\ \A i \in 1 .. m + k : c[i] = IF i <= m THEN a[i] ELSE b[i - m]
  BY <1>1, <1>2, ConcatProperties, LenProperties
<1>4. /\ ToSet(a) = {a[i] : i \in 1 .. m} /\ ToSet(b) = {b[i] : i \in 1 .. k}
      /\ ToSet(c) = {c[i] : i \in 1 .. m + k}
  BY <1>3 DEF ToSet
<1>5. \A i \in 1 .. m + k : IF i <= m THEN i \in 1 .. m ELSE i - m \in 1 .. k
  OBVIOUS
<1>6. /\ \A i \in 1 .. m : i \in 1 .. m + k /\ c[i] = a[i]
      /\ \A i \in 1 .. k : m + i \in 1 .. m + k /\ c[m + i] = b[i]
  <2>1. \A i \in 1 .. k : m + i \in 1 .. m + k /\ ~(m + i <= m)
                            /\ (m + i) - m = i
    OBVIOUS
  <2> QED
    BY <1>3, <2>1
<1>7. ToSet(c) = ToSet(a) \cup ToSet(b)
  <2>1. \A i \in 1 .. m + k : c[i] \in ToSet(a) \cup ToSet(b)
    BY <1>3, <1>4, <1>5
  <2>2. \A i \in 1 .. m : a[i] \in ToSet(c)
    BY <1>4, <1>6
  <2>3. \A i \in 1 .. k : b[i] \in ToSet(c)
    BY <1>4, <1>6
  <2> QED
    BY <1>4, <2>1, <2>2, <2>3
<1>8. ASSUME NEW i \in 1 .. m + k, NEW j \in 1 .. m + k, i < j
      PROVE  c[i].id < c[j].id
  <2>1. CASE j <= m
    <3>1. i \in 1 .. m /\ j \in 1 .. m
      BY <1>8, <2>1
    <3> QED
      BY <1>3, <1>6, <1>8, <3>1 DEF Ascending
  <2>2. CASE i <= m /\ ~(j <= m)
    <3>1. i \in 1 .. m /\ j - m \in 1 .. k
      BY <2>2
    <3>2. c[i] \in ToSet(a) /\ c[j] \in ToSet(b)
      BY <1>3, <1>4, <2>2, <3>1
    <3> QED
      BY <3>2
  <2>3. CASE ~(i <= m)
    <3>1. i - m \in 1 .. k /\ j - m \in 1 .. k /\ i - m < j - m /\ ~(j <= m)
      BY <1>8, <2>3
    <3>2. c[i] = b[i - m] /\ c[j] = b[j - m]
      BY <1>3, <2>3, <3>1
    <3> QED
      BY <1>3, <3>1, <3>2 DEF Ascending
  <2> QED
    BY <2>1, <2>2, <2>3
<1> QED
  BY <1>2, <1>3, <1>7, <1>8 DEF Ascending

\* A solution of the equation of Walk takes all that is wanted.
LEMMA WalkGives ==
  ASSUME NEW d \in Seq(Entries), Ascending(d), NEW n \in 0 .. Len(d),
         NEW limit \in Nat \ {0}, NEW kind, NEW w,
         \A a \in NoId .. MaxRecords :
           w[a] = WalkStep(d, n, limit, kind, w, a)
  PROVE  \A a \in NoId .. MaxRecords : Gives(w[a], d, a, kind)
<1> DEFINE T == {k \in Nat : k <= MaxRecords + 1 =>
                   Gives(w[MaxRecords - k], d, MaxRecords - k, kind)}
<1>1. MaxRecords \in Nat /\ MaxRecords + 1 \in Nat
  BY ReplayAssumption
<1>2. ASSUME NEW k \in Nat, \A j \in Nat : j < k => j \in T
      PROVE  k \in T
  <2> SUFFICES ASSUME k <= MaxRecords + 1
               PROVE  Gives(w[MaxRecords - k], d, MaxRecords - k, kind)
    OBVIOUS
  <2>1. PICK a \in NoId .. MaxRecords : a = MaxRecords - k
    BY <1>1 DEF NoId
  <2>2. ASSUME NEW x \in Ids, a < x PROVE Gives(w[x], d, x, kind)
    <3>1. PICK j \in Nat : j = MaxRecords - x
      BY <1>1 DEF Ids
    <3>2. j < k /\ j <= MaxRecords + 1 /\ MaxRecords - j = x
      BY <1>1, <2>1, <2>2, <3>1 DEF Ids, NoId
    <3> QED
      BY <1>2, <3>2
  <2> HIDE DEF T
  <2>3. PICK hits : hits = Hits(d, n, a, kind)
    OBVIOUS
  <2>4. PICK next : next = NextAfter(hits, limit)
    OBVIOUS
  <2>5. w[a] = IF next = NoId THEN hits
               ELSE SubSeq(hits, 1, limit) \o w[next]
    BY <2>3, <2>4 DEF WalkStep
  <2>6. CASE next = NoId
    BY <2>1, <2>3, <2>5, <2>6, HitsGive
  <2>7. CASE next # NoId
    <3>1. PICK q : q = SubSeq(hits, 1, limit)
      OBVIOUS
    <3>2. /\ next \in Ids /\ a < next /\ q \in Seq(Entries) /\ Ascending(q)
          /\ ToSet(q) = {e \in WantedOf(d, a, kind) : e.id <= next}
      BY <2>3, <2>4, <2>7, <3>1, PageIs
    <3>3. Gives(w[next], d, next, kind)
      BY <2>2, <3>2
    <3>4. \A e \in ToSet(d) : e.id \in Int
      <4>1. \A i \in 1 .. Len(d) : d[i] \in Entries
        BY ElementOfSeq
      <4>2. \A e \in ToSet(d) : e \in Entries
        BY <4>1, LenProperties DEF ToSet
      <4> QED
        BY <4>2, ReplayAssumption DEF Entries, Ids
    <3>5. a \in Int /\ next \in Int
      BY <3>2, ReplayAssumption DEF NoId, Ids
    <3>6. \A x \in ToSet(q), y \in ToSet(w[next]) : x.id < y.id
      BY <3>2, <3>3, <3>4, <3>5 DEF Gives, WantedOf, Wanted
    <3>7. WantedOf(d, a, kind) = ToSet(q) \cup WantedOf(d, next, kind)
      BY <3>2, <3>4, <3>5 DEF WantedOf, Wanted
    <3>8. Gives(q \o w[next], d, a, kind)
      BY <3>2, <3>3, <3>6, <3>7, AscendingConcat DEF Gives
    <3> QED
      BY <2>1, <2>5, <2>7, <3>1, <3>8
  <2> QED
    BY <2>6, <2>7
<1> HIDE DEF T
<1>3. \A k \in Nat : k \in T
  BY <1>2, StrongInduction
<1>4. ASSUME NEW a \in NoId .. MaxRecords PROVE Gives(w[a], d, a, kind)
  <2>1. PICK k \in Nat : k = MaxRecords - a
    BY <1>1 DEF NoId
  <2>2. k <= MaxRecords + 1 /\ MaxRecords - k = a
    BY <1>1, <2>1 DEF NoId
  <2> QED
    BY <1>3, <2>2 DEF T
<1> QED
  BY <1>4

\* The equation of Walk has a solution: a page asks only for later ones.
LEMMA WalkExists ==
  ASSUME NEW d \in Seq(Entries), Ascending(d), NEW n \in 0 .. Len(d),
         NEW limit \in Nat \ {0}, NEW kind
  PROVE  \E w : IsWalk(w, d, n, limit, kind)
<1> DEFINE M == MaxRecords
           Step(w, a) == WalkStep(d, n, limit, kind, w, a)
           Sol(w, k) == w = [a \in M - k .. M |-> Step(w, a)]
           T == {k \in Nat : \E w : Sol(w, k)}
<1>1. M \in Nat /\ M + 1 \in Nat /\ M - (M + 1) = NoId
  BY ReplayAssumption DEF NoId
<1> HIDE DEF M
<1>2. 0 \in T
  <2> DEFINE w == [a \in M - 0 .. M |-> Hits(d, n, M, kind)]
  <2>1. \A a \in M - 0 .. M : a = M
    BY <1>1
  <2>2. \A v : Step(v, M) = Hits(d, n, M, kind)
    BY LastPageIs DEF WalkStep, M
  <2> HIDE DEF Step
  <2>3. w = [a \in M - 0 .. M |-> Step(w, a)]
    BY <2>1, <2>2
  <2> QED
    BY <2>3
<1>3. ASSUME NEW k \in Nat, k < M + 1, k \in T PROVE k + 1 \in T
  <2>1. PICK w : Sol(w, k)
    BY <1>3
  <2>2. PICK b \in NoId .. M : b = M - (k + 1)
    BY <1>1, <1>3
  <2>3. b \in Int /\ b < M - k /\ \A a \in b .. M : a = b \/ a \in M - k .. M
    BY <1>1, <2>2
  <2>4. M - k .. M \subseteq b .. M /\ b \in b .. M /\ b \notin M - k .. M
    BY <1>1, <2>2, <2>3
  <2> DEFINE g == [a \in b .. M |-> IF a = b THEN Step(w, b) ELSE w[a]]
  <2>5. \A a \in M - k .. M : g[a] = w[a]
    <3> HIDE DEF Step
    <3> QED
      BY <2>4
  <2>6. \A a \in b .. M : Step(g, a) = Step(w, a)
    <3> SUFFICES ASSUME NEW a \in b .. M PROVE Step(g, a) = Step(w, a)
      OBVIOUS
    <3>1. PICK next : next = NextAfter(Hits(d, n, a, kind), limit)
      OBVIOUS
    <3>2. CASE next = NoId
      BY <3>1, <3>2 DEF WalkStep
    <3>3. CASE next # NoId
      <4>1. a \in NoId .. MaxRecords
        BY <1>1, <2>2, <2>3 DEF M, NoId
      <4>2. next \in Ids /\ a < next
        BY <3>1, <3>3, <4>1, PageIs
      <4>3. next \in M - k .. M
        <5>1. next \in Nat /\ next <= M /\ a \in Int /\ b <= a
          BY <2>3, <4>2, ReplayAssumption DEF Ids, M
        <5>2. next \in b .. M /\ next # b
          BY <1>1, <2>3, <4>2, <5>1
        <5> QED
          BY <2>3, <5>2
      <4> HIDE DEF g
      <4>4. g[next] = w[next]
        BY <2>5, <4>3
      <4> QED
        BY <3>1, <4>4 DEF WalkStep
    <3> QED
      BY <3>2, <3>3
  <2> HIDE DEF Step
  <2>7. \A a \in M - k .. M : w[a] = Step(w, a)
    BY <2>1
  <2>8. \A a \in b .. M : g[a] = Step(g, a)
    BY <2>3, <2>6, <2>7
  <2>9. Sol(g, k + 1)
    BY <2>2, <2>8
  <2> HIDE DEF Sol
  <2> QED
    BY <2>9
<1>4. \A k \in Nat : k <= M + 1 => k \in T
  <2> HIDE DEF T
  <2> QED
    BY <1>1, <1>2, <1>3, Induction
<1>5. \E w : Sol(w, M + 1)
  <2> HIDE DEF Sol
  <2> QED
    BY <1>1, <1>4
<1> QED
  BY <1>1, <1>5 DEF M, IsWalk

\* So a client that follows next_after gets all it wants.
LEMMA WalkIs ==
  ASSUME NEW d \in Seq(Entries), Ascending(d), NEW n \in 0 .. Len(d),
         NEW limit \in Nat \ {0}, NEW kind
  PROVE  Gives(Walk(d, n, limit, kind), d, NoId, kind)
<1> DEFINE w == CHOOSE v : v = [after \in NoId .. MaxRecords |->
                  LET hits == Hits(d, n, after, kind)
                      next == NextAfter(hits, limit)
                  IN  IF next = NoId THEN hits
                      ELSE SubSeq(hits, 1, limit) \o v[next]]
<1>1. w = [after \in NoId .. MaxRecords |->
             LET hits == Hits(d, n, after, kind)
                 next == NextAfter(hits, limit)
             IN  IF next = NoId THEN hits
                 ELSE SubSeq(hits, 1, limit) \o w[next]]
  <2>1. PICK v : IsWalk(v, d, n, limit, kind)
    BY WalkExists
  <2>2. v = [after \in NoId .. MaxRecords |->
               LET hits == Hits(d, n, after, kind)
                   next == NextAfter(hits, limit)
               IN  IF next = NoId THEN hits
                   ELSE SubSeq(hits, 1, limit) \o v[next]]
    BY <2>1, Zenon DEF IsWalk, WalkStep
  <2> QED
    BY <2>2, Zenon
<1>2. Walk(d, n, limit, kind) = w[NoId]
  BY Zenon DEF Walk
<1> HIDE DEF w
<1>3. w = [a \in NoId .. MaxRecords |-> WalkStep(d, n, limit, kind, w, a)]
  BY <1>1, Zenon DEF WalkStep
<1>4. \A a \in NoId .. MaxRecords :
        w[a] = WalkStep(d, n, limit, kind, w, a)
  <2> DEFINE s(a) == WalkStep(d, n, limit, kind, w, a)
  <2>1. w = [a \in NoId .. MaxRecords |-> s(a)]
    BY <1>3, Zenon
  <2> HIDE DEF s
  <2>2. \A a \in NoId .. MaxRecords : w[a] = s(a)
    BY <2>1, Zenon
  <2> QED
    BY <2>2 DEF s
<1>5. NoId \in NoId .. MaxRecords
  BY ReplayAssumption DEF NoId
<1>6. Gives(w[NoId], d, NoId, kind)
  BY <1>4, <1>5, WalkGives
<1> QED
  BY <1>2, <1>6

\* Following next_after from the first page yields every entry of a complete
\* diff, or those of the kind asked for, once and in the order of the ids,
\* whatever the page size and however old the index is (engine.rs,
\* replay_diff; replay.rs, page).
THEOREM PagesTakeAll == Spec => []PagesAreWhole
<1>1. ReplayInv /\ DiffInv => PagesAreWhole
  <2> SUFFICES ASSUME ReplayInv, DiffInv, NEW v \in Versions \ {1},
                      HasPrevious(v), ~meta[v].torn,
                      NEW limit \in Limits, NEW kind \in Kinds \cup {"all"},
                      NEW w,
                      w = Walk(diff[v], IF index[v] = NoIndex THEN seen[v]
                                        ELSE index[v], limit, kind)
               PROVE  /\ Ascending(w)
                      /\ ToSet(w) = {e \in ToSet(diff[v]) :
                                       kind \in {"all", e.kind}}
    BY DEF PagesAreWhole
  <2>1. PICK d \in Seq(Entries) : d = diff[v]
    BY DEF ReplayInv, FilesTyped
  <2>2. Ascending(d) /\ seen[v] = Len(d)
    BY <2>1 DEF DiffInv, AllFaithful, Faithful, Told
  <2>3. PICK n \in 0 .. Len(d) :
          n = IF index[v] = NoIndex THEN seen[v] ELSE index[v]
    <3>1. index[v] \in NoIndex .. Len(d)
      BY <2>1 DEF ReplayInv, DiffsCounted
    <3> QED
      BY <2>2, <3>1, LenProperties DEF NoIndex
  <2>4. limit \in Nat \ {0}
    BY ReplayAssumption
  <2>5. Gives(w, d, NoId, kind)
    BY <2>1, <2>2, <2>3, <2>4, WalkIs
  <2>6. \A e \in ToSet(d) : e.id > NoId
    <3>1. \A i \in 1 .. Len(d) : d[i] \in Entries
      BY ElementOfSeq
    <3>2. \A e \in ToSet(d) : e \in Entries
      BY <3>1, LenProperties DEF ToSet
    <3> QED
      BY <3>2, ReplayAssumption DEF Entries, Ids, NoId
  <2> QED
    BY <2>1, <2>5, <2>6 DEF Gives, WantedOf, Wanted
<1> QED
  BY <1>1, ReplayInvariant, DiffInvariant, PTL
=============================================================================
