---------------------------- MODULE TailerProofs ----------------------------
(***************************************************************************)
(* The tailer (module Tailer) stores every watched file once, byte for     *)
(* byte, and cuts it only where an event ends: for any files, texts, batch *)
(* size and tick counts, any number of starts, kills and failed opens, and *)
(* any appends while a file is read.  What the framer gives is taken from  *)
(* module FramerProofs.                                                    *)
(*                                                                         *)
(* The one assumption is that no two watched files have the same name: the *)
(* store tells sources apart by name, so the offsets of two files that     *)
(* share one are added up.                                                 *)
(***************************************************************************)
EXTENDS Tailer, FramerProofs

\* No two watched files have the same name.
DistinctNames ==
  \A f, g \in Files : SourceName[f] = SourceName[g] => f = g

Bytestring == Seq(STRING)

\* The text f is a prefix of.
Whole(f) == Texts[f][text[f]]

-----------------------------------------------------------------------------
(* The inductive invariant.                                                *)

Entries == [consumed : Nat, last : Nat, stable : Nat, growing : Nat,
            seen : BOOLEAN]

Jobs == [file : Files \cup {"none"}, at : {"none", "open", "store"},
         seen : Nat, final : BOOLEAN, left : Seq(Bytestring)]

\* The types, in full.
Typed ==
  /\ text \in [Files -> Nat] /\ size \in [Files -> Nat]
  /\ \A f \in Files : text[f] \in 1 .. Len(Texts[f])
                      /\ size[f] <= Len(Whole(f))
  /\ up \in BOOLEAN /\ todo \subseteq Files /\ spoiled \subseteq Files
  /\ resume \in [Files -> Nat] /\ entry \in [Files -> Entries]
  /\ job \in Jobs /\ stored \in [Files -> Seq(Bytestring)]

\* A call of ingest_file works on a file that the process has looked at.
Working ==
  job.at # "none" => up /\ job.file \in Files /\ entry[job.file].seen

\* events are the first bytes of f.
Begin(f, events) ==
  /\ Bytes(events) <= size[f]
  /\ FlattenSeq(events) = SubSeq(Whole(f), 1, Bytes(events))

\* The offset is what is stored, before f is looked at and after it.
OffsetKnown(f) ==
  /\ up /\ ~entry[f].seen => resume[f] = Bytes(stored[f])
  /\ entry[f].seen => entry[f].consumed = Bytes(stored[f])
  /\ ~entry[f].seen => entry[f].consumed = 0 /\ entry[f].stable = 0

\* The last quiet tick starts a final job.
QuietIsFinal(f) ==
  entry[f].stable >= StableTicks =>
    entry[f].stable = StableTicks /\ job.at # "none" /\ job.file = f
    /\ job.final

\* What is stored of f and what the job has left is a piece of f from its
\* start, and unless the job is final, one that ends an event.
JobContinues(f) ==
  job.at = "store" /\ job.file = f =>
    /\ Begin(f, stored[f] \o job.left)
    /\ ~job.final /\ job.left # << >> =>
         /\ Bytes(stored[f] \o job.left) < size[f]
         /\ ~IsContinuation(Whole(f)[Bytes(stored[f] \o job.left) + 1])

Unspoiled(f) ==
  Begin(f, stored[f]) /\ OffsetKnown(f) /\ QuietIsFinal(f) /\ JobContinues(f)

TailerInv == Typed /\ Working /\ \A f \in Files \ spoiled : Unspoiled(f)
-----------------------------------------------------------------------------
(* Bytes.                                                                  *)

\* The smaller of two numbers.
LEMMA MinOfTwo ==
  ASSUME NEW a \in Nat, NEW b \in Nat
  PROVE  Min({a, b}) = IF a <= b THEN a ELSE b
<1>1. Min({a, b}) \in {a, b} /\ \A n \in {a, b} : Min({a, b}) <= n
  <2>1. {a, b} \subseteq Nat /\ {a, b} # {}
    OBVIOUS
  <2> HIDE DEF Min
  <2> QED
    BY <2>1, MinIs
<1> HIDE DEF Min
<1> QED
  BY <1>1

\* A count of bytes is a number.
LEMMA BytesType ==
  ASSUME NEW S, NEW x \in Seq(Seq(S))
  PROVE  Bytes(x) \in Nat /\ FlattenSeq(x) \in Seq(S)
BY FlatType, LenProperties DEF Bytes

\* The bytes of two runs of events are added up.
LEMMA BytesConcat ==
  ASSUME NEW S, NEW x \in Seq(Seq(S)), NEW y \in Seq(Seq(S))
  PROVE  x \o y \in Seq(Seq(S)) /\ Bytes(x \o y) = Bytes(x) + Bytes(y)
<1>1. FlattenSeq(x) \in Seq(S) /\ FlattenSeq(y) \in Seq(S)
  BY FlatType
<1>2. FlattenSeq(x \o y) = FlattenSeq(x) \o FlattenSeq(y)
  BY FlatConcat
<1>3. x \o y \in Seq(Seq(S))
  BY ConcatProperties
<1> QED
  BY <1>1, <1>2, <1>3, ConcatProperties DEF Bytes

\* The first bytes of the first bytes.
LEMMA FrontOfFront ==
  ASSUME NEW S, NEW w \in Seq(S), NEW m \in 0 .. Len(w), NEW n \in 0 .. m
  PROVE  SubSeq(SubSeq(w, 1, m), 1, n) = SubSeq(w, 1, n)
<1>1. CASE n = 0
  BY <1>1, SubSeqEmpty
<1>2. CASE n # 0
  <2>1. /\ 1 \in 1 .. Len(w) /\ m \in 1 .. Len(w)
        /\ 1 \in 1 .. m - 1 + 1 /\ n \in 1 .. m - 1 + 1
    BY <1>2, LenProperties
  <2>2. SubSeq(SubSeq(w, 1, m), 1, n) = SubSeq(w, 1 + 1 - 1, 1 + n - 1)
    BY <2>1, SubSeqOfSubSeq
  <2>3. 1 + 1 - 1 = 1 /\ 1 + n - 1 = n
    OBVIOUS
  <2> QED
    BY <2>2, <2>3
<1> QED
  BY <1>1, <1>2

\* The first n bytes.
LEMMA FrontIs ==
  ASSUME NEW S, NEW w \in Seq(S), NEW n \in 0 .. Len(w)
  PROVE  /\ SubSeq(w, 1, n) \in Seq(S) /\ Len(SubSeq(w, 1, n)) = n
         /\ \A i \in 1 .. n : SubSeq(w, 1, n)[i] = w[i]
<1>1. /\ Len(w) \in Nat /\ n \in Int /\ 1 \in Int
      /\ \A i \in 1 .. n : i \in 1 .. Len(w)
  BY LenProperties
<1>2. \A i \in 1 .. n : w[i] \in S
  BY <1>1, ElementOfSeq
<1>3. /\ SubSeq(w, 1, n) \in Seq(S)
      /\ Len(SubSeq(w, 1, n)) = IF 1 <= n THEN n - 1 + 1 ELSE 0
      /\ \A i \in 1 .. n - 1 + 1 : SubSeq(w, 1, n)[i] = w[1 + i - 1]
  BY <1>1, <1>2, SubSeqProperties
<1> QED
  BY <1>1, <1>3

\* If x and y together are the first bytes of w, x is.
LEMMA BeginPart ==
  ASSUME NEW S, NEW w \in Seq(S), NEW x \in Seq(Seq(S)), NEW y \in Seq(Seq(S)),
         Bytes(x \o y) <= Len(w),
         FlattenSeq(x \o y) = SubSeq(w, 1, Bytes(x \o y))
  PROVE  /\ Bytes(x) <= Bytes(x \o y)
         /\ FlattenSeq(x) = SubSeq(w, 1, Bytes(x))
<1>1. /\ Bytes(x) \in Nat /\ Bytes(y) \in Nat /\ FlattenSeq(x) \in Seq(S)
      /\ FlattenSeq(y) \in Seq(S) /\ Bytes(x \o y) = Bytes(x) + Bytes(y)
      /\ Len(FlattenSeq(x)) = Bytes(x) /\ Len(w) \in Nat
  BY BytesType, BytesConcat, LenProperties DEF Bytes
<1>2. Bytes(x \o y) \in 0 .. Len(w) /\ Bytes(x) \in 0 .. Bytes(x \o y)
  BY <1>1
<1>3. SubSeq(SubSeq(w, 1, Bytes(x \o y)), 1, Bytes(x)) = SubSeq(w, 1, Bytes(x))
  BY <1>2, FrontOfFront
<1>4. SubSeq(w, 1, Bytes(x \o y)) = FlattenSeq(x) \o FlattenSeq(y)
  BY FlatConcat
<1>5. SubSeq(FlattenSeq(x) \o FlattenSeq(y), 1, Bytes(x)) = FlattenSeq(x)
  <2>1. CASE Bytes(x) = 0
    <3>1. SubSeq(FlattenSeq(x) \o FlattenSeq(y), 1, Bytes(x)) = << >>
      BY <2>1, SubSeqEmpty
    <3>2. FlattenSeq(x) = << >>
      BY <2>1, <1>1, EmptySeq
    <3> QED
      BY <3>1, <3>2
  <2>2. CASE Bytes(x) # 0
    <3>1. /\ 1 \in 1 .. Len(FlattenSeq(x))
          /\ Bytes(x) \in 1 .. Len(FlattenSeq(x))
      BY <2>2, <1>1
    <3>2. SubSeq(FlattenSeq(x) \o FlattenSeq(y), 1, Bytes(x))
            = SubSeq(FlattenSeq(x), 1, Bytes(x))
      BY <3>1, <1>1, SubSeqOfConcat1
    <3>3. SubSeq(FlattenSeq(x), 1, Len(FlattenSeq(x))) = FlattenSeq(x)
      BY <1>1, SubSeqFull
    <3> QED
      BY <3>2, <3>3, <1>1
  <2> QED
    BY <2>1, <2>2
<1> QED
  BY <1>2, <1>3, <1>4, <1>5

\* y is what reading the first sz bytes of w from the offset c gives.
IsRead(y, w, sz, c, final) ==
  y = Frames(SubSeq(SubSeq(w, 1, sz), c + 1, sz), final)

\* Unless the rest is final, its n first bytes end an event.
CutsNothing(w, sz, n, y, final) ==
  ~final /\ y # << >> => n < sz /\ ~IsContinuation(w[n + 1])

\* Reading a file from the offset of what is stored continues it, up to the
\* end of an event.
LEMMA BeginMore ==
  ASSUME NEW S, NEW w \in Seq(S), NEW sz \in 0 .. Len(w),
         NEW x \in Seq(Seq(S)), NEW final \in BOOLEAN, NEW y,
         Bytes(x) <= sz, FlattenSeq(x) = SubSeq(w, 1, Bytes(x)),
         IsRead(y, w, sz, Bytes(x), final)
  PROVE  /\ Bytes(x \o y) <= sz
         /\ FlattenSeq(x \o y) = SubSeq(w, 1, Bytes(x \o y))
         /\ CutsNothing(w, sz, Bytes(x \o y), y, final)
<1>1. PICK v, c : v = SubSeq(w, 1, sz) /\ c = Bytes(x)
  OBVIOUS
<1>2. /\ v \in Seq(S) /\ Len(v) = sz /\ \A i \in 1 .. sz : v[i] = w[i]
      /\ c \in Nat /\ c \in 0 .. Len(v) /\ sz \in Nat /\ Len(w) \in Nat
  BY <1>1, FrontIs, BytesType, LenProperties
<1>3. PICK d : IsRest(d, v, c)
  BY DEF IsRest
<1>4. /\ d \in Seq(S) /\ Len(d) = sz - c
      /\ \A i \in 1 .. sz - c : d[i] = v[c + i]
  BY <1>2, <1>3, RestIs DEF IsRest
<1>5. y = Frames(d, final)
  BY <1>1, <1>2, <1>3 DEF IsRest, IsRead
<1>6. PICK n : n = Framed(d, final)
  OBVIOUS
<1>7. /\ y \in Seq(Seq(S)) /\ n \in 0 .. Len(d)
      /\ FlattenSeq(y) = SubSeq(d, 1, n)
      /\ ~final /\ n # 0 => n < Len(d) /\ ~IsContinuation(d[n + 1])
      /\ \A e \in n + 1 .. Len(d) : ~CanEnd(d, e, final)
  BY <1>4, <1>5, <1>6, FramesLossless
<1>8. Bytes(y) = n /\ Bytes(x \o y) = c + n /\ n \in Nat
  BY <1>1, <1>2, <1>5, <1>6, <1>7, BytesConcat DEF Framed, Bytes
<1>9. c + n \in 0 .. sz
  BY <1>2, <1>4, <1>7, <1>8
<1>10. FlattenSeq(x \o y) = SubSeq(w, 1, c + n)
  <2>1. FlattenSeq(x \o y) = SubSeq(w, 1, c) \o SubSeq(d, 1, n)
    BY <1>1, <1>7, FlatConcat
  <2>2. SubSeq(d, 1, n) = SubSeq(w, c + 1, c + n)
    <3>1. /\ SubSeq(d, 1, n) \in Seq(S) /\ Len(SubSeq(d, 1, n)) = n
          /\ \A i \in 1 .. n : SubSeq(d, 1, n)[i] = d[i]
      BY <1>4, <1>7, FrontIs
    <3>2. /\ c + 1 \in Int /\ c + n \in Int
          /\ \A i \in c + 1 .. c + n : i \in 1 .. Len(w)
      BY <1>2, <1>8, <1>9
    <3>3. \A i \in c + 1 .. c + n : w[i] \in S
      BY <3>2, ElementOfSeq
    <3>4. /\ SubSeq(w, c + 1, c + n) \in Seq(S)
          /\ Len(SubSeq(w, c + 1, c + n))
               = IF c + 1 <= c + n THEN (c + n) - (c + 1) + 1 ELSE 0
          /\ \A i \in 1 .. (c + n) - (c + 1) + 1 :
               SubSeq(w, c + 1, c + n)[i] = w[(c + 1) + i - 1]
      BY <3>2, <3>3, SubSeqProperties
    <3>5. Len(SubSeq(w, c + 1, c + n)) = n
      BY <3>4, <1>2, <1>8
    <3>6. \A i \in 1 .. n : SubSeq(d, 1, n)[i] = SubSeq(w, c + 1, c + n)[i]
      <4> SUFFICES ASSUME NEW i \in 1 .. n
                   PROVE  SubSeq(d, 1, n)[i] = SubSeq(w, c + 1, c + n)[i]
        OBVIOUS
      <4>1. /\ i \in 1 .. sz - c /\ c + i \in 1 .. sz
            /\ i \in 1 .. (c + n) - (c + 1) + 1 /\ (c + 1) + i - 1 = c + i
        BY <1>2, <1>4, <1>7, <1>8
      <4> QED
        BY <4>1, <3>1, <3>4, <1>2, <1>4
    <3> QED
      BY <3>1, <3>4, <3>5, <3>6, SeqEqual
  <2>3. SubSeq(w, 1, c) \o SubSeq(w, c + 1, c + n) = SubSeq(w, 1, c + n)
    <3>1. /\ 1 \in 1 .. Len(w) + 1 /\ c \in 1 - 1 .. Len(w)
          /\ c + n \in c .. Len(w)
      BY <1>2, <1>8, <1>9
    <3> QED
      BY <3>1, ConcatAdjacentSubSeq
  <2> QED
    BY <2>1, <2>2, <2>3
<1>11. y # << >> => n # 0
  <2> SUFFICES ASSUME n = 0 PROVE y = << >>
    OBVIOUS
  <2>1. \A e \in 1 .. Len(d) : ~CanEnd(d, e, final)
    BY <1>7
  <2>2. FirstCut(d, 1, final) = 0
    BY <2>1 DEF FirstCut, Cuts
  <2> QED
    BY <2>2, <1>4, <1>5, FramesUnfold
<1>12. ~final /\ y # << >> => c + n < sz /\ ~IsContinuation(w[c + n + 1])
  <2> SUFFICES ASSUME ~final, n # 0
               PROVE  c + n < sz /\ ~IsContinuation(w[c + n + 1])
    BY <1>11
  <2>1. n < Len(d) /\ ~IsContinuation(d[n + 1])
    BY <1>7
  <2>2. /\ n + 1 \in 1 .. sz - c /\ c + (n + 1) \in 1 .. sz
        /\ c + (n + 1) = c + n + 1 /\ c + n < sz
    BY <2>1, <1>2, <1>4, <1>8
  <2>3. d[n + 1] = w[c + n + 1]
    BY <2>2, <1>2, <1>4
  <2> QED
    BY <2>1, <2>2, <2>3
<1> QED
  BY <1>7, <1>8, <1>9, <1>10, <1>12 DEF CutsNothing
-----------------------------------------------------------------------------
(* Files and what the store knows of them.                                 *)

\* A file's text and what it consists of now.
LEMMA WholeType ==
  ASSUME Typed, NEW f \in Files
  PROVE  /\ Whole(f) \in Bytestring /\ Content(f) = SubSeq(Whole(f), 1, size[f])
         /\ size[f] \in 0 .. Len(Whole(f)) /\ Len(Whole(f)) \in Nat
<1>1. Texts[f] \in Seq(Bytestring) /\ text[f] \in 1 .. Len(Texts[f])
  BY TailerAssumption DEF Typed, Bytestring
<1>2. Whole(f) \in Bytestring
  BY <1>1, ElementOfSeq DEF Whole
<1>3. Len(Whole(f)) \in Nat
  BY <1>2, LenProperties DEF Bytestring
<1>4. size[f] \in Nat /\ size[f] <= Len(Whole(f))
  BY DEF Typed
<1> QED
  BY <1>2, <1>3, <1>4 DEF Content, Whole

\* What is stored of a file.
LEMMA StoredType ==
  ASSUME Typed, NEW f \in Files
  PROVE  stored[f] \in Seq(Seq(STRING)) /\ Bytes(stored[f]) \in Nat
<1>1. stored[f] \in Seq(Seq(STRING))
  BY DEF Typed, Bytestring
<1> QED
  BY <1>1, BytesType

\* Summed over the records of its name, a file's bytes are its own.
LEMMA IngestedIsOwn ==
  ASSUME DistinctNames, Typed, NEW f \in Files
  PROVE  IngestedBytes(f) = Bytes(stored[f])
<1> DEFINE v == Bytes(stored[f])
           Step(F, s) == IF s = {} THEN 0
                         ELSE LET x == CHOOSE y \in s : TRUE
                              IN  Bytes(stored[x]) + F[s \ {x}]
           L == CHOOSE F : F = [s \in SUBSET {f} |-> Step(F, s)]
           W == [s \in SUBSET {f} |-> IF s = {} THEN 0 ELSE v]
<1>1. {g \in Files : SourceName[g] = SourceName[f]} = {f}
  BY DEF DistinctNames
<1>2. v \in Nat
  BY StoredType
<1>3. \A s \in SUBSET {f} : s = {} \/ s = {f}
  OBVIOUS
<1>4. (CHOOSE y \in {f} : TRUE) = f
  OBVIOUS
<1>5. W[{}] = 0 /\ W[{f}] = v
  OBVIOUS
<1>6. \A s \in SUBSET {f} : W[s] = Step(W, s)
  <2>1. {f} \ {f} = {} /\ {f} # {}
    OBVIOUS
  <2>2. Step(W, {f}) = v + 0
    BY <2>1, <1>4, <1>5
  <2>3. Step(W, {}) = 0
    OBVIOUS
  <2> HIDE DEF W, Step
  <2>4. v + 0 = v
    BY <1>2
  <2> QED
    BY <2>2, <2>3, <2>4, <1>3, <1>5
<1> HIDE DEF Step
<1>7. W = [s \in SUBSET {f} |-> Step(W, s)]
  BY <1>6 DEF W
<1> HIDE DEF W
<1>8. L = [s \in SUBSET {f} |-> Step(L, s)]
  BY <1>7, Zenon
<1>9. IngestedBytes(f) = L[{f}]
  BY <1>1, Zenon DEF IngestedBytes, MapThenSumSet, MapThenFoldSet, L, Step
<1> HIDE DEF L
<1>10. L[{}] = Step(L, {}) /\ L[{f}] = Step(L, {f})
  BY <1>8
<1>11. L[{}] = 0
  BY <1>10 DEF Step
<1>12. L[{f}] = v + L[{}]
  <2>1. {f} \ {f} = {} /\ {f} # {}
    OBVIOUS
  <2> HIDE DEF v
  <2>2. Step(L, {f}) = Bytes(stored[f]) + L[{}]
    BY <2>1, <1>4 DEF Step
  <2> QED
    BY <2>2, <1>10 DEF v
<1> QED
  BY <1>2, <1>9, <1>11, <1>12
-----------------------------------------------------------------------------
(* The steps.                                                              *)

\* A step that leaves a file, its offset and the job on it alone keeps what is
\* known of it.  A step that ends or begins a job on another file may.
LEMMA Untouched ==
  ASSUME NEW g \in Files, Unspoiled(g),
         text'[g] = text[g], size'[g] = size[g], stored'[g] = stored[g],
         entry'[g] = entry[g],
         up' => up /\ resume'[g] = resume[g],
         \/ job' = job
         \/ /\ ~(entry[g].stable >= StableTicks)
            /\ ~(job'.at = "store" /\ job'.file = g)
  PROVE  Unspoiled(g)'
<1>1. Whole(g)' = Whole(g)
  BY DEF Whole
<1>2. \A x : Begin(g, x)' <=> Begin(g, x)
  BY <1>1 DEF Begin
<1>3. Begin(g, stored[g])'
  BY <1>2 DEF Unspoiled, Begin
<1>4. OffsetKnown(g)'
  BY DEF Unspoiled, OffsetKnown
<1>5. QuietIsFinal(g)'
  BY DEF Unspoiled, QuietIsFinal
<1>6. JobContinues(g)'
  <2>1. CASE job' = job
    BY <2>1, <1>1 DEF Unspoiled, JobContinues, Begin
  <2>2. CASE job' # job
    BY <2>2 DEF JobContinues
  <2> QED
    BY <2>1, <2>2
<1> QED
  BY <1>3, <1>4, <1>5, <1>6 DEF Unspoiled

\* The offset of a file that is not looked at is nothing yet.
LEMMA InitSound == Init => TailerInv
<1> SUFFICES ASSUME Init PROVE TailerInv
  OBVIOUS
<1>1. Typed
  <2>1. \A f \in Files : Texts[f] \in Seq(Bytestring) /\ Texts[f] # << >>
    BY TailerAssumption DEF Bytestring
  <2>2. \A f \in Files : 1 \in 1 .. Len(Texts[f])
    BY <2>1, EmptySeq
  <2>3. \A f \in Files : 0 <= Len(Whole(f))
    <3> SUFFICES ASSUME NEW f \in Files PROVE 0 <= Len(Whole(f))
      OBVIOUS
    <3>1. Texts[f][1] \in Bytestring
      BY <2>1, <2>2, ElementOfSeq
    <3>2. Whole(f) = Texts[f][1]
      BY DEF Init, Whole
    <3> QED
      BY <3>1, <3>2, LenProperties DEF Bytestring
  <2>4. NoEntry \in Entries /\ NoJob \in Jobs
    BY EmptySeq DEF NoEntry, NoJob, Entries, Jobs
  <2>5. [f \in Files |-> << >>] \in [Files -> Seq(Bytestring)]
    BY EmptySeq
  <2> QED
    BY <2>2, <2>3, <2>4, <2>5 DEF Init, Typed
<1>2. Working
  BY DEF Init, Working, NoJob
<1>3. ASSUME NEW f \in Files PROVE Unspoiled(f)
  <2>1. Bytes(stored[f]) = 0 /\ FlattenSeq(stored[f]) = << >>
    BY FlatEmpty, EmptySeq DEF Init, Bytes
  <2>2. Begin(f, stored[f])
    <3>1. SubSeq(Whole(f), 1, 0) = << >>
      BY SubSeqEmpty
    <3>2. size[f] = 0
      BY DEF Init
    <3> QED
      BY <2>1, <3>1, <3>2 DEF Begin
  <2>3. OffsetKnown(f)
    BY DEF OffsetKnown, Init, NoEntry
  <2>4. QuietIsFinal(f)
    BY TailerAssumption DEF QuietIsFinal, Init, NoEntry
  <2>5. JobContinues(f)
    BY DEF JobContinues, Init, NoJob
  <2> QED
    BY <2>2, <2>3, <2>4, <2>5 DEF Unspoiled
<1> QED
  BY <1>1, <1>2, <1>3 DEF TailerInv

\* A file grows: what was its beginning still is.
LEMMA WriteSound ==
  ASSUME TailerInv, NEW f \in Files, NEW n \in 1 .. MaxAppend, Write(f, n)
  PROVE  TailerInv'
<1>1. /\ size' = [size EXCEPT ![f] = size[f] + n]
      /\ size[f] + n <= Len(Whole(f)) /\ size[f] \in Nat /\ n \in Nat
      /\ \A g \in Files : size[g] \in Nat
  BY TailerAssumption DEF Write, TailerInv, Typed, Whole
<1>2. Typed'
  BY <1>1, SMTT(30) DEF Write, TailerInv, Typed, Whole
<1>3. Working'
  BY DEF Write, TailerInv, Working
<1>4. ASSUME NEW g \in Files \ spoiled' PROVE Unspoiled(g)'
  <2>1. Unspoiled(g) /\ Whole(g)' = Whole(g) /\ size'[g] >= size[g]
    BY <1>1 DEF Write, TailerInv, Whole, Typed
  <2>2. Typed
    BY DEF TailerInv
  <2>3. size[g] \in Nat /\ size'[g] \in Nat
    BY <1>1, <1>2 DEF Typed
  <2>4. stored[g] \in Seq(Seq(STRING)) /\ Bytes(stored[g]) \in Nat
    BY <2>2, StoredType
  <2>5. Begin(g, stored[g])'
    BY <2>1, <2>3, <2>4 DEF Write, Unspoiled, Begin
  <2>6. OffsetKnown(g)' /\ QuietIsFinal(g)'
    BY <2>1 DEF Write, Unspoiled, OffsetKnown, QuietIsFinal
  <2>7. JobContinues(g)'
    <3>1. job.left \in Seq(Seq(STRING))
      BY <2>2 DEF Typed, Jobs, Bytestring
    <3>2. Bytes(stored[g] \o job.left) \in Nat
      BY <2>4, <3>1, BytesConcat, BytesType
    <3> QED
      BY <2>1, <2>3, <3>2 DEF Write, Unspoiled, JobContinues, Begin
  <2> QED
    BY <2>5, <2>6, <2>7 DEF Unspoiled
<1> QED
  BY <1>2, <1>3, <1>4 DEF TailerInv

\* A file that is truncated is no longer spoken of.
LEMMA TruncateSound ==
  ASSUME TailerInv, NEW f \in Files, Truncate(f)
  PROVE  TailerInv'
<1>1. /\ text' = [text EXCEPT ![f] = text[f] + 1]
      /\ size' = [size EXCEPT ![f] = 0] /\ spoiled' = spoiled \cup {f}
      /\ text[f] < Len(Texts[f])
      /\ UNCHANGED <<up, resume, entry, todo, job, stored>>
  BY DEF Truncate
<1>2. Typed
  BY DEF TailerInv
<1>3. Typed'
  <2>1. text' \in [Files -> Nat] /\ size' \in [Files -> Nat]
        /\ spoiled' \subseteq Files
    BY <1>1, <1>2 DEF Typed
  <2>2. ASSUME NEW g \in Files
        PROVE  text'[g] \in 1 .. Len(Texts[g]) /\ size'[g] <= Len(Whole(g)')
    <3>1. CASE g = f
      <4>1. Texts[f] \in Seq(Bytestring) /\ text[f] \in 1 .. Len(Texts[f])
        BY <1>2, TailerAssumption DEF Typed, Bytestring
      <4>2. text'[f] = text[f] + 1 /\ size'[f] = 0
        BY <1>1, <1>2 DEF Typed
      <4>3. text'[f] \in 1 .. Len(Texts[f])
        BY <4>1, <4>2, <1>1, LenProperties
      <4>4. Texts[f][text'[f]] \in Bytestring
        BY <4>1, <4>3, ElementOfSeq
      <4>5. Len(Whole(f)') \in Nat
        BY <4>4, LenProperties DEF Bytestring, Whole
      <4> QED
        BY <3>1, <4>2, <4>3, <4>5
    <3>2. CASE g # f
      BY <3>2, <1>1, <1>2 DEF Typed, Whole
    <3> QED
      BY <3>1, <3>2
  <2> QED
    BY <2>1, <2>2, <1>1, <1>2 DEF Typed
<1>4. Working'
  BY <1>1 DEF TailerInv, Working
<1>5. ASSUME NEW g \in Files \ spoiled' PROVE Unspoiled(g)'
  <2>1. g \in Files \ spoiled /\ g # f
    BY <1>1
  <2>2. Unspoiled(g) /\ text'[g] = text[g] /\ size'[g] = size[g]
    BY <2>1, <1>1, <1>2 DEF TailerInv, Typed
  <2>3. /\ entry'[g] = entry[g] /\ stored'[g] = stored[g] /\ job' = job
        /\ (up' => up /\ resume'[g] = resume[g]) /\ g \in Files
    BY <1>1
  <2> QED
    BY <2>2, <2>3, Untouched
<1> QED
  BY <1>3, <1>4, <1>5 DEF TailerInv

\* The process ends: what is stored stays stored.
LEMMA DownSound == ASSUME TailerInv, Down PROVE TailerInv'
<1>1. /\ up' = FALSE /\ job' = NoJob /\ todo' = {}
      /\ entry' = [f \in Files |-> NoEntry]
      /\ UNCHANGED <<text, size, resume, stored, spoiled>>
  BY DEF Down
<1>2. NoEntry \in Entries /\ NoJob \in Jobs
  BY EmptySeq DEF NoEntry, NoJob, Entries, Jobs
<1>3. Typed'
  BY <1>1, <1>2 DEF TailerInv, Typed, Whole
<1>4. Working'
  BY <1>1 DEF Working, NoJob
<1>5. ASSUME NEW g \in Files \ spoiled' PROVE Unspoiled(g)'
  <2>1. Begin(g, stored[g])'
    BY <1>1 DEF TailerInv, Unspoiled, Begin, Whole
  <2>2. OffsetKnown(g)'
    BY <1>1 DEF OffsetKnown, NoEntry
  <2>3. QuietIsFinal(g)'
    BY <1>1, TailerAssumption DEF QuietIsFinal, NoEntry
  <2>4. JobContinues(g)'
    BY <1>1 DEF JobContinues, NoJob
  <2> QED
    BY <2>1, <2>2, <2>3, <2>4 DEF Unspoiled
<1> QED
  BY <1>3, <1>4, <1>5 DEF TailerInv

\* The process starts: the store tells it what it has of every file.
LEMMA StartSound ==
  ASSUME DistinctNames, TailerInv, Start PROVE TailerInv'
<1>1. /\ up' = TRUE /\ resume' = [f \in Files |-> IngestedBytes(f)]
      /\ UNCHANGED <<text, size, entry, todo, job, stored, spoiled>>
  BY DEF Start
<1>2. Typed
  BY DEF TailerInv
<1>3. \A f \in Files : resume'[f] = Bytes(stored[f])
                       /\ Bytes(stored[f]) \in Nat
  BY <1>1, <1>2, IngestedIsOwn, StoredType
<1>4. Typed'
  <2>1. resume' \in [Files -> Nat]
    BY <1>1, <1>3
  <2> QED
    BY <2>1, <1>1, <1>2 DEF Typed, Whole
<1>5. Working'
  BY <1>1 DEF TailerInv, Working
<1>6. ASSUME NEW g \in Files \ spoiled' PROVE Unspoiled(g)'
  <2>1. Unspoiled(g)
    BY <1>1 DEF TailerInv
  <2>2. OffsetKnown(g)'
    BY <2>1, <1>1, <1>3 DEF Unspoiled, OffsetKnown
  <2>3. Begin(g, stored[g])' /\ QuietIsFinal(g)' /\ JobContinues(g)'
    BY <2>1, <1>1 DEF Unspoiled, Begin, QuietIsFinal, JobContinues, Whole
  <2> QED
    BY <2>2, <2>3 DEF Unspoiled
<1> QED
  BY <1>4, <1>5, <1>6 DEF TailerInv
\* A tick begins, with nothing under way.
LEMMA TickSound == ASSUME TailerInv, Tick PROVE TailerInv'
<1>1. /\ todo' = Files
      /\ UNCHANGED <<text, size, up, resume, entry, job, stored, spoiled>>
  BY DEF Tick
<1>2. Typed' /\ Working'
  BY <1>1 DEF TailerInv, Typed, Working, Whole
<1>3. ASSUME NEW g \in Files \ spoiled' PROVE Unspoiled(g)'
  BY <1>1 DEF TailerInv, Unspoiled, Begin, OffsetKnown, QuietIsFinal,
              JobContinues, Whole
<1> QED
  BY <1>2, <1>3 DEF TailerInv

\* The entry a look makes has the fields of one.
LEMMA TickedType ==
  ASSUME NEW e \in Entries, NEW s \in Nat
  PROVE  Ticked(e, s) \in Entries
<1>1. /\ e.stable \in Nat /\ e.growing \in Nat
      /\ e.stable + 1 \in Nat /\ e.growing + 1 \in Nat
  BY DEF Entries
<1>2. CASE s = e.consumed
  BY <1>2, <1>1 DEF Ticked, Entries
<1>3. CASE s # e.consumed /\ s = e.last
  <2>1. Ticked(e, s) = [e EXCEPT !.stable = e.stable + 1]
    BY <1>3 DEF Ticked
  <2> QED
    BY <2>1, <1>1 DEF Entries
<1>4. CASE s # e.consumed /\ s # e.last
  <2>1. Ticked(e, s) = [e EXCEPT !.stable = 0, !.growing = e.growing + 1,
                                 !.last = s]
    BY <1>4 DEF Ticked
  <2>2. Ticked(e, s) = [consumed |-> e.consumed, last |-> s, stable |-> 0,
                        growing |-> e.growing + 1, seen |-> e.seen]
    BY <2>1 DEF Entries
  <2>3. e.consumed \in Nat /\ e.seen \in BOOLEAN /\ 0 \in Nat
    BY DEF Entries
  <2> QED
    BY <2>2, <2>3, <1>1 DEF Entries
<1> QED
  BY <1>2, <1>3, <1>4

\* A look leaves the offset where what is stored ends, and gives work only
\* for what is behind it.
LEMMA LookSound ==
  ASSUME TailerInv, NEW f \in Files, Look(f) PROVE TailerInv'
<1> DEFINE s == size[f]
           e0 == Entry(f, s)
           e == Ticked(e0, s)
<1>1. PICK final \in BOOLEAN :
        /\ final <=> e.stable >= StableTicks
        /\ entry' = [entry EXCEPT ![f] = e]
        /\ job' = IF e.consumed # s /\ (final \/ e.growing >= GrowTicks)
                  THEN [NoJob EXCEPT !.file = f, !.at = "open",
                                     !.seen = s, !.final = final]
                  ELSE NoJob
  <2>1. (e.stable >= StableTicks) \in BOOLEAN
    OBVIOUS
  <2> QED
    BY <2>1 DEF Look
<1>2. /\ up /\ job = NoJob /\ todo' = todo \ {f}
      /\ UNCHANGED <<text, size, up, resume, stored, spoiled>>
  BY DEF Look
<1>3. Typed /\ s \in Nat /\ entry[f] \in Entries /\ resume[f] \in Nat
  BY DEF TailerInv, Typed
<1>4. e0 \in Entries
  BY <1>3 DEF Entry, Entries, NoEntry
<1>5. e0.seen
  BY <1>3 DEF Entry, Entries, NoEntry
<1>6. f \notin spoiled =>
        /\ e0.consumed = Bytes(stored[f])
        /\ ~(e0.stable >= StableTicks)
  <2> SUFFICES ASSUME f \notin spoiled
               PROVE  /\ e0.consumed = Bytes(stored[f])
                      /\ ~(e0.stable >= StableTicks)
    OBVIOUS
  <2>1. Unspoiled(f)
    BY DEF TailerInv
  <2>2. Bytes(stored[f]) \in Nat /\ Bytes(stored[f]) <= s
    BY <2>1, <1>3, StoredType DEF Unspoiled, Begin
  <2>3. ~(entry[f].stable >= StableTicks)
    BY <2>1, <1>2 DEF Unspoiled, QuietIsFinal, NoJob
  <2>4. CASE entry[f].seen
    <3>1. entry[f].consumed = Bytes(stored[f])
      BY <2>1, <2>4 DEF Unspoiled, OffsetKnown
    <3>2. e0 = entry[f]
      BY <2>2, <2>4, <3>1, <1>3 DEF Entry
    <3> QED
      BY <3>1, <3>2, <2>3
  <2>5. CASE ~entry[f].seen
    <3>1. resume[f] = Bytes(stored[f])
      BY <2>1, <2>5, <1>2 DEF Unspoiled, OffsetKnown
    <3>2. e0 = [NoEntry EXCEPT !.consumed = resume[f], !.last = s,
                               !.seen = TRUE]
      BY <2>2, <2>5, <3>1, <1>3 DEF Entry, NoEntry
    <3>3. e0.consumed = resume[f] /\ e0.stable = 0
      BY <3>2 DEF NoEntry
    <3>4. ~(0 >= StableTicks)
      BY TailerAssumption
    <3> QED
      BY <3>1, <3>3, <3>4
  <2> QED
    BY <2>4, <2>5
<1> HIDE DEF s, e0
<1>7. e \in Entries
  BY <1>3, <1>4, TickedType
<1>8. /\ e.consumed = e0.consumed /\ e.seen = e0.seen
      /\ ~(e0.stable >= StableTicks) /\ e.stable >= StableTicks =>
           e.stable = StableTicks /\ e.consumed # s
  <2>1. StableTicks \in Nat \ {0}
    BY TailerAssumption
  <2> QED
    BY <2>1, <1>4, <1>3 DEF Ticked, Entries
<1> HIDE DEF e
<1>9. /\ entry' \in [Files -> Entries] /\ entry'[f] = e
      /\ \A g \in Files : g # f => entry'[g] = entry[g]
  BY <1>1, <1>3, <1>7 DEF Typed
<1>10. /\ job' \in Jobs /\ job'.at # "store"
       /\ job'.at # "none" => job'.file = f
  BY <1>1, <1>3, EmptySeq DEF Jobs, NoJob
<1>11. Typed'
  BY <1>2, <1>3, <1>9, <1>10 DEF Typed, Whole
<1>12. Working'
  BY <1>2, <1>5, <1>8, <1>9, <1>10 DEF Working
<1>13. ASSUME NEW g \in Files \ spoiled' PROVE Unspoiled(g)'
  <2>1. Unspoiled(g) /\ g \in Files \ spoiled
    BY <1>2 DEF TailerInv
  <2>2. CASE g # f
    <3>1. ~(entry[g].stable >= StableTicks)
      BY <2>1, <1>2 DEF Unspoiled, QuietIsFinal, NoJob
    <3>2. /\ entry'[g] = entry[g] /\ ~(job'.at = "store" /\ job'.file = g)
          /\ text'[g] = text[g] /\ size'[g] = size[g]
          /\ stored'[g] = stored[g] /\ (up' => up /\ resume'[g] = resume[g])
      BY <2>2, <1>2, <1>9, <1>10
    <3> QED
      BY <2>1, <3>1, <3>2, Untouched
  <2>3. CASE g = f
    <3>1. Begin(g, stored[g])'
      BY <2>1, <1>2 DEF Unspoiled, Begin, Whole
    <3>2. OffsetKnown(g)'
      BY <2>1, <2>3, <1>2, <1>5, <1>6, <1>8, <1>9 DEF OffsetKnown
    <3>3. QuietIsFinal(g)'
      <4> SUFFICES ASSUME e.stable >= StableTicks
                   PROVE  e.stable = StableTicks /\ job'.at # "none"
                          /\ job'.file = f /\ job'.final
        BY <2>3, <1>9 DEF QuietIsFinal
      <4>1. e.stable = StableTicks /\ e.consumed # s /\ final = TRUE
        BY <2>1, <2>3, <1>1, <1>6, <1>8
      <4>2. job' = [NoJob EXCEPT !.file = f, !.at = "open",
                                 !.seen = s, !.final = final]
        BY <4>1, <1>1
      <4> QED
        BY <4>1, <4>2 DEF NoJob
    <3>4. JobContinues(g)'
      BY <1>10 DEF JobContinues
    <3> QED
      BY <3>1, <3>2, <3>3, <3>4 DEF Unspoiled
  <2> QED
    BY <2>2, <2>3
<1> QED
  BY <1>11, <1>12, <1>13 DEF TailerInv

\* Reading begins where what is stored ends.
LEMMA OpenSound == ASSUME TailerInv, Open PROVE TailerInv'
<1>1. PICK f : f = job.file
  OBVIOUS
<1>2. /\ job.at = "open"
      /\ entry' = [entry EXCEPT ![f].consumed = StartOffset(f)]
      /\ job' = [job EXCEPT !.at = "store", !.left = FramedFrom(f)]
      /\ UNCHANGED <<text, size, up, resume, todo, stored, spoiled>>
  BY <1>1 DEF Open, Opening
<1>3. /\ Typed /\ f \in Files /\ up /\ entry[f].seen /\ entry[f] \in Entries
      /\ size[f] \in Nat /\ job.final \in BOOLEAN /\ job \in Jobs
  BY <1>1, <1>2 DEF TailerInv, Typed, Working, Jobs
<1>4. StartOffset(f) = IF entry[f].consumed <= size[f] THEN entry[f].consumed
                       ELSE size[f]
  BY <1>3, MinOfTwo DEF StartOffset, Entries
<1>5. StartOffset(f) \in 0 .. size[f]
  BY <1>3, <1>4 DEF Entries
<1>6. PICK c : c = StartOffset(f)
  OBVIOUS
<1>7. PICK v : v = Content(f)
  OBVIOUS
<1>8. v \in Seq(STRING) /\ Len(v) = size[f] /\ v = SubSeq(Whole(f), 1, size[f])
      /\ Whole(f) \in Seq(STRING) /\ size[f] \in 0 .. Len(Whole(f))
  <2>1. /\ Whole(f) \in Seq(STRING) /\ size[f] \in 0 .. Len(Whole(f))
        /\ v = SubSeq(Whole(f), 1, size[f])
    BY <1>3, <1>7, WholeType DEF Bytestring
  <2>2. /\ SubSeq(Whole(f), 1, size[f]) \in Seq(STRING)
        /\ Len(SubSeq(Whole(f), 1, size[f])) = size[f]
    BY <2>1, FrontIs
  <2> QED
    BY <2>1, <2>2
<1>9. FramedFrom(f) = Frames(SubSeq(v, c + 1, size[f]), job.final)
  BY <1>6, <1>7 DEF FramedFrom
<1>10. FramedFrom(f) \in Seq(Seq(STRING))
  <2>1. c \in 0 .. Len(v)
    BY <1>5, <1>6, <1>8
  <2>2. SubSeq(v, c + 1, Len(v)) \in Seq(STRING)
    BY <2>1, <1>8, RestIs
  <2>3. \A fin \in BOOLEAN :
          Frames(SubSeq(v, c + 1, Len(v)), fin) \in Seq(Seq(STRING))
    BY <2>2, FramesUnfold
  <2> QED
    BY <2>3, <1>3, <1>8, <1>9
<1>11. /\ entry' \in [Files -> Entries]
       /\ \A g \in Files : g # f => entry'[g] = entry[g]
       /\ entry'[f] = [entry[f] EXCEPT !.consumed = c]
  <2>1. c \in Nat
    BY <1>3, <1>5, <1>6
  <2>2. /\ entry \in [Files -> Entries]
        /\ entry' = [entry EXCEPT ![f] = [entry[f] EXCEPT !.consumed = c]]
    BY <1>2, <1>3, <1>6 DEF Typed
  <2>3. [entry[f] EXCEPT !.consumed = c] \in Entries
    BY <2>1, <1>3 DEF Entries
  <2> QED
    BY <2>2, <2>3, <1>3
<1>12. /\ job' \in Jobs /\ job'.at = "store" /\ job'.file = f
       /\ job'.final = job.final /\ job'.left = FramedFrom(f)
  BY <1>1, <1>2, <1>3, <1>10 DEF Jobs, Bytestring
<1>13. entry'[f].consumed = c /\ entry'[f].seen
       /\ entry'[f].stable = entry[f].stable
  BY <1>3, <1>11 DEF Entries
<1>14. Typed'
  BY <1>2, <1>3, <1>11, <1>12 DEF Typed, Whole
<1>15. Working'
  BY <1>2, <1>3, <1>12, <1>13 DEF Working
<1>16. ASSUME NEW g \in Files \ spoiled' PROVE Unspoiled(g)'
  <2>1. Unspoiled(g) /\ g \in Files \ spoiled
    BY <1>2 DEF TailerInv
  <2>2. CASE g # f
    <3>1. ~(entry[g].stable >= StableTicks)
      BY <2>1, <2>2, <1>1 DEF Unspoiled, QuietIsFinal
    <3>2. /\ entry'[g] = entry[g] /\ ~(job'.at = "store" /\ job'.file = g)
          /\ text'[g] = text[g] /\ size'[g] = size[g]
          /\ stored'[g] = stored[g] /\ (up' => up /\ resume'[g] = resume[g])
      BY <2>2, <1>2, <1>11, <1>12
    <3> QED
      BY <2>1, <3>1, <3>2, Untouched
  <2>3. CASE g = f
    <3>1. /\ Bytes(stored[f]) <= size[f] /\ c = Bytes(stored[f])
          /\ FlattenSeq(stored[f]) = SubSeq(Whole(f), 1, Bytes(stored[f]))
      BY <2>1, <2>3, <1>3, <1>4, <1>6 DEF Unspoiled, Begin, OffsetKnown
    <3>2. stored[f] \in Seq(Seq(STRING))
      BY <1>3, StoredType
    <3>3. PICK y : y = FramedFrom(f)
      OBVIOUS
    <3>4. y = Frames(SubSeq(SubSeq(Whole(f), 1, size[f]),
                            Bytes(stored[f]) + 1, size[f]), job.final)
      BY <3>1, <3>3, <1>8, <1>9
    <3>5. /\ Bytes(stored[f] \o y) <= size[f]
          /\ FlattenSeq(stored[f] \o y)
               = SubSeq(Whole(f), 1, Bytes(stored[f] \o y))
          /\ ~job.final /\ y # << >> =>
               /\ Bytes(stored[f] \o y) < size[f]
               /\ ~IsContinuation(Whole(f)[Bytes(stored[f] \o y) + 1])
      <4>1. PICK fin \in BOOLEAN : fin = job.final
        BY <1>3
      <4>2. PICK x, w : x = stored[f] /\ w = Whole(f)
        OBVIOUS
      <4>3. PICK z : z = size[f]
        OBVIOUS
      <4>4. /\ w \in Seq(STRING) /\ z \in 0 .. Len(w)
            /\ x \in Seq(Seq(STRING)) /\ Bytes(x) <= z
            /\ FlattenSeq(x) = SubSeq(w, 1, Bytes(x))
            /\ IsRead(y, w, z, Bytes(x), fin)
        BY <3>1, <3>2, <3>4, <1>8, <4>1, <4>2, <4>3 DEF IsRead
      <4>5. /\ Bytes(x \o y) <= z
            /\ FlattenSeq(x \o y) = SubSeq(w, 1, Bytes(x \o y))
            /\ CutsNothing(w, z, Bytes(x \o y), y, fin)
        BY <4>4, BeginMore
      <4> QED
        BY <4>1, <4>2, <4>3, <4>5 DEF CutsNothing
    <3>6. JobContinues(g)'
      BY <3>3, <3>5, <2>3, <1>2, <1>12 DEF JobContinues, Begin, Whole
    <3>7. Begin(g, stored[g])'
      BY <2>1, <1>2 DEF Unspoiled, Begin, Whole
    <3>8. OffsetKnown(g)'
      BY <2>3, <3>1, <1>2, <1>13 DEF OffsetKnown
    <3>9. QuietIsFinal(g)'
      BY <2>1, <2>3, <1>12, <1>13 DEF Unspoiled, QuietIsFinal
    <3> QED
      BY <3>6, <3>7, <3>8, <3>9 DEF Unspoiled
  <2> QED
    BY <2>2, <2>3
<1> QED
  BY <1>14, <1>15, <1>16 DEF TailerInv
\* A file that could not be opened is no longer spoken of.
LEMMA OpenFailsSound == ASSUME TailerInv, OpenFails PROVE TailerInv'
<1>1. PICK f : f = job.file
  OBVIOUS
<1>2. /\ job.at = "open" /\ job' = NoJob /\ spoiled' = spoiled \cup {f}
      /\ entry' = [entry EXCEPT ![f].consumed = job.seen]
      /\ UNCHANGED <<text, size, up, resume, todo, stored>>
  BY <1>1 DEF OpenFails, Opening
<1>3. /\ Typed /\ f \in Files /\ entry[f] \in Entries /\ job.seen \in Nat
      /\ entry \in [Files -> Entries]
  BY <1>1, <1>2 DEF TailerInv, Typed, Working, Jobs
<1>4. /\ entry' \in [Files -> Entries]
      /\ \A g \in Files : g # f => entry'[g] = entry[g]
  <2>1. entry' = [entry EXCEPT ![f] = [entry[f] EXCEPT !.consumed = job.seen]]
    BY <1>2, <1>3
  <2>2. [entry[f] EXCEPT !.consumed = job.seen] \in Entries
    BY <1>3 DEF Entries
  <2> QED
    BY <2>1, <2>2, <1>3
<1>5. NoJob \in Jobs /\ NoJob.at = "none"
  BY EmptySeq DEF NoJob, Jobs
<1>6. Typed'
  BY <1>2, <1>3, <1>4, <1>5 DEF Typed, Whole
<1>7. Working'
  BY <1>2, <1>5 DEF Working
<1>8. ASSUME NEW g \in Files \ spoiled' PROVE Unspoiled(g)'
  <2>1. Unspoiled(g) /\ g \in Files /\ g # f
    BY <1>2 DEF TailerInv
  <2>2. ~(entry[g].stable >= StableTicks)
    BY <2>1, <1>1 DEF Unspoiled, QuietIsFinal
  <2>3. /\ entry'[g] = entry[g] /\ ~(job'.at = "store" /\ job'.file = g)
        /\ text'[g] = text[g] /\ size'[g] = size[g]
        /\ stored'[g] = stored[g] /\ (up' => up /\ resume'[g] = resume[g])
    BY <2>1, <1>2, <1>4, <1>5
  <2> QED
    BY <2>1, <2>2, <2>3, Untouched
<1> QED
  BY <1>6, <1>7, <1>8 DEF TailerInv

\* The batch is the first events of what is left, and the rest stays left.
LEMMA BatchIs ==
  ASSUME NEW S, NEW left \in Seq(S), left # << >>,
         NEW n, n = Min({BatchEvents, Len(left)})
  PROVE  /\ SubSeq(left, 1, n) \in Seq(S)
         /\ SubSeq(left, n + 1, Len(left)) \in Seq(S)
         /\ SubSeq(left, 1, n) \o SubSeq(left, n + 1, Len(left)) = left
<1>1. Len(left) \in Nat \ {0}
  BY EmptySeq
<1>2. n = IF BatchEvents <= Len(left) THEN BatchEvents ELSE Len(left)
  BY <1>1, TailerAssumption, MinOfTwo
<1>3. n \in 1 .. Len(left) /\ n \in 0 .. Len(left)
  BY <1>1, <1>2, TailerAssumption
<1>4. SubSeq(left, 1, n) \in Seq(S)
  BY <1>3, FrontIs
<1>5. SubSeq(left, n + 1, Len(left)) \in Seq(S)
  BY <1>3, RestIs
<1>6. SubSeq(left, 1, n) \o SubSeq(left, n + 1, Len(left))
        = SubSeq(left, 1, Len(left))
  <2>1. /\ 1 \in 1 .. Len(left) + 1 /\ n \in 1 - 1 .. Len(left)
        /\ Len(left) \in n .. Len(left)
    BY <1>1, <1>3
  <2> QED
    BY <2>1, ConcatAdjacentSubSeq
<1>7. SubSeq(left, 1, Len(left)) = left
  BY SubSeqFull
<1> QED
  BY <1>4, <1>5, <1>6, <1>7

\* A batch goes from what is left to what is stored, and the offset with it.
LEMMA StoreBatchSound == ASSUME TailerInv, StoreBatch PROVE TailerInv'
<1>0. \A x, y, z \in Seq(Seq(STRING)) : x \o (y \o z) = (x \o y) \o z
  BY EventsAssociative, SMTT(30)
<1>1. PICK f : f = job.file
  OBVIOUS
<1>2. PICK batch, rest :
        /\ job.at = "store" /\ job.left # << >>
        /\ batch = SubSeq(job.left, 1, Min({BatchEvents, Len(job.left)}))
        /\ rest = SubSeq(job.left, Min({BatchEvents, Len(job.left)}) + 1,
                         Len(job.left))
        /\ stored' = [stored EXCEPT ![f] = stored[f] \o batch]
        /\ entry' = [entry EXCEPT ![f].consumed = @ + Bytes(batch)]
        /\ job' = [job EXCEPT !.left = rest]
        /\ UNCHANGED <<text, size, up, resume, todo, spoiled>>
  BY <1>1 DEF StoreBatch
<1>3. /\ Typed /\ f \in Files /\ up /\ entry[f].seen /\ entry[f] \in Entries
      /\ job \in Jobs /\ job.left \in Seq(Seq(STRING)) /\ job.left # << >>
      /\ entry \in [Files -> Entries]
      /\ stored \in [Files -> Seq(Seq(STRING))]
  BY <1>1, <1>2 DEF TailerInv, Typed, Working, Jobs, Bytestring
<1>4. /\ batch \in Seq(Seq(STRING)) /\ rest \in Seq(Seq(STRING))
      /\ batch \o rest = job.left
  BY <1>2, <1>3, BatchIs
<1>5. /\ stored[f] \in Seq(Seq(STRING)) /\ Bytes(stored[f]) \in Nat
      /\ Bytes(batch) \in Nat
      /\ stored[f] \o batch \in Seq(Seq(STRING))
      /\ Bytes(stored[f] \o batch) = Bytes(stored[f]) + Bytes(batch)
  BY <1>3, <1>4, BytesType, BytesConcat
<1>6. (stored[f] \o batch) \o rest = stored[f] \o job.left
  <2>1. stored[f] \o (batch \o rest) = (stored[f] \o batch) \o rest
    BY <1>4, <1>5, <1>0, Zenon
  <2> QED
    BY <2>1, <1>4
<1>7. /\ stored' \in [Files -> Seq(Seq(STRING))]
      /\ stored'[f] = stored[f] \o batch
      /\ \A g \in Files : g # f => stored'[g] = stored[g]
  BY <1>2, <1>3, <1>5
<1>8. /\ entry' \in [Files -> Entries]
      /\ \A g \in Files : g # f => entry'[g] = entry[g]
      /\ entry'[f].consumed = entry[f].consumed + Bytes(batch)
      /\ entry'[f].seen /\ entry'[f].stable = entry[f].stable
  <2>1. PICK c : c = entry[f].consumed + Bytes(batch)
    OBVIOUS
  <2>2. c \in Nat
    BY <2>1, <1>3, <1>5 DEF Entries
  <2>3. entry' = [entry EXCEPT ![f] = [entry[f] EXCEPT !.consumed = c]]
    BY <2>1, <1>2, <1>3
  <2>4. [entry[f] EXCEPT !.consumed = c] \in Entries
    BY <2>2, <1>3 DEF Entries
  <2>5. entry'[f] = [entry[f] EXCEPT !.consumed = c]
        /\ entry' \in [Files -> Entries]
        /\ \A g \in Files : g # f => entry'[g] = entry[g]
    BY <2>3, <2>4, <1>3
  <2> QED
    BY <2>1, <2>5, <1>3 DEF Entries
<1>9. /\ job' \in Jobs /\ job'.at = "store" /\ job'.file = f
      /\ job'.final = job.final /\ job'.left = rest
  BY <1>1, <1>2, <1>3, <1>4 DEF Jobs, Bytestring
<1>10. Typed'
  BY <1>2, <1>3, <1>7, <1>8, <1>9 DEF Typed, Whole, Bytestring
<1>11. Working'
  BY <1>2, <1>3, <1>8, <1>9 DEF Working
<1>12. ASSUME NEW g \in Files \ spoiled' PROVE Unspoiled(g)'
  <2>1. Unspoiled(g) /\ g \in Files
    BY <1>2 DEF TailerInv
  <2>2. CASE g # f
    <3>1. ~(entry[g].stable >= StableTicks)
      BY <2>1, <2>2, <1>1 DEF Unspoiled, QuietIsFinal
    <3>2. /\ entry'[g] = entry[g] /\ ~(job'.at = "store" /\ job'.file = g)
          /\ text'[g] = text[g] /\ size'[g] = size[g]
          /\ stored'[g] = stored[g] /\ (up' => up /\ resume'[g] = resume[g])
      BY <2>1, <2>2, <1>2, <1>7, <1>8, <1>9
    <3> QED
      BY <2>1, <3>1, <3>2, Untouched
  <2>3. CASE g = f
    <3>1. PICK x, w : x = stored[f] \o batch /\ w = Whole(f)
      OBVIOUS
    <3>2. Bytes(x \o rest) <= size[f]
          /\ FlattenSeq(x \o rest) = SubSeq(w, 1, Bytes(x \o rest))
      BY <3>1, <2>1, <2>3, <1>1, <1>2, <1>6
         DEF Unspoiled, JobContinues, Begin
    <3>3. /\ x \in Seq(Seq(STRING)) /\ w \in Seq(STRING)
          /\ size[f] \in Nat /\ size[f] <= Len(w) /\ Len(w) \in Nat
      BY <3>1, <1>3, <1>5, WholeType DEF Bytestring, Typed
    <3>4. Bytes(x) \in Nat /\ Bytes(x \o rest) \in Nat
      BY <3>3, <1>4, BytesType, BytesConcat
    <3>5. Bytes(x \o rest) <= Len(w)
      BY <3>2, <3>3, <3>4
    <3>6. /\ Bytes(x) <= Bytes(x \o rest)
          /\ FlattenSeq(x) = SubSeq(w, 1, Bytes(x))
      BY <3>2, <3>3, <3>5, <1>4, BeginPart
    <3>7. Begin(g, stored[g])'
      <4>1. /\ stored'[g] = x /\ size'[g] = size[f] /\ Whole(g)' = w
        BY <3>1, <2>3, <1>2, <1>7 DEF Whole
      <4>2. Bytes(x) <= size[f]
        BY <3>2, <3>3, <3>4, <3>6
      <4> QED
        BY <4>1, <4>2, <3>6 DEF Begin
    <3>8. OffsetKnown(g)'
      BY <2>1, <2>3, <1>2, <1>3, <1>5, <1>7, <1>8
         DEF Unspoiled, OffsetKnown
    <3>9. QuietIsFinal(g)'
      BY <2>1, <2>3, <1>8, <1>9 DEF Unspoiled, QuietIsFinal
    <3>10. JobContinues(g)'
      <4>1. ~job.final =>
              /\ Bytes(stored[f] \o job.left) < size[f]
              /\ ~IsContinuation(Whole(f)[Bytes(stored[f] \o job.left) + 1])
        BY <2>1, <2>3, <1>1, <1>2 DEF Unspoiled, JobContinues
      <4>2. (stored[f] \o job.left) = (stored'[f] \o rest)
        BY <1>6, <1>7
      <4> QED
        BY <4>1, <4>2, <3>1, <3>2, <2>3, <1>2, <1>7, <1>9
           DEF JobContinues, Begin, Whole
    <3> QED
      BY <3>7, <3>8, <3>9, <3>10 DEF Unspoiled
  <2> QED
    BY <2>2, <2>3
<1> QED
  BY <1>10, <1>11, <1>12 DEF TailerInv

\* The call returns, and a final one with the tick counters reset.
LEMMA IngestedSound == ASSUME TailerInv, Ingested PROVE TailerInv'
<1>1. PICK f : f = job.file
  OBVIOUS
<1>2. /\ job.at = "store" /\ job' = NoJob
      /\ entry' = [entry EXCEPT ![f] =
                     IF job.final
                     THEN [entry[f] EXCEPT !.stable = 0, !.growing = 0]
                     ELSE entry[f]]
      /\ UNCHANGED <<text, size, up, resume, todo, stored, spoiled>>
  BY <1>1 DEF Ingested
<1>3. /\ Typed /\ f \in Files /\ entry[f] \in Entries /\ entry[f].seen
      /\ entry \in [Files -> Entries]
  BY <1>1, <1>2 DEF TailerInv, Typed, Working
<1>4. /\ entry' \in [Files -> Entries]
      /\ \A g \in Files : g # f => entry'[g] = entry[g]
      /\ entry'[f].consumed = entry[f].consumed /\ entry'[f].seen
      /\ entry'[f].stable = IF job.final THEN 0 ELSE entry[f].stable
  <2>1. PICK e : e = IF job.final
                     THEN [entry[f] EXCEPT !.stable = 0, !.growing = 0]
                     ELSE entry[f]
    OBVIOUS
  <2>2. /\ e \in Entries /\ e.consumed = entry[f].consumed /\ e.seen
        /\ e.stable = IF job.final THEN 0 ELSE entry[f].stable
    BY <2>1, <1>3 DEF Entries
  <2>3. entry' = [entry EXCEPT ![f] = e]
    BY <2>1, <1>2
  <2> QED
    BY <2>2, <2>3, <1>3
<1>5. NoJob \in Jobs /\ NoJob.at = "none"
  BY EmptySeq DEF NoJob, Jobs
<1>6. Typed'
  BY <1>2, <1>3, <1>4, <1>5 DEF Typed, Whole
<1>7. Working'
  BY <1>2, <1>5 DEF Working
<1>8. ASSUME NEW g \in Files \ spoiled' PROVE Unspoiled(g)'
  <2>1. Unspoiled(g) /\ g \in Files
    BY <1>2 DEF TailerInv
  <2>2. CASE g # f
    <3>1. ~(entry[g].stable >= StableTicks)
      BY <2>1, <2>2, <1>1 DEF Unspoiled, QuietIsFinal
    <3>2. /\ entry'[g] = entry[g] /\ ~(job'.at = "store" /\ job'.file = g)
          /\ text'[g] = text[g] /\ size'[g] = size[g]
          /\ stored'[g] = stored[g] /\ (up' => up /\ resume'[g] = resume[g])
      BY <2>1, <2>2, <1>2, <1>4, <1>5
    <3> QED
      BY <2>1, <3>1, <3>2, Untouched
  <2>3. CASE g = f
    <3>1. Begin(g, stored[g])'
      BY <2>1, <1>2 DEF Unspoiled, Begin, Whole
    <3>2. OffsetKnown(g)'
      BY <2>1, <2>3, <1>2, <1>3, <1>4 DEF Unspoiled, OffsetKnown
    <3>3. ~(entry'[f].stable >= StableTicks)
      <4>1. CASE job.final
        BY <4>1, <1>4, TailerAssumption
      <4>2. CASE ~job.final
        BY <4>2, <2>1, <2>3, <1>4 DEF Unspoiled, QuietIsFinal
      <4> QED
        BY <4>1, <4>2
    <3>4. QuietIsFinal(g)' /\ JobContinues(g)'
      BY <2>3, <3>3, <1>2, <1>5 DEF QuietIsFinal, JobContinues
    <3> QED
      BY <3>1, <3>2, <3>4 DEF Unspoiled
  <2> QED
    BY <2>2, <2>3
<1> QED
  BY <1>6, <1>7, <1>8 DEF TailerInv

-----------------------------------------------------------------------------
(* The theorems.                                                           *)

\* The invariant of the tailer.
LEMMA TailerInvariant ==
  ASSUME DistinctNames PROVE Spec => []TailerInv
<1>1. Init => TailerInv
  BY InitSound
<1>2. TailerInv /\ [Next]_vars => TailerInv'
  <2> SUFFICES ASSUME TailerInv, [Next]_vars PROVE TailerInv'
    OBVIOUS
  <2>1. CASE Next
    BY <2>1, TickSound, LookSound, OpenSound, StoreBatchSound, IngestedSound,
       OpenFailsSound, StartSound, DownSound, TruncateSound, WriteSound
       DEF Next, PollStep
  <2>2. CASE UNCHANGED vars
    BY <2>2 DEF vars, TailerInv, Typed, Working, Unspoiled, Begin, Whole,
                OffsetKnown, QuietIsFinal, JobContinues
  <2> QED
    BY <2>1, <2>2
<1> QED
  BY <1>1, <1>2, PTL DEF Spec

\* Every watched file that was only appended to and could be opened is stored
\* once, byte for byte from its start, whatever the starts, kills and appends
\* in between; the offset a restart will continue from is what the store has;
\* and a job on a file that still grows cuts it only at ends of events
\* (poll_loop, ingest_file, RawStore::ingested_bytes).
THEOREM TailedSoundly ==
  ASSUME DistinctNames PROVE Spec => []TailerSound
<1>1. TailerInv => TailerSound
  <2> SUFFICES ASSUME TailerInv PROVE TailerSound
    OBVIOUS
  <2>1. Typed /\ \A f \in Files \ spoiled : Unspoiled(f)
    BY DEF TailerInv
  <2>2. ASSUME NEW f \in Files \ spoiled
        PROVE  /\ IsPrefix(FlattenSeq(stored[f]), Content(f))
               /\ entry[f].consumed <= size[f] /\ entry[f].stable <= StableTicks
               /\ entry[f].seen => entry[f].consumed = Bytes(stored[f])
    <3>1. /\ Unspoiled(f) /\ f \in Files /\ entry[f] \in Entries
          /\ size[f] \in Nat
      BY <2>1 DEF Typed
    <3>2. /\ stored[f] \in Seq(Seq(STRING)) /\ Bytes(stored[f]) \in Nat
          /\ FlattenSeq(stored[f]) \in Seq(STRING)
          /\ Bytes(stored[f]) = Len(FlattenSeq(stored[f]))
      BY <2>1, StoredType, BytesType DEF Bytes
    <3>3. /\ Whole(f) \in Seq(STRING) /\ size[f] \in 0 .. Len(Whole(f))
          /\ Content(f) = SubSeq(Whole(f), 1, size[f])
      BY <2>1, <3>1, WholeType DEF Bytestring
    <3>4. /\ Bytes(stored[f]) <= size[f]
          /\ FlattenSeq(stored[f]) = SubSeq(Whole(f), 1, Bytes(stored[f]))
      BY <3>1 DEF Unspoiled, Begin
    <3>5. Len(Content(f)) = size[f]
      BY <3>3, FrontIs
    <3>6. SubSeq(Content(f), 1, Bytes(stored[f])) = FlattenSeq(stored[f])
      BY <3>2, <3>3, <3>4, FrontOfFront
    <3>7. SubSeq(FlattenSeq(stored[f]), 1, Len(FlattenSeq(stored[f])))
            = FlattenSeq(stored[f])
      BY <3>2, SubSeqFull
    <3>8. IsPrefix(FlattenSeq(stored[f]), Content(f))
      BY <3>2, <3>4, <3>5, <3>6, <3>7 DEF IsPrefix
    <3>9. entry[f].seen => entry[f].consumed = Bytes(stored[f])
      BY <3>1 DEF Unspoiled, OffsetKnown
    <3>10. entry[f].consumed <= size[f]
      BY <3>1, <3>2, <3>4, <3>9 DEF Unspoiled, OffsetKnown
    <3>11. entry[f].stable <= StableTicks
      BY <3>1, TailerAssumption DEF Unspoiled, QuietIsFinal, Entries
    <3> QED
      BY <3>8, <3>9, <3>10, <3>11
  <2>3. TypeOK
    <3>1. \A f \in Files : /\ text[f] \in DOMAIN Texts[f]
                           /\ size[f] \in 0 .. Len(Texts[f][text[f]])
      <4> SUFFICES ASSUME NEW f \in Files
                   PROVE  /\ text[f] \in DOMAIN Texts[f]
                          /\ size[f] \in 0 .. Len(Texts[f][text[f]])
        OBVIOUS
      <4>1. Texts[f] \in Seq(Bytestring) /\ text[f] \in 1 .. Len(Texts[f])
        BY <2>1, TailerAssumption DEF Typed, Bytestring
      <4>2. DOMAIN Texts[f] = 1 .. Len(Texts[f])
        BY <4>1, LenProperties
      <4>3. size[f] \in 0 .. Len(Whole(f))
        BY <2>1, WholeType
      <4> QED
        BY <4>1, <4>2, <4>3 DEF Whole
    <3> QED
      BY <3>1, <2>1, <2>2 DEF TypeOK, Typed, Jobs
  <2>4. TailedOnce
    BY <2>2 DEF TailedOnce
  <2>5. OffsetIsStored
    BY <2>2 DEF OffsetIsStored
  <2>6. StreamCutsNothing
    <3> SUFFICES ASSUME job.at = "store", ~job.final, job.left # << >>,
                        job.file \notin spoiled
                 PROVE  LET end == Bytes(stored[job.file]) + Bytes(job.left)
                        IN  /\ end < size[job.file]
                            /\ ~IsContinuation(Content(job.file)[end + 1])
      BY DEF StreamCutsNothing
    <3>1. PICK f : f = job.file
      OBVIOUS
    <3>2. f \in Files /\ Unspoiled(f) /\ size[f] \in Nat
      BY <3>1, <2>1 DEF TailerInv, Working, Typed
    <3>3. PICK end : end = Bytes(stored[f]) + Bytes(job.left)
      OBVIOUS
    <3>4. /\ stored[f] \in Seq(Seq(STRING)) /\ job.left \in Seq(Seq(STRING))
      BY <2>1, <3>2 DEF Typed, Jobs, Bytestring
    <3>5. end = Bytes(stored[f] \o job.left) /\ end \in Nat
      BY <3>3, <3>4, BytesConcat, BytesType
    <3>6. end < size[f] /\ ~IsContinuation(Whole(f)[end + 1])
      BY <3>1, <3>2, <3>5 DEF Unspoiled, JobContinues
    <3>7. /\ Whole(f) \in Seq(STRING) /\ size[f] \in 0 .. Len(Whole(f))
          /\ Content(f) = SubSeq(Whole(f), 1, size[f])
      BY <2>1, <3>2, WholeType DEF Bytestring
    <3>8. \A i \in 1 .. size[f] : Content(f)[i] = Whole(f)[i]
      BY <3>7, FrontIs
    <3>9. end + 1 \in 1 .. size[f]
      BY <3>2, <3>5, <3>6
    <3> QED
      BY <3>1, <3>3, <3>6, <3>8, <3>9
  <2> QED
    BY <2>3, <2>4, <2>5, <2>6 DEF TailerSound
<1> QED
  BY <1>1, TailerInvariant, PTL
=============================================================================
