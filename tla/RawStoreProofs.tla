--------------------------- MODULE RawStoreProofs ---------------------------
(***************************************************************************)
(* What RawStore promises, for every set of payloads, every buffer size    *)
(* and every number of records, kills, power losses and failing writes.    *)
(*                                                                         *)
(* The argument.  Of a segment f and an index x, Layout(f, x, g) says that *)
(* the first g entries describe records lying end to end; Beyond(f, x, g)  *)
(* says that no entry after them can be mistaken for one.  Together they   *)
(* determine where recover's backward loop stops (LastGoodIs).  While the  *)
(* store is down or recovering, Disk(g) states them of the two files.      *)
(* While it is written, Layout holds of what the files will be when the    *)
(* two buffers have been drained (Segment, Index), and all that lies       *)
(* behind the cursors is zero; a crash cuts both somewhere behind what was *)
(* flushed or synced, and Cut says that such a cut leaves a Disk again.    *)
(***************************************************************************)
EXTENDS RawStore, SequenceTheorems, WellFoundedInduction, NaturalsInduction,
        TLAPS

\* A complete record lies at off: Complete, whatever its id.
Starts(f, off) ==
  /\ off >= 1 /\ off + 1 <= Len(f)
  /\ IsHeader(f[off + 1])
  /\ RecordEnd(f, off) <= Len(f)

\* The offset behind record n - 1; behind the file magic when n is 0.
EndOf(f, x, n) == IF n = 0 THEN 1 ELSE RecordEnd(f, x[n].off)

\* Entry n describes record n - 1, which lies right behind its predecessor and
\* is linked to it.
Whole(f, x, n) ==
  /\ Starts(f, x[n].off)
  /\ f[x[n].off + 1].id = n - 1
  /\ x[n].off = EndOf(f, x, n - 1)
  /\ x[n].chain \in Seq(Payloads)
  /\ x[n].chain = ChainStep(StoredChain(x, n - 1), f[x[n].off + 1].sum)

\* The first g entries are whole, and their records lie in order.
Layout(f, x, g) ==
  /\ g \in 0 .. Len(x)
  /\ \A n \in 1 .. g : Whole(f, x, n)
  /\ \A m, n \in 0 .. g : m <= n => EndOf(f, x, m) <= EndOf(f, x, n)

\* No entry behind the first g passes the backward loop's test.  Either all of
\* them have lost their chain value; or some have not, and then the record
\* they are for is torn, as is the one the forward loop would look at.
Beyond(f, x, g) ==
  \/ \A m \in g + 1 .. Len(x) : x[m].chain = BadChain
  \/ /\ ~Starts(f, EndOf(f, x, g))
     /\ \A m \in g + 1 .. Len(x) : x[m].chain = BadChain \/ ~Starts(f, x[m].off)

\* The payload and the header of record n - 1.
Bytes(f, x, n) == Body(f, x[n].off)

Mark(f, x, n) == f[x[n].off + 1]

\* The payload has the digest its header records.
Hashed(f, x, n) == Bytes(f, x, n) = Mark(f, x, n).sum

\* The records of the i synced entries lie in the e synced cells.
Synced(f, x, i, e) == i > 0 => EndOf(f, x, i) <= e

\* What the reader r has mapped of a segment of l cells, of which g entries
\* are in the index.
Mapped(r, l, f, x, g) ==
  r.at # "none" =>
    /\ r.idx <= g
    /\ r.at \in {"seg", "ready"} =>
         r.seg <= l /\ (r.idx > 0 => EndOf(f, x, r.idx) <= r.seg)
    /\ r.at = "ready" => r.count <= r.idx

\* What the two files hold when no writer's buffer is in play: g good records,
\* among them the promised ones with their bytes and the synced ones; and, in
\* the absence of what Ordinary excludes, nothing behind them in the index.
Disk(g) ==
  /\ Layout(seg, idx, g) /\ Beyond(seg, idx, g)
  /\ promised <= g /\ promised <= Len(log)
  /\ \A n \in 1 .. promised : Bytes(seg, idx, n) = log[n]
  /\ idxDur <= g /\ Synced(seg, idx, idxDur, segDur)
  /\ Ordinary => /\ g = Len(idx)
                 /\ \A n \in 1 .. g : Hashed(seg, idx, n)
                 /\ Mapped(reader, Len(seg), seg, idx, g)

\* No process has the store open.
Down == pc \in {"down", "refused"} =>
  /\ \E g \in Nat : Disk(g)
  /\ segBuf = << >> /\ idxBuf = << >> /\ segPos = 0 /\ idxPos = 0
  /\ ~failed /\ head = << >>
  /\ promised > 0 => hdr = "good" /\ seg # << >> /\ seg[1] = Magic
  /\ pc = "refused" => promised = 0

\* recover is under way: the files hold nextId good records, zero_tail has
\* zeroed what it has passed.
Recovering == pc \in {"reindex", "zeroIdx", "zeroSeg"} =>
  /\ Disk(nextId)
  /\ segLen = EndOf(seg, idx, nextId) /\ segLen <= Len(seg)
  /\ head = StoredChain(idx, nextId)
  /\ segBuf = << >> /\ idxBuf = << >> /\ ~failed
  /\ hdr = "good" /\ seg # << >> /\ seg[1] = Magic
  /\ indexed <= Len(idx) /\ (Len(idx) <= indexed \/ Len(idx) = nextId)
  /\ pc = "reindex" => segPos = 0 /\ idxPos = 0
  /\ pc = "zeroIdx" =>
       /\ segPos = segLen
       /\ nextId <= idxPos /\ idxPos <= Len(idx)
       /\ \A m \in nextId + 1 .. idxPos : idx[m] = ZeroEntry
  /\ pc = "zeroSeg" =>
       /\ idxPos = nextId
       /\ \A m \in nextId + 1 .. Len(idx) : idx[m] = ZeroEntry
       /\ segLen <= segPos /\ segPos <= Len(seg)
       /\ \A i \in segLen + 1 .. segPos : seg[i] = Zero

\* The two files as they will be once both buffers are drained.
Segment == SubSeq(seg, 1, segPos) \o segBuf

Index == SubSeq(idx, 1, idxPos) \o idxBuf

\* The store is open for appending.
Writing == Running =>
  /\ segPos <= Len(seg) /\ idxPos <= Len(idx)
  /\ Len(Index) = nextId
  /\ Layout(Segment, Index, nextId)
  /\ segLen = EndOf(Segment, Index, nextId) /\ segLen <= Len(Segment)
  /\ failed \/ segLen = Len(Segment)
  /\ head = StoredChain(Index, nextId)
  /\ \A i \in segPos + 1 .. Len(seg) : seg[i] = Zero
  /\ \A m \in idxPos + 1 .. Len(idx) : idx[m] = ZeroEntry
  /\ Len(log) = nextId
  /\ \A n \in 1 .. nextId : Bytes(Segment, Index, n) = log[n]
  /\ promised <= idxPos /\ EndOf(Segment, Index, promised) <= segPos
  /\ idxDur <= idxPos /\ Synced(Segment, Index, idxDur, segDur)
  /\ EndOf(Segment, Index, idxDur) <= segPos
  /\ hdr = "good" /\ seg[1] = Magic
  /\ pc = "flushIdx" => segBuf = << >>
  /\ Ordinary => /\ Len(idx) = idxPos
                 /\ EndOf(Segment, Index, idxPos) <= segPos
                 /\ \A n \in 1 .. nextId : Hashed(Segment, Index, n)
                 /\ Mapped(reader, Len(seg), Segment, Index, idxPos)

\* The inductive invariant.
StoreInv == TypeOK /\ Down /\ Recovering /\ Writing
-----------------------------------------------------------------------------
(* Sequences: what WriteAt and SubSeq return.                              *)

\* A bounded nonempty set of numbers has a largest member.
LEMMA LargestBelow ==
  ASSUME NEW N \in Nat, NEW S \in SUBSET (0 .. N), S # {}
  PROVE  \E g \in S : \A k \in S : k <= g
<1> DEFINE R == {N - k : k \in S}
<1>0. PICK k0 \in S : TRUE
  OBVIOUS
<1>1. R \subseteq Nat /\ R # {}
  <2>1. N - k0 \in R
    OBVIOUS
  <2> QED
    BY <2>1
<1>2. \E r \in R : \A q \in R : ~(<<q, r>> \in OpToRel(<, Nat))
  BY <1>1, NatLessThanWellFounded, WFMin, Zenon
<1>3. PICK r \in R : \A q \in R : ~(<<q, r>> \in OpToRel(<, Nat))
  BY <1>2
<1>4. \A q \in R : ~(q < r)
  BY <1>1, <1>3 DEF OpToRel
<1>5. PICK g \in S : r = N - g
  OBVIOUS
<1>6. \A k \in S : N - k \in R
  OBVIOUS
<1> HIDE DEF R
<1>7. \A k \in S : k <= g
  <2> TAKE k \in S
  <2>1. ~(N - k < r)
    BY <1>4, <1>6
  <2> QED
    BY <1>5, <2>1
<1> QED
  BY <1>7

\* What write_all leaves: the cells written, and the old ones around them.
LEMMA WriteAtIs ==
  ASSUME NEW S, NEW f \in Seq(S), NEW c \in Seq(S), NEW at \in 0 .. Len(f)
  PROVE  LET w == WriteAt(f, at, c) IN
         /\ w \in Seq(S)
         /\ Len(w) = IF Len(f) > at + Len(c) THEN Len(f) ELSE at + Len(c)
         /\ \A i \in 1 .. Len(w) :
              w[i] = IF i > at /\ i <= at + Len(c) THEN c[i - at] ELSE f[i]
<1> DEFINE L == IF Len(f) > at + Len(c) THEN Len(f) ELSE at + Len(c)
           w == WriteAt(f, at, c)
<1>1. L \in Nat /\ Len(f) \in Nat /\ Len(c) \in Nat /\ L >= Len(f)
  OBVIOUS
<1>2. \A i \in 1 .. L : ~(i > at /\ i <= at + Len(c)) => i \in 1 .. Len(f)
  BY <1>1
<1>3. \A i \in 1 .. L : (i > at /\ i <= at + Len(c)) => i - at \in 1 .. Len(c)
  BY <1>1
<1>4. w = [i \in 1 .. L |->
             IF i > at /\ i <= at + Len(c) THEN c[i - at] ELSE f[i]]
  BY DEF WriteAt
<1>5. \A i \in 1 .. L :
        (IF i > at /\ i <= at + Len(c) THEN c[i - at] ELSE f[i]) \in S
  BY <1>2, <1>3
<1> HIDE DEF w, L
<1>6. w \in [1 .. L -> S]
  BY <1>4, <1>5
<1>7. w \in Seq(S) /\ Len(w) = L
  BY <1>1, <1>6
<1> QED
  BY <1>4, <1>7 DEF w, L

\* Writing the first k cells of a buffer and keeping the rest changes nothing
\* of what file and buffer hold together.
LEMMA Drain ==
  ASSUME NEW S, NEW f \in Seq(S), NEW b \in Seq(S), NEW at \in 0 .. Len(f),
         NEW k \in 0 .. Len(b)
  PROVE  LET w == WriteAt(f, at, SubSeq(b, 1, k)) IN
         /\ w \in Seq(S) /\ at + k <= Len(w) /\ Len(f) <= Len(w)
         /\ SubSeq(w, 1, at + k) \o SubSeq(b, k + 1, Len(b))
              = SubSeq(f, 1, at) \o b
         /\ \A i \in at + k + 1 .. Len(w) : i \in 1 .. Len(f) /\ w[i] = f[i]
         /\ \A i \in 1 .. at : w[i] = f[i]
         /\ Len(w) = IF Len(f) > at + k THEN Len(f) ELSE at + k
<1> DEFINE c == SubSeq(b, 1, k)
           w == WriteAt(f, at, c)
           d == SubSeq(b, k + 1, Len(b))
           u == SubSeq(w, 1, at + k)
           v == SubSeq(f, 1, at)
<1>0. at \in Nat /\ k \in Nat /\ Len(b) \in Nat /\ Len(f) \in Nat
  OBVIOUS
<1>1. c \in Seq(S) /\ Len(c) = k /\ \A i \in 1 .. k : c[i] = b[i]
  OBVIOUS
<1>2. /\ d \in Seq(S) /\ Len(d) = Len(b) - k
      /\ \A i \in 1 .. Len(b) - k : d[i] = b[k + i]
  OBVIOUS
<1>3. v \in Seq(S) /\ Len(v) = at /\ \A i \in 1 .. at : v[i] = f[i]
  OBVIOUS
<1> HIDE DEF c, d, v
<1>4. /\ w \in Seq(S)
      /\ Len(w) = IF Len(f) > at + k THEN Len(f) ELSE at + k
      /\ \A i \in 1 .. Len(w) :
           w[i] = IF i > at /\ i <= at + k THEN c[i - at] ELSE f[i]
  BY <1>1, WriteAtIs
<1> HIDE DEF w
<1>5. at + k <= Len(w) /\ Len(f) <= Len(w) /\ at + k \in Nat
  BY <1>4
<1>6. /\ u \in Seq(S) /\ Len(u) = at + k
      /\ \A i \in 1 .. at + k : u[i] = w[i]
  BY <1>4, <1>5
<1> HIDE DEF u
<1>7. /\ u \o d \in Seq(S) /\ Len(u \o d) = at + Len(b)
      /\ v \o b \in Seq(S) /\ Len(v \o b) = at + Len(b)
  <2>1. u \o d \in Seq(S) /\ Len(u \o d) = (at + k) + (Len(b) - k)
    BY <1>2, <1>6, ConcatProperties
  <2>2. v \o b \in Seq(S) /\ Len(v \o b) = at + Len(b)
    BY <1>3, ConcatProperties
  <2> QED
    BY <2>1, <2>2
<1>8. \A i \in 1 .. at + Len(b) : (u \o d)[i] = (v \o b)[i]
  <2> TAKE i \in 1 .. at + Len(b)
  <2>1. (u \o d)[i] = IF i <= at + k THEN u[i] ELSE d[i - (at + k)]
    <3>1. i \in 1 .. Len(u) + Len(d)
      BY <1>2, <1>6
    <3> QED
      BY SMTT(30), <3>1, <1>2, <1>6, ConcatProperties
  <2>2. (v \o b)[i] = IF i <= at THEN v[i] ELSE b[i - at]
    BY <1>3, ConcatProperties
  <2>3. CASE i <= at
    <3>1. i \in 1 .. at /\ i \in 1 .. at + k /\ i \in 1 .. Len(w)
      BY <2>3, <1>0, <1>5
    <3>2. w[i] = f[i]
      BY <3>1, <2>3, <1>0, <1>4
    <3>3. u[i] = w[i] /\ v[i] = f[i] /\ i <= at + k
      BY <3>1, <1>0, <1>3, <1>6
    <3> QED
      BY <3>2, <3>3, <2>1, <2>2, <2>3
  <2>4. CASE i > at /\ i <= at + k
    <3>1. /\ i \in 1 .. at + k /\ i \in 1 .. Len(w) /\ i - at \in 1 .. k
          /\ ~(i <= at)
      BY <2>4, <1>5
    <3> QED
      BY <3>1, <2>1, <2>2, <2>4, <1>1, <1>4, <1>6
  <2>5. CASE i > at + k
    <3>1. i - (at + k) \in 1 .. Len(b) - k /\ k + (i - (at + k)) = i - at
      BY <2>5
    <3>2. ~(i <= at + k) /\ ~(i <= at)
      BY <2>5
    <3> QED
      BY <3>1, <3>2, <2>1, <2>2, <1>2
  <2>6. i <= at \/ (i > at /\ i <= at + k) \/ i > at + k
    BY <1>0
  <2> QED
    BY <2>3, <2>4, <2>5, <2>6, Zenon
<1>9. u \o d = v \o b
  BY <1>7, <1>8, SeqEqual
<1>10. \A i \in at + k + 1 .. Len(w) : i \in 1 .. Len(f) /\ w[i] = f[i]
  BY <1>4, <1>5
<1>11. \A i \in 1 .. at : w[i] = f[i]
  BY <1>4, <1>5
<1> QED
  BY <1>4, <1>5, <1>9, <1>10, <1>11 DEF w, c, d, u, v

\* The type, the length and the members of a subsequence.
LEMMA SubIs ==
  ASSUME NEW S, NEW f \in Seq(S), NEW lo \in Nat \ {0}, NEW hi \in Nat,
         hi <= Len(f)
  PROVE  /\ SubSeq(f, lo, hi) \in Seq(S)
         /\ Len(SubSeq(f, lo, hi)) = IF lo <= hi THEN hi - lo + 1 ELSE 0
         /\ \A i \in 1 .. hi - lo + 1 : SubSeq(f, lo, hi)[i] = f[lo + i - 1]
<1>1. \A i \in lo .. hi : f[i] \in S
  OBVIOUS
<1> QED
  BY <1>1, SubSeqProperties

\* Sequences that agree on lo .. hi have the same subsequence there.
LEMMA SubSame ==
  ASSUME NEW S, NEW f \in Seq(S), NEW h \in Seq(S), NEW lo \in Nat \ {0},
         NEW hi \in Nat, hi <= Len(f), hi <= Len(h),
         \A i \in lo .. hi : f[i] = h[i]
  PROVE  SubSeq(f, lo, hi) = SubSeq(h, lo, hi)
<1>1. \A i \in lo .. hi : f[i] \in S /\ h[i] \in S
  OBVIOUS
<1>2. /\ SubSeq(f, lo, hi) \in Seq(S)
      /\ Len(SubSeq(f, lo, hi)) = IF lo <= hi THEN hi - lo + 1 ELSE 0
      /\ \A i \in 1 .. hi - lo + 1 : SubSeq(f, lo, hi)[i] = f[lo + i - 1]
  BY <1>1, SubSeqProperties
<1>3. /\ SubSeq(h, lo, hi) \in Seq(S)
      /\ Len(SubSeq(h, lo, hi)) = IF lo <= hi THEN hi - lo + 1 ELSE 0
      /\ \A i \in 1 .. hi - lo + 1 : SubSeq(h, lo, hi)[i] = h[lo + i - 1]
  BY <1>1, SubSeqProperties
<1>4. \A i \in 1 .. Len(SubSeq(f, lo, hi)) :
        SubSeq(f, lo, hi)[i] = SubSeq(h, lo, hi)[i]
  <2> TAKE i \in 1 .. Len(SubSeq(f, lo, hi))
  <2>1. i \in 1 .. hi - lo + 1 /\ lo + i - 1 \in lo .. hi
    BY <1>2
  <2> QED
    BY <2>1, <1>2, <1>3
<1> QED
  BY <1>2, <1>3, <1>4, SeqEqual

-----------------------------------------------------------------------------
(* Layouts: what changes them and what does not.                         *)

\* The numbers in a layout: where records start and end, and that they lie
\* inside the segment.
LEMMA Measured ==
  ASSUME NEW f \in Seq(Cell), NEW x \in Seq(Entry), NEW g, Layout(f, x, g)
  PROVE  /\ g \in Nat /\ g <= Len(x)
         /\ \A n \in 0 .. g : EndOf(f, x, n) \in Nat /\ EndOf(f, x, n) >= 1
         /\ \A n \in 1 .. g :
              /\ x[n].off \in Nat /\ x[n].off >= 1
              /\ f[x[n].off + 1] \in Headers
              /\ EndOf(f, x, n) = x[n].off + 1 + f[x[n].off + 1].len
              /\ EndOf(f, x, n) = RecordEnd(f, x[n].off)
              /\ x[n].off + 1 <= EndOf(f, x, n) /\ EndOf(f, x, n) <= Len(f)
              /\ x[n].off = EndOf(f, x, n - 1)
<1>1. g \in Nat /\ g <= Len(x)
  BY DEF Layout
<1>2. ASSUME NEW n \in 1 .. g
      PROVE  /\ x[n].off \in Nat /\ x[n].off >= 1
             /\ f[x[n].off + 1] \in Headers
             /\ EndOf(f, x, n) = x[n].off + 1 + f[x[n].off + 1].len
             /\ EndOf(f, x, n) = RecordEnd(f, x[n].off)
             /\ x[n].off + 1 <= EndOf(f, x, n) /\ EndOf(f, x, n) <= Len(f)
             /\ x[n].off = EndOf(f, x, n - 1)
             /\ EndOf(f, x, n) \in Nat /\ EndOf(f, x, n) >= 1
  <2>1. Whole(f, x, n)
    BY DEF Layout
  <2>2. x[n].off \in Nat
    <3>1. n \in 1 .. Len(x)
      BY <1>1
    <3>2. x[n] \in Entry
      BY <3>1, ElementOfSeq
    <3> QED
      BY <3>2 DEF Entry
  <2>3. /\ x[n].off >= 1 /\ f[x[n].off + 1] \in Headers
        /\ RecordEnd(f, x[n].off) <= Len(f) /\ x[n].off = EndOf(f, x, n - 1)
    BY <2>1 DEF Whole, Starts, IsHeader
  <2>4. f[x[n].off + 1].len \in Nat
    BY <2>3 DEF Headers
  <2>5. EndOf(f, x, n) = x[n].off + 1 + f[x[n].off + 1].len
    BY <1>1 DEF EndOf, RecordEnd
  <2>6. EndOf(f, x, n) = RecordEnd(f, x[n].off)
    BY <1>1 DEF EndOf
  <2> QED
    BY <2>2, <2>3, <2>4, <2>5, <2>6
<1>3. EndOf(f, x, 0) = 1
  BY DEF EndOf
<1>4. \A n \in 0 .. g : n = 0 \/ n \in 1 .. g
  BY <1>1
<1> QED
  BY <1>1, <1>2, <1>3, <1>4

\* The cell behind an offset that lies in front of an end lies in front of any
\* later end.
LEMMA Within ==
  ASSUME NEW o \in Nat, NEW m \in Nat, NEW e \in Nat, o + 1 <= m, m <= e
  PROVE  o + 1 \in 1 .. e
OBVIOUS

\* f2 and x2 have the entries and the headers of the first h records.
Agree(f, x, f2, x2, h) ==
  /\ h <= Len(x2)
  /\ \A n \in 1 .. h : x2[n] = x[n] /\ f2[x[n].off + 1] = f[x[n].off + 1]
  /\ h > 0 => EndOf(f, x, h) <= Len(f2)

\* A layout depends on the entries and on the header cells only.
LEMMA SameHeaders ==
  ASSUME NEW f \in Seq(Cell), NEW x \in Seq(Entry), NEW g, Layout(f, x, g),
         NEW f2 \in Seq(Cell), NEW x2 \in Seq(Entry), NEW h \in 0 .. g,
         Agree(f, x, f2, x2, h)
  PROVE  /\ Layout(f2, x2, h)
         /\ \A n \in 0 .. h : EndOf(f2, x2, n) = EndOf(f, x, n)
<1>0. g \in Nat /\ h \in Nat /\ \A n \in 1 .. h : n \in 1 .. g
  BY Measured
<1> USE DEF Agree
<1>1. ASSUME NEW n \in 0 .. h PROVE EndOf(f2, x2, n) = EndOf(f, x, n)
  <2>1. n = 0 \/ n \in 1 .. h
    BY <1>0
  <2> QED
    BY <2>1 DEF EndOf, RecordEnd
<1>2. ASSUME NEW n \in 1 .. h PROVE Whole(f2, x2, n)
  <2>1. Whole(f, x, n)
    BY <1>0 DEF Layout
  <2>2. /\ x[n].off \in Nat /\ x[n].off >= 1
        /\ EndOf(f, x, n) = RecordEnd(f, x[n].off)
        /\ x[n].off + 1 <= EndOf(f, x, n) /\ EndOf(f, x, n) \in Nat
        /\ EndOf(f, x, n) <= EndOf(f, x, h) /\ EndOf(f, x, h) \in Nat
    <3>1. n \in 1 .. g /\ n \in 0 .. g /\ h \in 0 .. g /\ n <= h
      BY <1>0
    <3>2. EndOf(f, x, n) <= EndOf(f, x, h)
      BY <3>1 DEF Layout
    <3> QED
      BY <3>1, <3>2, Measured
  <2>3. EndOf(f, x, n) <= Len(f2)
    BY <2>2, <1>0
  <2>4. RecordEnd(f2, x2[n].off) = RecordEnd(f, x[n].off)
    BY DEF RecordEnd
  <2>5. Starts(f2, x2[n].off)
    BY SMTT(30), <2>1, <2>2, <2>3, <2>4 DEF Whole, Starts
  <2>6. EndOf(f2, x2, n - 1) = EndOf(f, x, n - 1)
    BY SMTT(30), <1>0, <1>1
  <2>7. StoredChain(x2, n - 1) = StoredChain(x, n - 1)
    <3>1. n - 1 = 0 \/ n - 1 \in 1 .. h
      BY <1>0
    <3> QED
      BY <3>1 DEF StoredChain
  <2> QED
    BY <2>1, <2>5, <2>6, <2>7 DEF Whole
<1>3. \A m, n \in 0 .. h : m <= n => EndOf(f2, x2, m) <= EndOf(f2, x2, n)
  BY <1>0, <1>1 DEF Layout
<1> QED
  BY <1>0, <1>1, <1>2, <1>3 DEF Layout

\* f2 and x2 have the first h entries and, up to e, the cells.
AgreeTo(f, x, f2, x2, h, e) ==
  /\ h <= Len(x2) /\ e \in Nat /\ e <= Len(f) /\ e <= Len(f2)
  /\ \A n \in 1 .. h : x2[n] = x[n]
  /\ \A i \in 1 .. e : f2[i] = f[i]
  /\ h > 0 => EndOf(f, x, h) <= e

\* A change of the segment behind the end of record h - 1, and of the index
\* behind entry h, leaves the first h records as they were.
LEMMA SameBelow ==
  ASSUME NEW f \in Seq(Cell), NEW x \in Seq(Entry), NEW g, Layout(f, x, g),
         NEW f2 \in Seq(Cell), NEW x2 \in Seq(Entry), NEW h \in 0 .. g,
         NEW e, AgreeTo(f, x, f2, x2, h, e)
  PROVE  /\ Layout(f2, x2, h)
         /\ \A n \in 0 .. h : EndOf(f2, x2, n) = EndOf(f, x, n)
         /\ \A n \in 1 .. h : /\ Bytes(f2, x2, n) = Bytes(f, x, n)
                              /\ Mark(f2, x2, n) = Mark(f, x, n)
<1> USE DEF AgreeTo
<1>0. g \in Nat /\ h \in Nat /\ \A n \in 1 .. h : n \in 1 .. g
  BY Measured
<1>1. ASSUME NEW n \in 1 .. h
      PROVE  /\ x[n].off \in Nat /\ x[n].off >= 1
             /\ EndOf(f, x, n) = RecordEnd(f, x[n].off)
             /\ EndOf(f, x, n) \in Nat /\ EndOf(f, x, n) <= e
             /\ x[n].off + 1 <= EndOf(f, x, n)
  <2>1. n \in 1 .. g /\ n \in 0 .. g /\ h \in 0 .. g /\ n <= h /\ h > 0
    BY <1>0
  <2>2. EndOf(f, x, n) <= EndOf(f, x, h) /\ EndOf(f, x, h) <= e
    BY <2>1 DEF Layout
  <2>3. EndOf(f, x, n) \in Nat /\ EndOf(f, x, h) \in Nat
    BY <2>1, Measured
  <2> QED
    BY <2>1, <2>2, <2>3, Measured
<1>2. ASSUME NEW n \in 1 .. h
      PROVE  f2[x[n].off + 1] = f[x[n].off + 1]
  <2>1. /\ x[n].off \in Nat /\ EndOf(f, x, n) \in Nat
        /\ EndOf(f, x, n) <= e /\ x[n].off + 1 <= EndOf(f, x, n)
    BY <1>1
  <2>2. e \in Nat
    OBVIOUS
  <2>3. x[n].off + 1 \in 1 .. e
    BY <2>1, <2>2, Within
  <2> QED
    BY <2>3
<1>3. h > 0 => EndOf(f, x, h) <= Len(f2)
  BY <1>0, <1>1
<1>4. /\ Layout(f2, x2, h)
      /\ \A n \in 0 .. h : EndOf(f2, x2, n) = EndOf(f, x, n)
  <2>1. Agree(f, x, f2, x2, h)
    BY <1>2, <1>3 DEF Agree
  <2> QED
    BY <2>1, SameHeaders
<1>5. ASSUME NEW n \in 1 .. h
      PROVE  Body(f2, x2[n].off) = Body(f, x[n].off)
  <2> DEFINE lo == x[n].off + 2
             hi == RecordEnd(f, x[n].off)
  <2>1. lo \in Nat \ {0} /\ hi \in Nat /\ hi <= e
    BY SMTT(30), <1>1
  <2>2. RecordEnd(f2, x2[n].off) = hi
    BY <1>2 DEF RecordEnd
  <2>3. \A i \in lo .. hi : f2[i] = f[i]
    BY <2>1
  <2>4. hi <= Len(f) /\ hi <= Len(f2)
    BY <2>1
  <2> HIDE DEF lo, hi
  <2>5. SubSeq(f2, lo, hi) = SubSeq(f, lo, hi)
    BY <2>1, <2>3, <2>4, SubSame
  <2> QED
    BY <2>2, <2>5 DEF Body, lo, hi
<1>6. \A n \in 1 .. h : Mark(f2, x2, n) = Mark(f, x, n)
  BY <1>2 DEF Mark
<1> QED
  BY <1>4, <1>5, <1>6 DEF Bytes

\* f2 and x2 are f and x cut after a cells and b entries, zeros behind.
CutAt(f, x, g, f2, x2, a, b) ==
  /\ a \in 0 .. Len(f) /\ b \in 0 .. Len(x)
  /\ a <= Len(f2) /\ b <= Len(x2)
  /\ Len(f2) <= Len(f) \/ g = Len(x)
  /\ \A i \in 1 .. a : f2[i] = f[i]
  /\ \A i \in a + 1 .. Len(f2) : f2[i] = Zero
  /\ \A m \in 1 .. b : x2[m] = x[m]
  /\ \A m \in b + 1 .. Len(x2) : x2[m].chain = BadChain

\* A record found in a segment that was cut was there before the cut.
LEMMA NothingStarts ==
  ASSUME NEW f \in Seq(Cell), NEW f2 \in Seq(Cell), NEW a \in Nat,
         a <= Len(f), \A i \in 1 .. a : f2[i] = f[i],
         \A i \in a + 1 .. Len(f2) : f2[i] = Zero,
         NEW off \in Nat, Starts(f2, off)
  PROVE  /\ off + 1 <= a
         /\ f2[off + 1] = f[off + 1] /\ RecordEnd(f2, off) = RecordEnd(f, off)
         /\ Len(f2) <= Len(f) => Starts(f, off)
<1>1. off + 1 \in 1 .. Len(f2) /\ off >= 1 /\ f2[off + 1] \in Headers
  BY DEF Starts, IsHeader
<1>2. f2[off + 1] # Zero
  BY <1>1, StoreAssumption
<1>3. off + 1 <= a
  BY <1>1, <1>2
<1>4. f2[off + 1] = f[off + 1]
  BY <1>1, <1>3
<1>5. RecordEnd(f2, off) = RecordEnd(f, off)
  BY <1>4 DEF RecordEnd
<1>6. RecordEnd(f2, off) \in Nat
  BY <1>1 DEF RecordEnd, Headers
<1>7. RecordEnd(f2, off) <= Len(f2)
  BY DEF Starts
<1>8. Len(f2) \in Nat /\ Len(f) \in Nat
  OBVIOUS
<1>9. Len(f2) <= Len(f) => RecordEnd(f, off) <= Len(f)
  BY <1>5, <1>6, <1>7, <1>8
<1>10. off + 1 <= Len(f)
  BY <1>3, <1>8
<1> QED
  BY <1>1, <1>3, <1>4, <1>5, <1>9, <1>10 DEF Starts, IsHeader

\* The crash lemma: cut a segment after a cells and an index after b entries,
\* with nothing but zeros behind, and what remains is again a layout with
\* nothing beyond it; it keeps every record both cuts spared, and its bytes.
LEMMA Cut ==
  ASSUME NEW f \in Seq(Cell), NEW x \in Seq(Entry), NEW g,
         Layout(f, x, g), Beyond(f, x, g),
         NEW f2 \in Seq(Cell), NEW x2 \in Seq(Entry), NEW a, NEW b,
         CutAt(f, x, g, f2, x2, a, b)
  PROVE  \E h \in 0 .. g :
           /\ h <= b /\ Layout(f2, x2, h) /\ Beyond(f2, x2, h)
           /\ \A n \in 0 .. h : EndOf(f2, x2, n) = EndOf(f, x, n)
           /\ \A n \in 1 .. g : n <= b /\ EndOf(f, x, n) <= a => n <= h
           /\ \A n \in 1 .. h : EndOf(f, x, n) <= a =>
                /\ Bytes(f2, x2, n) = Bytes(f, x, n)
                /\ Mark(f2, x2, n) = Mark(f, x, n)
<1> DEFINE S == {n \in 0 .. g : n > 0 => /\ n <= b /\ x[n].off + 1 <= a
                                         /\ EndOf(f, x, n) <= Len(f2)}
<1>1. /\ g \in Nat /\ a \in Nat /\ b \in Nat /\ a <= Len(f) /\ b <= Len(x)
      /\ g <= Len(x) /\ Len(f) \in Nat /\ Len(x) \in Nat /\ Len(f2) \in Nat
      /\ Len(x2) \in Nat /\ a <= Len(f2) /\ b <= Len(x2)
  BY Measured DEF CutAt
<1>2. 0 \in S /\ S \in SUBSET (0 .. g)
  BY <1>1
<1>3. PICK h \in S : \A k \in S : k <= h
  BY <1>1, <1>2, LargestBelow
<1>4. /\ h \in 0 .. g /\ h \in Nat
      /\ h > 0 => /\ h <= b /\ x[h].off + 1 <= a
                  /\ EndOf(f, x, h) <= Len(f2)
  BY <1>1, <1>3
<1>5. \A n \in 1 .. g : n > h =>
        ~(/\ n <= b /\ x[n].off + 1 <= a /\ EndOf(f, x, n) <= Len(f2))
  <2> SUFFICES ASSUME NEW n \in 1 .. g, n > h, n <= b, x[n].off + 1 <= a,
                      EndOf(f, x, n) <= Len(f2)
               PROVE  FALSE
    OBVIOUS
  <2>1. n \in S
    BY <1>1
  <2> QED
    BY <2>1, <1>1, <1>3, <1>4
<1> HIDE DEF S
<1>6. /\ \A n \in 0 .. g : EndOf(f, x, n) \in Nat
      /\ \A n \in 1 .. g : /\ x[n].off \in Nat /\ x[n].off >= 1
                           /\ x[n].off + 1 <= EndOf(f, x, n)
                           /\ x[n].off = EndOf(f, x, n - 1)
                           /\ EndOf(f, x, n) = RecordEnd(f, x[n].off)
  BY Measured
<1>7. \A m, n \in 0 .. g : m <= n => EndOf(f, x, m) <= EndOf(f, x, n)
  BY DEF Layout
<1>8. ASSUME NEW n \in 1 .. h PROVE x[n].off + 1 <= a
  <2>1. h > 0 /\ n \in 1 .. g /\ h \in 1 .. g /\ n \in 0 .. g
    BY <1>1, <1>4
  <2>2. CASE n = h
    BY <2>1, <2>2, <1>4
  <2>3. CASE n # h
    <3>1. n <= h - 1 /\ h - 1 \in 0 .. g
      BY <2>1, <2>3, <1>1, <1>4
    <3>2. EndOf(f, x, n) <= EndOf(f, x, h - 1)
      BY <3>1, <2>1, <1>7
    <3>3. EndOf(f, x, n) \in Nat /\ x[h].off = EndOf(f, x, h - 1)
          /\ x[h].off \in Nat /\ x[n].off + 1 <= EndOf(f, x, n)
          /\ x[n].off \in Nat
      BY <2>1, <1>6
    <3> QED
      BY SMTT(30), <3>2, <3>3, <2>1, <1>1, <1>4
  <2> QED
    BY <2>2, <2>3
<1>9. Agree(f, x, f2, x2, h)
  <2>1. h <= Len(x2) /\ h <= b
    BY <1>1, <1>4
  <2>2. ASSUME NEW n \in 1 .. h
        PROVE  x2[n] = x[n] /\ f2[x[n].off + 1] = f[x[n].off + 1]
    <3>1. n \in 1 .. b /\ n \in 1 .. g
      BY <2>1, <1>1, <1>4
    <3>2. x[n].off + 1 \in 1 .. a
      BY SMTT(30), <3>1, <1>1, <1>6, <1>8
    <3> QED
      BY <3>1, <3>2 DEF CutAt
  <2> QED
    BY <2>1, <2>2, <1>4 DEF Agree
<1>10. /\ Layout(f2, x2, h)
       /\ \A n \in 0 .. h : EndOf(f2, x2, n) = EndOf(f, x, n)
  BY <1>4, <1>9, SameHeaders
<1>11. ASSUME NEW off \in Nat, Starts(f2, off)
       PROVE  /\ off + 1 <= a
              /\ f2[off + 1] = f[off + 1]
              /\ RecordEnd(f2, off) = RecordEnd(f, off)
              /\ Len(f2) <= Len(f) => Starts(f, off)
  BY <1>1, <1>11, NothingStarts DEF CutAt
<1>12. ASSUME NEW m \in h + 1 .. Len(x2), m > g
       PROVE  x2[m].chain = BadChain \/ ~Starts(f2, x2[m].off)
  <2>1. CASE m > b
    BY <2>1, <1>1, <1>4, <1>12 DEF CutAt
  <2>2. CASE m <= b
    <3>1. x2[m] = x[m] /\ m \in g + 1 .. Len(x) /\ g # Len(x)
      BY <2>2, <1>1, <1>4, <1>12 DEF CutAt
    <3>2. Len(f2) <= Len(f)
      BY <3>1 DEF CutAt
    <3>3. x[m].off \in Nat
      <4>1. x[m] \in Entry
        BY <3>1, <1>1, ElementOfSeq
      <4> QED
        BY <4>1 DEF Entry
    <3>4. x[m].chain = BadChain \/ ~Starts(f, x[m].off)
      BY <3>1 DEF Beyond
    <3> QED
      BY <3>1, <3>2, <3>3, <3>4, <1>11
  <2> QED
    BY <2>1, <2>2, <1>1, <1>12
<1>13. Beyond(f2, x2, h)
  <2>1. CASE h >= b
    <3>1. \A m \in h + 1 .. Len(x2) : m \in b + 1 .. Len(x2)
      BY <2>1, <1>1, <1>4
    <3> QED
      BY <3>1 DEF Beyond, CutAt
  <2>2. CASE h < b /\ h < g
    <3> DEFINE n == h + 1
    <3>1. n \in 1 .. g /\ n <= b /\ n > h /\ n \in 0 .. g
      BY <2>2, <1>1, <1>4
    <3>2. x[n].off = EndOf(f, x, h)
      BY <3>1, <1>6, <1>4
    <3>3. x[n].off + 1 > a \/ EndOf(f, x, n) > Len(f2)
      <4> HIDE DEF n
      <4>1. ~(x[n].off + 1 <= a /\ EndOf(f, x, n) <= Len(f2))
        BY <3>1, <1>5
      <4>2. x[n].off \in Nat /\ EndOf(f, x, n) \in Nat
        BY <3>1, <1>6
      <4> QED
        BY <4>1, <4>2, <1>1
    <3> HIDE DEF n
    <3>4. ASSUME NEW m \in n .. g, m <= b
          PROVE  ~Starts(f2, x[m].off)
      <4> SUFFICES ASSUME Starts(f2, x[m].off) PROVE FALSE
        OBVIOUS
      <4>1. m \in 1 .. g /\ m \in 0 .. g /\ m - 1 \in 0 .. g
        BY <3>1, <1>1
      <4>2. /\ x[m].off \in Nat /\ EndOf(f, x, m) \in Nat
            /\ x[m].off = EndOf(f, x, m - 1) /\ x[n].off \in Nat
            /\ EndOf(f, x, m) = RecordEnd(f, x[m].off)
        BY <4>1, <3>1, <1>6
      <4>3. /\ x[m].off + 1 <= a
            /\ RecordEnd(f2, x[m].off) = RecordEnd(f, x[m].off)
        BY <4>2, <1>11
      <4>4. EndOf(f, x, m) <= Len(f2)
        BY <4>2, <4>3 DEF Starts
      <4>5. x[n].off <= x[m].off /\ EndOf(f, x, n) <= EndOf(f, x, m)
        <5>1. h <= m - 1 /\ h \in 0 .. g /\ n <= m
          BY <3>1, <1>1, <1>4 DEF n
        <5> QED
          BY <5>1, <4>1, <4>2, <3>1, <3>2, <1>7
      <4>6. EndOf(f, x, n) \in Nat
        BY <3>1, <1>6
      <4> QED
        BY SMTT(30), <4>2, <4>3, <4>4, <4>5, <4>6, <3>3, <1>1
    <3>5. ~Starts(f2, EndOf(f2, x2, h))
      <4>1. EndOf(f2, x2, h) = x[n].off
        BY <3>2, <1>4, <1>10
      <4>2. n \in n .. g
        BY <3>1, <1>1
      <4> QED
        BY <4>1, <4>2, <3>1, <3>4
    <3>6. ASSUME NEW m \in h + 1 .. Len(x2)
          PROVE  x2[m].chain = BadChain \/ ~Starts(f2, x2[m].off)
      <4>1. CASE m > g
        BY <4>1, <1>12
      <4>2. CASE m > b
        <5>1. m \in b + 1 .. Len(x2)
          BY <4>2, <1>1, <1>4
        <5> QED
          BY <5>1 DEF CutAt
      <4>3. CASE m <= g /\ m <= b
        <5>1. m \in n .. g /\ m \in 1 .. b
          BY <4>3, <1>1, <1>4 DEF n
        <5>2. x2[m] = x[m]
          BY <5>1 DEF CutAt
        <5> QED
          BY <4>3, <5>1, <5>2, <3>4
      <4> QED
        BY <4>1, <4>2, <4>3, <1>1, <1>4
    <3> QED
      BY <3>5, <3>6 DEF Beyond
  <2>3. CASE h < b /\ h = g
    <3>1. \A m \in h + 1 .. Len(x2) : m > g
      BY <2>3, <1>1
    <3>2. Len(f2) <= Len(f)
      BY <2>3, <1>1 DEF CutAt
    <3>3. CASE \A m \in g + 1 .. Len(x) : x[m].chain = BadChain
      <4>1. ASSUME NEW m \in h + 1 .. Len(x2)
            PROVE  x2[m].chain = BadChain
        <5>1. CASE m <= b
          <6>1. m \in 1 .. b /\ m \in g + 1 .. Len(x)
            BY <5>1, <2>3, <1>1, <1>4
          <6> QED
            BY <6>1, <3>3 DEF CutAt
        <5>2. CASE m > b
          <6>1. m \in b + 1 .. Len(x2)
            BY <5>2, <1>1, <1>4
          <6> QED
            BY <6>1 DEF CutAt
        <5> QED
          BY <5>1, <5>2, <1>1, <1>4
      <4> QED
        BY <4>1 DEF Beyond
    <3>4. CASE ~Starts(f, EndOf(f, x, g))
      <4>1. EndOf(f2, x2, h) = EndOf(f, x, g) /\ EndOf(f, x, g) \in Nat
        BY <2>3, <1>4, <1>6, <1>10
      <4>2. ~Starts(f2, EndOf(f2, x2, h))
        BY <4>1, <3>2, <3>4, <1>11
      <4> QED
        BY <4>2, <3>1, <1>12 DEF Beyond
    <3> QED
      BY <3>3, <3>4 DEF Beyond
  <2> QED
    BY <2>1, <2>2, <2>3, <1>1, <1>4
<1>14. ASSUME NEW n \in 1 .. g, n <= b, EndOf(f, x, n) <= a
       PROVE  n <= h
  <2>1. x[n].off + 1 <= a /\ EndOf(f, x, n) <= Len(f2)
    <3>1. n \in 0 .. g
      BY <1>1
    <3> QED
      BY SMTT(30), <3>1, <1>1, <1>6, <1>14
  <2> QED
    BY <2>1, <1>1, <1>4, <1>5, <1>14
<1>15. ASSUME NEW n \in 1 .. h, EndOf(f, x, n) <= a
       PROVE  /\ Bytes(f2, x2, n) = Bytes(f, x, n)
              /\ Mark(f2, x2, n) = Mark(f, x, n)
  <2>1. n \in 0 .. g /\ n \in 1 .. n /\ n <= Len(x2) /\ n <= b /\ n \in Nat
    BY <1>1, <1>4
  <2>2. \A k \in 1 .. n : x2[k] = x[k]
    BY <2>1, <1>1 DEF CutAt
  <2>3. \A i \in 1 .. a : f2[i] = f[i]
    BY DEF CutAt
  <2>4. AgreeTo(f, x, f2, x2, n, a)
    BY <2>1, <2>2, <2>3, <1>1, <1>15 DEF AgreeTo
  <2> QED
    BY <2>1, <2>4, SameBelow
<1>16. h <= b
  BY <1>1, <1>4
<1> QED
  BY <1>4, <1>10, <1>13, <1>14, <1>15, <1>16

\* The chain value of a good entry is a sequence of digests.
LEMMA ChainIsGood ==
  ASSUME NEW f \in Seq(Cell), NEW x \in Seq(Entry), NEW g, Layout(f, x, g),
         NEW n \in 0 .. g
  PROVE  StoredChain(x, n) \in Seq(Payloads)
<1>1. n = 0 \/ n \in 1 .. g
  BY Measured
<1>2. CASE n = 0
  BY <1>2 DEF StoredChain, Genesis
<1>3. CASE n \in 1 .. g
  <2>1. n # 0 /\ x[n].chain \in Seq(Payloads)
    BY <1>3, Measured DEF Layout, Whole
  <2> QED
    BY <2>1 DEF StoredChain
<1> QED
  BY <1>1, <1>2, <1>3

\* One more good entry extends a layout.
LEMMA Grow ==
  ASSUME NEW f \in Seq(Cell), NEW x \in Seq(Entry), NEW g, Layout(f, x, g),
         g < Len(x), x[g + 1].off = EndOf(f, x, g),
         Starts(f, EndOf(f, x, g)), f[EndOf(f, x, g) + 1].id = g,
         x[g + 1].chain
           = ChainStep(StoredChain(x, g), f[EndOf(f, x, g) + 1].sum)
  PROVE  /\ Layout(f, x, g + 1)
         /\ EndOf(f, x, g + 1) = RecordEnd(f, EndOf(f, x, g))
         /\ EndOf(f, x, g) < EndOf(f, x, g + 1)
<1> DEFINE e == EndOf(f, x, g)
<1>1. g \in Nat /\ e \in Nat /\ e >= 1 /\ Len(x) \in Nat
  BY Measured
<1>2. f[e + 1] \in Headers /\ RecordEnd(f, e) <= Len(f)
  BY DEF Starts, IsHeader
<1>3. f[e + 1].len \in Nat /\ f[e + 1].sum \in Payloads
  BY <1>2 DEF Headers
<1>4. RecordEnd(f, e) = e + 1 + f[e + 1].len
  BY DEF RecordEnd
<1>5. EndOf(f, x, g + 1) = RecordEnd(f, e)
  BY <1>1 DEF EndOf
<1>6. x[g + 1].chain \in Seq(Payloads)
  <2>1. g \in 0 .. g
    BY <1>1
  <2>2. StoredChain(x, g) \in Seq(Payloads)
    BY <2>1, ChainIsGood
  <2> QED
    BY <2>2, <1>3 DEF ChainStep
<1> HIDE DEF e
<1>7. Whole(f, x, g + 1)
  <2>1. (g + 1) - 1 = g
    BY <1>1
  <2> QED
    BY <2>1, <1>6 DEF Whole, e
<1>8. \A n \in 1 .. g + 1 : n \in 1 .. g \/ n = g + 1
  BY <1>1
<1>9. e < EndOf(f, x, g + 1)
  BY <1>1, <1>3, <1>4, <1>5
<1>10. ASSUME NEW m \in 0 .. g + 1, NEW n \in 0 .. g + 1, m <= n
       PROVE  EndOf(f, x, m) <= EndOf(f, x, n)
  <2>1. CASE n <= g
    <3>1. m \in 0 .. g /\ n \in 0 .. g
      BY <2>1, <1>1, <1>10
    <3> QED
      BY <3>1, <1>10 DEF Layout
  <2>2. CASE n = g + 1 /\ m = g + 1
    BY <2>2, <1>1, <1>3, <1>4, <1>5
  <2>3. CASE n = g + 1 /\ m <= g
    <3>1. m \in 0 .. g /\ g \in 0 .. g /\ m <= g
      BY <2>3, <1>1
    <3>2. EndOf(f, x, m) <= e /\ EndOf(f, x, m) \in Nat
      BY <3>1, Measured DEF Layout, e
    <3> QED
      BY <3>2, <2>3, <1>1, <1>3, <1>4, <1>5
  <2> QED
    BY <2>1, <2>2, <2>3, <1>1, <1>10
<1>11. g + 1 \in 0 .. Len(x)
  BY <1>1
<1>12. Layout(f, x, g + 1)
  BY <1>7, <1>8, <1>10, <1>11 DEF Layout
<1> QED
  BY <1>5, <1>9, <1>12 DEF e

\* f2 and x2 are f and x with one record of payload p more.
Lengthened(f, x, g, p, f2, x2) ==
  /\ f2 = f \o (<<Header(g, p)>> \o p)
  /\ x2 = Append(x, [off |-> Len(f),
                     chain |-> ChainStep(StoredChain(x, g), p)])

\* A record and its entry appended to a complete layout extend it.
LEMMA Appended ==
  ASSUME NEW f \in Seq(Cell), NEW x \in Seq(Entry), NEW g, Layout(f, x, g),
         g = Len(x), EndOf(f, x, g) = Len(f), NEW p \in Payloads,
         NEW f2, NEW x2, Lengthened(f, x, g, p, f2, x2)
  PROVE  /\ f2 \in Seq(Cell) /\ x2 \in Seq(Entry)
         /\ Layout(f2, x2, g + 1) /\ EndOf(f2, x2, g + 1) = Len(f2)
         /\ Len(f2) = Len(f) + 1 + Len(p)
         /\ \A n \in 0 .. g : EndOf(f2, x2, n) = EndOf(f, x, n)
         /\ \A n \in 1 .. g : /\ Bytes(f2, x2, n) = Bytes(f, x, n)
                              /\ Mark(f2, x2, n) = Mark(f, x, n)
         /\ Bytes(f2, x2, g + 1) = p /\ Mark(f2, x2, g + 1).sum = p
<1> DEFINE hd == Header(g, p)
           en == [off |-> Len(f), chain |-> ChainStep(StoredChain(x, g), p)]
<1>0. p \in Seq(Data) /\ Len(p) \in Nat /\ Data \subseteq Cell
  BY StoreAssumption DEF Cell
<1>1. g \in Nat /\ Len(f) \in Nat /\ Len(f) >= 1
  <2>1. g \in Nat /\ g \in 0 .. g
    BY Measured
  <2> QED
    BY <2>1, Measured
<1>2. hd \in Headers /\ hd \in Cell /\ hd.len = Len(p) /\ hd.sum = p
      /\ hd.id = g
  BY <1>0, <1>1 DEF Header, Headers, Cell
<1>3. StoredChain(x, g) \in Seq(Payloads)
  BY <1>1, ChainIsGood
<1>4. en \in Entry /\ en.off = Len(f)
      /\ en.chain = ChainStep(StoredChain(x, g), p)
  BY <1>1, <1>3 DEF Entry, ChainStep
<1> HIDE DEF hd, en
<1>5. p \in Seq(Cell)
  BY <1>0, SeqMonotonic
<1>6. /\ <<hd>> \o p \in Seq(Cell) /\ Len(<<hd>> \o p) = 1 + Len(p)
      /\ (<<hd>> \o p)[1] = hd
      /\ \A i \in 1 .. Len(p) : (<<hd>> \o p)[i + 1] = p[i]
  <2>1. <<hd>> \in Seq(Cell) /\ Len(<<hd>>) = 1 /\ <<hd>>[1] = hd
    BY <1>2
  <2>2. /\ <<hd>> \o p \in Seq(Cell) /\ Len(<<hd>> \o p) = 1 + Len(p)
        /\ \A i \in 1 .. 1 + Len(p) : (<<hd>> \o p)[i] =
             IF i <= 1 THEN <<hd>>[i] ELSE p[i - 1]
    BY <2>1, <1>5, ConcatProperties
  <2>3. \A i \in 1 .. Len(p) : /\ i + 1 \in 1 .. 1 + Len(p) /\ ~(i + 1 <= 1)
                               /\ (i + 1) - 1 = i
    BY <1>0
  <2>4. 1 \in 1 .. 1 + Len(p)
    BY <1>0
  <2> QED
    BY <2>1, <2>2, <2>3, <2>4
<1> DEFINE r == <<hd>> \o p
<1>7. f2 = f \o r
  BY DEF hd, Lengthened
<1> HIDE DEF r
<1>8. /\ f2 \in Seq(Cell) /\ Len(f2) = Len(f) + Len(r)
      /\ \A i \in 1 .. Len(f) + Len(r) :
           f2[i] = IF i <= Len(f) THEN f[i] ELSE r[i - Len(f)]
  <2>1. r \in Seq(Cell)
    BY <1>6 DEF r
  <2>2. /\ f \o r \in Seq(Cell) /\ Len(f \o r) = Len(f) + Len(r)
        /\ \A i \in 1 .. Len(f) + Len(r) :
             (f \o r)[i] = IF i <= Len(f) THEN f[i] ELSE r[i - Len(f)]
    BY <2>1, ConcatProperties
  <2> QED
    BY <2>2, <1>7, Zenon
<1>9. Len(r) = 1 + Len(p) /\ r[1] = hd /\ \A i \in 1 .. Len(p) : r[i + 1] = p[i]
  BY <1>6 DEF r
<1>10. \A i \in 1 .. Len(f) : f2[i] = f[i]
  <2>1. \A i \in 1 .. Len(f) : i \in 1 .. Len(f) + Len(r) /\ i <= Len(f)
    BY <1>0, <1>1, <1>9
  <2> QED
    BY <2>1, <1>8
<1>11. f2[Len(f) + 1] = hd
  <2>1. /\ Len(f) + 1 \in 1 .. Len(f) + Len(r) /\ ~(Len(f) + 1 <= Len(f))
        /\ (Len(f) + 1) - Len(f) = 1
    BY <1>0, <1>1, <1>9
  <2> QED
    BY <2>1, <1>8, <1>9
<1>12. \A i \in 1 .. Len(p) : f2[Len(f) + 1 + i] = p[i]
  <2> TAKE i \in 1 .. Len(p)
  <2>1. /\ Len(f) + 1 + i \in 1 .. Len(f) + Len(r)
        /\ ~(Len(f) + 1 + i <= Len(f))
        /\ (Len(f) + 1 + i) - Len(f) = i + 1
    BY <1>0, <1>1, <1>9
  <2> QED
    BY <2>1, <1>8, <1>9
<1>13. x2 = Append(x, en)
  BY DEF en, Lengthened
<1>14. /\ x2 \in Seq(Entry) /\ Len(x2) = g + 1 /\ x2[g + 1] = en
       /\ \A n \in 1 .. g : x2[n] = x[n]
  BY <1>1, <1>4, <1>13, AppendProperties
<1>15. /\ Layout(f2, x2, g)
       /\ \A n \in 0 .. g : EndOf(f2, x2, n) = EndOf(f, x, n)
       /\ \A n \in 1 .. g : /\ Bytes(f2, x2, n) = Bytes(f, x, n)
                            /\ Mark(f2, x2, n) = Mark(f, x, n)
  <2>1. Len(f) <= Len(f2) /\ g <= Len(x2) /\ g \in 0 .. g
        /\ (g > 0 => EndOf(f, x, g) <= Len(f)) /\ Len(f) <= Len(f)
    BY <1>0, <1>1, <1>8, <1>9, <1>14
  <2>2. AgreeTo(f, x, f2, x2, g, Len(f))
    BY <2>1, <1>1, <1>10, <1>14 DEF AgreeTo
  <2>3. g \in 0 .. g /\ f2 \in Seq(Cell) /\ x2 \in Seq(Entry)
    BY <2>1, <1>8, <1>14
  <2> QED
    BY <2>2, <2>3, SameBelow
<1>16. EndOf(f2, x2, g) = Len(f)
  BY <1>1, <1>15
<1>17. RecordEnd(f2, Len(f)) = Len(f2)
  <2>1. RecordEnd(f2, Len(f)) = Len(f) + 1 + Len(p)
    BY <1>2, <1>11 DEF RecordEnd
  <2> QED
    BY <2>1, <1>0, <1>1, <1>8, <1>9
<1>18. Starts(f2, Len(f))
  BY <1>0, <1>1, <1>2, <1>8, <1>9, <1>11, <1>17 DEF Starts, IsHeader
<1>19. StoredChain(x2, g) = StoredChain(x, g)
  <2>1. g = 0 \/ g \in 1 .. g
    BY <1>1
  <2> QED
    BY <2>1, <1>14 DEF StoredChain
<1>20. Layout(f2, x2, g + 1) /\ EndOf(f2, x2, g + 1) = Len(f2)
  <2>1. g < Len(x2)
    BY <1>1, <1>14
  <2>2. x2[g + 1].off = EndOf(f2, x2, g)
    BY <1>4, <1>14, <1>16
  <2>3. f2[EndOf(f2, x2, g) + 1].id = g /\ f2[EndOf(f2, x2, g) + 1].sum = p
    BY <1>2, <1>11, <1>16
  <2>4. Starts(f2, EndOf(f2, x2, g))
    BY <1>16, <1>18
  <2>5. x2[g + 1].chain
          = ChainStep(StoredChain(x2, g), f2[EndOf(f2, x2, g) + 1].sum)
    BY <2>3, <1>4, <1>14, <1>19
  <2>6. Layout(f2, x2, g + 1)
        /\ EndOf(f2, x2, g + 1) = RecordEnd(f2, EndOf(f2, x2, g))
    BY <2>1, <2>2, <2>3, <2>4, <2>5, <1>8, <1>14, <1>15, Grow
  <2> QED
    BY <2>6, <1>16, <1>17
<1>21. Body(f2, Len(f)) = p
  <2> DEFINE lo == Len(f) + 2
             hi == Len(f2)
  <2>1. /\ lo \in Int /\ hi \in Int /\ hi - lo + 1 = Len(p)
        /\ (IF lo <= hi THEN hi - lo + 1 ELSE 0) = Len(p)
    BY <1>0, <1>1, <1>8, <1>9
  <2>2. \A i \in lo .. hi : i - (lo - 1) \in 1 .. Len(p)
                            /\ i = Len(f) + 1 + (i - (lo - 1))
    BY <1>0, <1>1, <1>8, <1>9
  <2>4. \A i \in 1 .. Len(p) : lo + i - 1 = Len(f) + 1 + i
    BY <1>0, <1>1
  <2>5. Body(f2, Len(f)) = SubSeq(f2, lo, hi)
    BY <1>17 DEF Body
  <2> HIDE DEF lo, hi
  <2>6. /\ SubSeq(f2, lo, hi) \in Seq(Cell)
        /\ Len(SubSeq(f2, lo, hi)) = IF lo <= hi THEN hi - lo + 1 ELSE 0
        /\ \A i \in 1 .. hi - lo + 1 : SubSeq(f2, lo, hi)[i] = f2[lo + i - 1]
    <3>1. lo \in Nat \ {0} /\ hi \in Nat /\ hi <= Len(f2)
      BY <1>0, <1>1, <1>8, <1>9 DEF lo, hi
    <3> QED
      BY <3>1, <1>8, SubIs
  <2>7. Len(SubSeq(f2, lo, hi)) = Len(p)
    BY <2>1, <2>6
  <2>8. \A i \in 1 .. Len(p) : SubSeq(f2, lo, hi)[i] = p[i]
    BY <2>1, <2>4, <2>6, <1>12
  <2>9. SubSeq(f2, lo, hi) = p
    BY <2>6, <2>7, <2>8, <1>5, SeqEqual
  <2> QED
    BY <2>5, <2>9
<1>22. Len(f2) = Len(f) + 1 + Len(p)
  BY <1>0, <1>1, <1>8, <1>9
<1>23. Bytes(f2, x2, g + 1) = p /\ Mark(f2, x2, g + 1).sum = p
  BY <1>2, <1>4, <1>11, <1>14, <1>21 DEF Bytes, Mark
<1> QED
  BY <1>8, <1>14, <1>15, <1>20, <1>22, <1>23

\* An entry without chain value, or pointing at no record, does not pass the
\* backward loop.
LEMMA NothingHolds ==
  ASSUME seg \in Seq(Cell), idx \in Seq(Entry), NEW n \in 1 .. Len(idx),
         idx[n].chain = BadChain \/ ~Starts(seg, idx[n].off)
  PROVE  ~EntryHolds(n)
<1> SUFFICES ASSUME EntryHolds(n) PROVE FALSE
  OBVIOUS
<1> DEFINE s == seg[idx[n].off + 1].sum
           c == StoredChain(idx, n - 1)
<1>1. Starts(seg, idx[n].off)
  BY DEF EntryHolds, Complete, Starts
<1>2. s \in Payloads
  BY <1>1 DEF Starts, IsHeader, Headers
<1>3. Append(c, s) = <<Zero>>
  BY <1>1 DEF EntryHolds, ChainStep, BadChain
<1>4. c \in Seq(Payloads \cup {Zero})
  <2>1. CASE n = 1
    BY <2>1 DEF StoredChain, Genesis
  <2>2. CASE n # 1
    <3>1. n - 1 \in 1 .. Len(idx) /\ n - 1 # 0
      BY <2>2
    <3>2. idx[n - 1] \in Entry
      BY <3>1, ElementOfSeq
    <3>3. idx[n - 1].chain \in Seq(Payloads) \/ idx[n - 1].chain = <<Zero>>
      BY <3>2 DEF Entry, BadChain
    <3>4. <<Zero>> \in Seq(Payloads \cup {Zero})
      OBVIOUS
    <3>5. c = idx[n - 1].chain
      BY <3>1 DEF StoredChain
    <3>6. Payloads \subseteq Payloads \cup {Zero}
      OBVIOUS
    <3> QED
      BY <3>3, <3>4, <3>5, <3>6, SeqMonotonic
  <2> QED
    BY <2>1, <2>2
<1> HIDE DEF c, s
<1>5. Len(Append(c, s)) = Len(c) + 1 /\ Append(c, s)[Len(c) + 1] = s
  BY <1>2, <1>4, AppendProperties
<1>6. Len(c) = 0
  <2>1. Len(c) \in Nat /\ Len(<<Zero>>) = 1
    BY <1>4
  <2> QED
    BY <2>1, <1>3, <1>5
<1>7. s = Zero
  BY <1>3, <1>5, <1>6
<1> QED
  BY <1>2, <1>7, StoreAssumption

\* recover's backward loop stops at the end of the layout.
LEMMA LastGoodIs ==
  ASSUME seg \in Seq(Cell), idx \in Seq(Entry), NEW g,
         Layout(seg, idx, g), Beyond(seg, idx, g)
  PROVE  LastGoodEntry = g
<1> DEFINE P(n) == /\ n = 0 \/ EntryHolds(n)
                   /\ \A m \in n + 1 .. Len(idx) : ~EntryHolds(m)
<1>1. g \in Nat /\ g \in 0 .. Len(idx) /\ Len(idx) \in Nat
  BY Measured
<1>2. \A m \in g + 1 .. Len(idx) : ~EntryHolds(m)
  <2> TAKE m \in g + 1 .. Len(idx)
  <2>1. m \in 1 .. Len(idx)
    BY <1>1
  <2>2. idx[m].chain = BadChain \/ ~Starts(seg, idx[m].off)
    BY DEF Beyond
  <2> QED
    BY <2>1, <2>2, NothingHolds
<1>3. g = 0 \/ EntryHolds(g)
  <2>1. SUFFICES ASSUME g # 0 PROVE EntryHolds(g)
    OBVIOUS
  <2>2. g \in 1 .. g
    BY <2>1, <1>1
  <2>3. Whole(seg, idx, g)
    BY <2>2 DEF Layout
  <2> QED
    BY <2>3 DEF Whole, Starts, EntryHolds, Complete
<1>4. P(g)
  BY <1>2, <1>3
<1>5. \A n \in 0 .. Len(idx) : P(n) => n = g
  <2> SUFFICES ASSUME NEW n \in 0 .. Len(idx), P(n), n # g PROVE FALSE
    OBVIOUS
  <2>1. CASE n < g
    <3>1. g \in n + 1 .. Len(idx) /\ g # 0
      BY <2>1, <1>1
    <3> QED
      BY <3>1, <1>3
  <2>2. CASE n > g
    <3>1. n \in g + 1 .. Len(idx) /\ n # 0
      BY <2>2, <1>1
    <3> QED
      BY <3>1, <1>2
  <2> QED
    BY <2>1, <2>2, <1>1
<1> HIDE DEF P
<1>6. LastGoodEntry = CHOOSE n \in 0 .. Len(idx) : P(n)
  BY DEF LastGoodEntry, P
<1> QED
  BY <1>1, <1>4, <1>5, <1>6
-----------------------------------------------------------------------------

\* The members of a prefix followed by a buffer.
LEMMA ImageIs ==
  ASSUME NEW S, NEW f \in Seq(S), NEW b \in Seq(S), NEW at \in 0 .. Len(f)
  PROVE  LET t == SubSeq(f, 1, at) \o b IN
         /\ t \in Seq(S) /\ Len(t) = at + Len(b)
         /\ \A i \in 1 .. at : t[i] = f[i]
         /\ \A i \in 1 .. Len(b) : t[at + i] = b[i]
<1> DEFINE u == SubSeq(f, 1, at)
<1>1. u \in Seq(S) /\ Len(u) = at /\ \A i \in 1 .. at : u[i] = f[i]
  OBVIOUS
<1> HIDE DEF u
<1>2. at \in Nat /\ Len(b) \in Nat
  OBVIOUS
<1>3. /\ u \o b \in Seq(S) /\ Len(u \o b) = at + Len(b)
      /\ \A i \in 1 .. at + Len(b) :
           (u \o b)[i] = IF i <= at THEN u[i] ELSE b[i - at]
  BY <1>1, ConcatProperties
<1>4. \A i \in 1 .. at : i \in 1 .. at + Len(b) /\ i <= at
  BY <1>2
<1>5. \A i \in 1 .. Len(b) : /\ at + i \in 1 .. at + Len(b)
                             /\ ~(at + i <= at) /\ (at + i) - at = i
  BY <1>2
<1> QED
  BY <1>1, <1>3, <1>4, <1>5 DEF u

\* The types and lengths of Segment and Index while the store is written.
LEMMA Images ==
  ASSUME TypeOK, Writing, Running
  PROVE  /\ Segment \in Seq(Cell) /\ Len(Segment) = segPos + Len(segBuf)
         /\ Index \in Seq(Entry) /\ Len(Index) = idxPos + Len(idxBuf)
         /\ \A i \in 1 .. segPos : Segment[i] = seg[i]
         /\ \A n \in 1 .. idxPos : Index[n] = idx[n]
         /\ segPos \in 0 .. Len(seg) /\ idxPos \in 0 .. Len(idx)
         /\ Len(segBuf) \in Nat /\ Len(idxBuf) \in Nat
         /\ Len(Index) = nextId /\ nextId \in Nat /\ idxPos \in 0 .. nextId
         /\ Layout(Segment, Index, nextId)
         /\ \A n \in 0 .. nextId : EndOf(Segment, Index, n) \in Nat
         /\ seg \in Seq(Cell) /\ Len(seg) \in Nat
         /\ idx \in Seq(Entry) /\ Len(idx) \in Nat
         /\ segBuf \in Seq(Cell) /\ idxBuf \in Seq(Entry)
         /\ segPos \in Nat /\ idxPos \in Nat
<1>1. /\ seg \in Seq(Cell) /\ Len(seg) \in Nat
      /\ idx \in Seq(Entry) /\ Len(idx) \in Nat
      /\ segBuf \in Seq(Cell) /\ idxBuf \in Seq(Entry)
      /\ Len(segBuf) \in Nat /\ Len(idxBuf) \in Nat
      /\ segPos \in Nat /\ idxPos \in Nat /\ nextId \in Nat
  BY SMTT(30) DEF TypeOK
<1>2. segPos \in 0 .. Len(seg) /\ idxPos \in 0 .. Len(idx)
  BY <1>1 DEF Writing
<1>3. /\ Segment \in Seq(Cell) /\ Len(Segment) = segPos + Len(segBuf)
      /\ \A i \in 1 .. segPos : Segment[i] = seg[i]
  BY SMTT(30), <1>1, <1>2, ImageIs DEF Segment
<1>4. /\ Index \in Seq(Entry) /\ Len(Index) = idxPos + Len(idxBuf)
      /\ \A n \in 1 .. idxPos : Index[n] = idx[n]
  BY <1>1, <1>2, ImageIs DEF Index
<1>5. Len(Index) = nextId /\ Layout(Segment, Index, nextId)
  BY DEF Writing
<1>6. idxPos \in 0 .. nextId
  BY <1>1, <1>4, <1>5
<1>7. \A n \in 0 .. nextId : EndOf(Segment, Index, n) \in Nat
  BY <1>3, <1>4, <1>5, Measured
<1> QED
  BY <1>1, <1>2, <1>3, <1>4, <1>5, <1>6, <1>7

-----------------------------------------------------------------------------
(* Every step preserves StoreInv.                                        *)

\* The steps of a reader in another process preserve the invariant.
LEMMA ReaderStep ==
  ASSUME StoreInv, ReaderMapIdx \/ ReaderMapSeg \/ ReaderCount \/ ReaderClose
  PROVE  StoreInv'
<1>1. UNCHANGED <<seg, idx, hdr, segDur, idxDur, pc, segBuf, idxBuf, segPos,
                  idxPos, nextId, segLen, head, indexed, inBatch, failed, log,
                  promised, kills, powers, fails, outgrew>>
  BY DEF ReaderMapIdx, ReaderMapSeg, ReaderCount, ReaderClose, fileVars,
         writerVars, boundVars
<1>2. Segment' = Segment /\ Index' = Index /\ Ordinary' = Ordinary
  BY <1>1 DEF Segment, Index, Ordinary
<1>3. TypeOK
  BY DEF StoreInv
<1>4. seg \in Seq(Cell) /\ idx \in Seq(Entry) /\ Len(idx) \in Nat
      /\ Len(seg) \in Nat
  BY SMTT(30), <1>3 DEF TypeOK
<1>5. reader \in [at : {"none", "idx", "seg", "ready"}, idx : Nat, seg : Nat,
                  count : Nat]
  BY <1>3 DEF TypeOK
<1>6. reader' \in [at : {"none", "idx", "seg", "ready"}, idx : Nat, seg : Nat,
                   count : Nat]
  <2>1. CASE ReaderMapIdx \/ ReaderClose
    BY <2>1, <1>4 DEF ReaderMapIdx, ReaderClose
  <2>2. CASE ReaderMapSeg
    BY <2>2, <1>4, <1>5 DEF ReaderMapSeg
  <2>3. CASE ReaderCount
    <3>1. PICK n \in 0 .. reader.idx :
            reader' = [reader EXCEPT !.at = "ready", !.count = n]
      BY <2>3 DEF ReaderCount
    <3>2. reader.idx \in Nat /\ n \in Nat
      BY <1>5
    <3> QED
      BY <3>1, <3>2, <1>5
  <2> QED
    BY <2>1, <2>2, <2>3
<1>7. TypeOK'
  BY <1>1, <1>3, <1>6 DEF TypeOK
<1>8. ASSUME Ordinary,
             NEW STATE f, f \in Seq(Cell), NEW STATE x, x \in Seq(Entry),
             NEW STATE g, NEW STATE h,
             Layout(f, x, g), h \in 0 .. g, h > 0 => EndOf(f, x, h) <= Len(seg),
             Running => h = Len(idx), Mapped(reader, Len(seg), f, x, h)
      PROVE  Mapped(reader', Len(seg), f, x, h)
  <2>1. g \in Nat /\ h \in Nat /\ \A n \in 0 .. g : EndOf(f, x, n) \in Nat
    BY <1>8, Measured
  <2>2. CASE ReaderMapIdx
    <3>1. reader' = [at |-> "idx", idx |-> Len(idx), seg |-> 0, count |-> 0]
          /\ Running
      BY <2>2 DEF ReaderMapIdx, Running
    <3> QED
      BY <3>1, <1>4, <1>8, <2>1 DEF Mapped
  <2>3. CASE ReaderMapSeg
    <3>1. reader.at = "idx"
          /\ reader' = [at |-> "seg", idx |-> reader.idx, seg |-> Len(seg),
                        count |-> reader.count]
      BY <2>3, <1>5 DEF ReaderMapSeg
    <3>2. reader.idx <= h /\ reader.idx \in Nat
      BY <3>1, <1>5, <1>8 DEF Mapped
    <3>3. reader.idx > 0 => EndOf(f, x, reader.idx) <= Len(seg)
      <4> SUFFICES ASSUME reader.idx > 0
                   PROVE  EndOf(f, x, reader.idx) <= Len(seg)
        OBVIOUS
      <4>1. reader.idx \in 0 .. g /\ h \in 0 .. g /\ h > 0
        BY <3>2, <2>1, <1>8
      <4>2. EndOf(f, x, reader.idx) <= EndOf(f, x, h)
        BY <4>1, <3>2, <1>8 DEF Layout
      <4> QED
        BY <4>1, <4>2, <2>1, <1>4, <1>8
    <3> QED
      BY <3>1, <3>2, <3>3, <1>4 DEF Mapped
  <2>4. CASE ReaderCount
    <3>1. PICK n \in 0 .. reader.idx :
            reader' = [at |-> "ready", idx |-> reader.idx, seg |-> reader.seg,
                       count |-> n]
      BY <2>4, <1>5 DEF ReaderCount
    <3>2. reader.at = "seg"
      BY <2>4 DEF ReaderCount
    <3> QED
      BY <3>1, <3>2, <1>5, <1>8 DEF Mapped
  <2>5. CASE ReaderClose
    BY <2>5 DEF ReaderClose, Mapped
  <2> QED
    BY <2>2, <2>3, <2>4, <2>5
<1>9. ASSUME NEW g, Disk(g), ~Running PROVE Disk(g)'
  <2>1. Layout(seg, idx, g)
    BY <1>9 DEF Disk
  <2>2. g \in Nat /\ g \in 0 .. g /\ (g > 0 => EndOf(seg, idx, g) <= Len(seg))
    <3>1. g \in Nat
      BY <2>1, <1>4, Measured
    <3>2. g > 0 => g \in 1 .. g
      BY <3>1
    <3> QED
      BY <3>1, <3>2, <2>1, <1>4, Measured
  <2>3. Ordinary => Mapped(reader', Len(seg), seg, idx, g)
    <3>1. Ordinary => Mapped(reader, Len(seg), seg, idx, g)
      BY <1>9 DEF Disk
    <3> QED
      BY <3>1, <2>1, <2>2, <1>4, <1>8, <1>9
  <2> QED
    BY <2>3, <1>1, <1>2, <1>9 DEF Disk
<1>10. Down'
  BY <1>1, <1>9 DEF StoreInv, Down, Running
<1>11. Recovering'
  <2> SUFFICES ASSUME pc \in {"reindex", "zeroIdx", "zeroSeg"}
               PROVE  Recovering'
    BY <1>1 DEF Recovering
  <2>1. Disk(nextId) /\ ~Running
    BY DEF StoreInv, Recovering, Running
  <2>2. PICK g : g = nextId
    OBVIOUS
  <2>3. Disk(g)'
    BY <2>1, <2>2, <1>9
  <2>4. Disk(nextId)'
    BY <2>2, <2>3, <1>1 DEF Disk
  <2> QED
    BY <2>4, <1>1 DEF StoreInv, Recovering
<1>12. Writing'
  <2> SUFFICES ASSUME Running PROVE Writing'
    BY <1>1 DEF Writing, Running
  <2>1. Writing
    BY DEF StoreInv
  <2>2. Ordinary => Mapped(reader', Len(seg), Segment, Index, idxPos)
    <3> SUFFICES ASSUME Ordinary
                 PROVE  Mapped(reader', Len(seg), Segment, Index, idxPos)
      OBVIOUS
    <3>1. /\ Segment \in Seq(Cell) /\ Index \in Seq(Entry)
          /\ Layout(Segment, Index, nextId)
          /\ idxPos \in 0 .. nextId /\ EndOf(Segment, Index, idxPos) <= Len(seg)
      BY <2>1, <1>3, Images DEF Writing
    <3> QED
      BY <3>1, <2>1, <1>8 DEF Writing
  <2> QED
    BY <2>1, <2>2, <1>1, <1>2 DEF Writing, Running
<1> QED
  BY <1>7, <1>10, <1>11, <1>12 DEF StoreInv

\* A refused open preserves the invariant: it held no promised record.
LEMMA RefusedStep ==
  ASSUME StoreInv, OpenRefused
  PROVE  StoreInv'
<1>1. UNCHANGED <<seg, idx, hdr, segDur, idxDur, segBuf, idxBuf, segPos,
                  idxPos, nextId, segLen, head, indexed, inBatch, failed,
                  reader, log, promised, kills, powers, fails, outgrew>>
      /\ pc = "down" /\ pc' = "refused" /\ Refused
  BY DEF OpenRefused, fileVars, writerVars, boundVars
<1>2. TypeOK'
  BY <1>1 DEF StoreInv, TypeOK
<1>3. Recovering' /\ Writing'
  BY <1>1 DEF Recovering, Writing, Running
<1>4. Down /\ promised \in Nat
  BY DEF StoreInv, TypeOK
<1>5. PICK g \in Nat : Disk(g)
  BY <1>1, <1>4 DEF Down
<1>6. Disk(g)'
  BY <1>1, <1>5 DEF Disk, Ordinary
<1>7. promised = 0
  BY <1>1, <1>4 DEF Down, Refused
<1>8. Down'
  BY <1>1, <1>4, <1>6, <1>7 DEF Down
<1> QED
  BY <1>2, <1>3, <1>8 DEF StoreInv

\* open and the backward loop preserve the invariant.
LEMMA OpenStep ==
  ASSUME StoreInv, Open
  PROVE  StoreInv'
<1>1. /\ UNCHANGED <<idx, segDur, idxDur, segBuf, idxBuf, segPos, idxPos,
                     inBatch, failed, reader, log, promised, kills, powers,
                     fails, outgrew>>
      /\ pc = "down" /\ pc' = "reindex" /\ ~Refused /\ hdr' = "good"
      /\ seg' = (IF seg = << >> THEN <<Magic>> ELSE seg)
      /\ StartAt(LastGoodEntry) /\ indexed' = Len(idx)
  BY DEF Open, boundVars
<1>2. TypeOK /\ Down
  BY DEF StoreInv
<1>3. /\ seg \in Seq(Cell) /\ Len(seg) \in Nat /\ idx \in Seq(Entry)
      /\ Len(idx) \in Nat /\ promised \in Nat /\ idxDur \in Nat
  BY SMTT(30), <1>2 DEF TypeOK
<1>4. PICK g \in Nat : Disk(g)
  BY <1>1, <1>2 DEF Down
<1>5. Layout(seg, idx, g) /\ Beyond(seg, idx, g)
  BY <1>4 DEF Disk
<1>6. LastGoodEntry = g
  BY <1>3, <1>5, LastGoodIs
<1>7. g \in 0 .. g /\ g <= Len(idx) /\ EndOf(seg, idx, g) \in Nat
  BY <1>3, <1>5, Measured
<1>8. /\ nextId' = g /\ segLen' = EndOf(seg, idx, g)
      /\ head' = StoredChain(idx, g)
  BY <1>1, <1>6 DEF StartAt, EndOf
<1>9. head' \in Seq(Payloads)
  BY <1>3, <1>5, <1>7, <1>8, ChainIsGood
<1>10. <<Magic>> \in Seq(Cell) /\ Len(<<Magic>>) = 1 /\ <<Magic>>[1] = Magic
       /\ <<Magic>> # << >>
  BY DEF Cell
<1>11. seg' \in Seq(Cell) /\ Len(seg') \in Nat /\ Len(seg') >= Len(seg)
       /\ seg' # << >> /\ seg'[1] = Magic /\ Len(seg') >= 1
  <2>1. CASE seg = << >>
    BY <2>1, <1>1, <1>10
  <2>2. CASE seg # << >>
    BY <2>2, <1>1, <1>3 DEF Refused
  <2> QED
    BY <2>1, <2>2
<1>12. TypeOK'
  BY <1>1, <1>2, <1>3, <1>4, <1>7, <1>8, <1>9, <1>11 DEF TypeOK
<1>13. /\ Layout(seg', idx, g) /\ Beyond(seg', idx, g)
       /\ EndOf(seg', idx, g) = EndOf(seg, idx, g)
       /\ g > 0 => seg' = seg
  <2>1. CASE seg # << >>
    BY <2>1, <1>1, <1>5
  <2>2. CASE seg = << >>
    <3>1. Len(seg) = 0 /\ Len(seg') = 1
      BY <2>2, <1>1, <1>10
    <3>2. g = 0
      <4>1. SUFFICES ASSUME g > 0 PROVE FALSE
        BY <1>4
      <4>2. g \in 1 .. g
        BY <4>1
      <4>3. idx[g].off + 1 <= EndOf(seg, idx, g) /\ EndOf(seg, idx, g) <= 0
            /\ idx[g].off \in Nat
        BY <4>2, <3>1, <1>3, <1>5, Measured
      <4> QED
        BY <4>3, <1>7
    <3>3. \A off \in Nat : ~Starts(seg', off)
      BY <3>1 DEF Starts
    <3>4. EndOf(seg', idx, 0) = 1 /\ EndOf(seg, idx, 0) = 1
      BY DEF EndOf
    <3>5. Layout(seg', idx, 0)
      BY <3>4, <1>3 DEF Layout
    <3>6. \A m \in 1 .. Len(idx) : idx[m].off \in Nat
      <4> TAKE m \in 1 .. Len(idx)
      <4>1. idx[m] \in Entry
        BY <1>3, ElementOfSeq
      <4> QED
        BY <4>1 DEF Entry
    <3>7. Beyond(seg', idx, 0)
      BY <3>3, <3>4, <3>6 DEF Beyond
    <3> QED
      BY <3>2, <3>4, <3>5, <3>7
  <2> QED
    BY <2>1, <2>2
<1>14. Disk(g)'
  <2>1. promised <= g /\ promised <= Len(log) /\ idxDur <= g
        /\ Synced(seg, idx, idxDur, segDur)
        /\ \A n \in 1 .. promised : Bytes(seg, idx, n) = log[n]
    BY <1>4 DEF Disk
  <2>2. CASE g > 0
    <3>1. seg' = seg
      BY <2>2, <1>13
    <3> QED
      BY <3>1, <1>1, <1>4 DEF Disk, Ordinary
  <2>3. CASE g = 0
    <3>1. promised = 0 /\ idxDur = 0
      BY <2>1, <2>3, <1>3
    <3>2. Synced(seg', idx, 0, segDur) /\ 1 .. 0 = {}
      BY DEF Synced
    <3>3. ASSUME Ordinary PROVE g = Len(idx)
                                /\ Mapped(reader, Len(seg'), seg', idx, g)
      <4>1. g = Len(idx) /\ Mapped(reader, Len(seg), seg, idx, g)
        BY <3>3, <1>4 DEF Disk
      <4>2. reader.idx \in Nat /\ reader.seg \in Nat
        BY <1>2 DEF TypeOK
      <4>3. reader.at # "none" => ~(reader.idx > 0)
        BY <4>1, <4>2, <2>3 DEF Mapped
      <4> QED
        BY <4>1, <4>2, <4>3, <1>3, <1>11 DEF Mapped
    <3> QED
      BY <3>1, <3>2, <3>3, <2>1, <2>3, <1>1, <1>13 DEF Disk, Ordinary
  <2> QED
    BY <2>2, <2>3, <1>4
<1>15. segLen' <= Len(seg')
  <2>1. CASE g = 0
    BY <2>1, <1>8, <1>11 DEF EndOf
  <2>2. CASE g > 0
    <3>1. g \in 1 .. g
      BY <2>2
    <3>2. EndOf(seg, idx, g) <= Len(seg)
      BY <3>1, <1>3, <1>5, Measured
    <3> QED
      BY <3>2, <1>3, <1>7, <1>8, <1>11
  <2> QED
    BY <2>1, <2>2, <1>4
<1>16. Disk(nextId)'
  BY <1>8, <1>14 DEF Disk
<1>17. segBuf = << >> /\ idxBuf = << >> /\ segPos = 0 /\ idxPos = 0 /\ ~failed
  BY <1>1, <1>2 DEF Down
<1>18. Recovering'
  BY <1>1, <1>3, <1>8, <1>11, <1>13, <1>15, <1>16, <1>17 DEF Recovering
<1>19. Down' /\ Writing'
  BY <1>1 DEF Down, Writing, Running
<1> QED
  BY <1>12, <1>18, <1>19 DEF StoreInv

\* The members of a run of equal cells.
LEMMA FillIs ==
  ASSUME NEW S, NEW c \in S, NEW n \in Nat
  PROVE  /\ Fill(n, c) \in Seq(S) /\ Len(Fill(n, c)) = n
         /\ \A i \in 1 .. n : Fill(n, c)[i] = c
<1>1. Fill(n, c) = [i \in 1 .. n |-> c]
  BY DEF Fill
<1> QED
  BY <1>1

\* Zeroing cells makes no record appear.
LEMMA Fades ==
  ASSUME NEW f \in Seq(Cell), NEW f2 \in Seq(Cell), Len(f2) = Len(f),
         \A i \in 1 .. Len(f) : f2[i] = f[i] \/ f2[i] = Zero,
         NEW off \in Nat, Starts(f2, off)
  PROVE  Starts(f, off)
<1>1. off + 1 \in 1 .. Len(f) /\ off >= 1 /\ f2[off + 1] \in Headers
  BY DEF Starts, IsHeader
<1>2. f2[off + 1] = f[off + 1]
  BY <1>1, StoreAssumption
<1> QED
  BY <1>1, <1>2 DEF Starts, IsHeader, RecordEnd

\* What a reader has mapped stays valid when the files only grow and the
\* records keep their ends.
LEMMA MappedSame ==
  ASSUME NEW r, NEW l \in Nat, NEW f, NEW x, NEW g \in Nat, NEW l2 \in Nat,
         NEW f2, NEW x2, NEW g2 \in Nat, r.idx \in Nat, r.seg \in Nat,
         Mapped(r, l, f, x, g), l <= l2, g <= g2,
         \A n \in 0 .. g : EndOf(f2, x2, n) = EndOf(f, x, n)
  PROVE  Mapped(r, l2, f2, x2, g2)
<1>1. r.at # "none" => r.idx \in 0 .. g
  BY DEF Mapped
<1> QED
  BY <1>1 DEF Mapped

\* The facts every step of recover needs.
LEMMA Recovered ==
  ASSUME TypeOK, Recovering, pc \in {"reindex", "zeroIdx", "zeroSeg"}
  PROVE  /\ seg \in Seq(Cell) /\ Len(seg) \in Nat
         /\ idx \in Seq(Entry) /\ Len(idx) \in Nat
         /\ nextId \in Nat /\ nextId <= Len(idx)
         /\ Layout(seg, idx, nextId) /\ Beyond(seg, idx, nextId)
         /\ \A n \in 0 .. nextId : EndOf(seg, idx, n) \in Nat
         /\ segLen = EndOf(seg, idx, nextId) /\ segLen \in Nat /\ segLen >= 1
         /\ segLen <= Len(seg) /\ nextId \in 0 .. nextId
         /\ promised \in Nat /\ promised <= nextId /\ promised <= Len(log)
         /\ idxDur \in Nat /\ idxDur <= nextId
         /\ segPos \in Nat /\ idxPos \in Nat /\ indexed \in Nat
         /\ reader.idx \in Nat /\ reader.seg \in Nat
<1>1. /\ seg \in Seq(Cell) /\ Len(seg) \in Nat /\ idx \in Seq(Entry)
      /\ Len(idx) \in Nat /\ promised \in Nat /\ idxDur \in Nat
      /\ nextId \in Nat /\ segPos \in Nat /\ idxPos \in Nat /\ indexed \in Nat
      /\ reader.idx \in Nat /\ reader.seg \in Nat
  BY SMTT(30) DEF TypeOK
<1>2. Layout(seg, idx, nextId) /\ Beyond(seg, idx, nextId)
      /\ segLen = EndOf(seg, idx, nextId) /\ segLen <= Len(seg)
      /\ promised <= nextId /\ promised <= Len(log) /\ idxDur <= nextId
  BY DEF Recovering, Disk
<1>3. /\ nextId <= Len(idx) /\ nextId \in 0 .. nextId
      /\ \A n \in 0 .. nextId : /\ EndOf(seg, idx, n) \in Nat
                                /\ EndOf(seg, idx, n) >= 1
  <2>1. nextId <= Len(idx) /\ nextId \in 0 .. nextId
    BY <1>1, <1>2 DEF Layout
  <2>2. \A n \in 0 .. nextId :
          EndOf(seg, idx, n) \in Nat /\ EndOf(seg, idx, n) >= 1
    BY <1>1, <1>2, Measured
  <2> QED
    BY <2>1, <2>2
<1> QED
  BY <1>1, <1>2, <1>3

\* A turn of the forward loop preserves the invariant.
LEMMA ReindexStep ==
  ASSUME StoreInv, Reindex
  PROVE  StoreInv'
<1> DEFINE chain == ChainStep(head, seg[segLen + 1].sum)
           e == [off |-> segLen, chain |-> chain]
<1>1. /\ UNCHANGED <<seg, hdr, segDur, idxDur, pc, segBuf, idxBuf, segPos,
                     idxPos, indexed, inBatch, failed, reader, log, promised,
                     kills, powers, fails, outgrew>>
      /\ pc = "reindex" /\ Complete(seg, segLen, nextId, nextId >= indexed)
      /\ idx' = WriteAt(idx, nextId, <<e>>) /\ head' = chain
      /\ nextId' = nextId + 1 /\ segLen' = RecordEnd(seg, segLen)
  BY DEF Reindex, boundVars
<1>2. TypeOK /\ Recovering
  BY DEF StoreInv
<1>3. /\ seg \in Seq(Cell) /\ Len(seg) \in Nat
      /\ idx \in Seq(Entry) /\ Len(idx) \in Nat
      /\ nextId \in Nat /\ nextId <= Len(idx)
      /\ Layout(seg, idx, nextId) /\ Beyond(seg, idx, nextId)
      /\ \A n \in 0 .. nextId : EndOf(seg, idx, n) \in Nat
      /\ segLen = EndOf(seg, idx, nextId) /\ segLen \in Nat
      /\ segLen <= Len(seg) /\ nextId \in 0 .. nextId
      /\ promised \in Nat /\ promised <= nextId
      /\ idxDur \in Nat /\ idxDur <= nextId /\ indexed \in Nat
      /\ reader.idx \in Nat /\ reader.seg \in Nat
  BY <1>1, <1>2, Recovered
<1>4. Starts(seg, segLen) /\ seg[segLen + 1].id = nextId
  BY <1>1 DEF Complete, Starts
<1>5. seg[segLen + 1].sum \in Payloads /\ RecordEnd(seg, segLen) \in Nat
      /\ RecordEnd(seg, segLen) <= Len(seg)
  BY <1>3, <1>4 DEF Starts, IsHeader, Headers, RecordEnd
<1>6. head = StoredChain(idx, nextId) /\ head \in Seq(Payloads)
  BY <1>1, <1>2 DEF Recovering, TypeOK
<1>7. chain \in Seq(Payloads)
  BY <1>5, <1>6 DEF ChainStep
<1> HIDE DEF chain
<1>8. e \in Entry /\ e.off = segLen /\ e.chain = chain
  BY <1>3, <1>7 DEF Entry
<1> HIDE DEF e
<1>9. /\ idx' \in Seq(Entry) /\ Len(idx') \in Nat
      /\ Len(idx') = IF Len(idx) > nextId + 1 THEN Len(idx) ELSE nextId + 1
      /\ idx'[nextId + 1] = e
      /\ \A n \in 1 .. Len(idx') : n # nextId + 1 =>
           n \in 1 .. Len(idx) /\ idx'[n] = idx[n]
  <2> DEFINE c == <<e>>
             w == WriteAt(idx, nextId, c)
  <2>1. c \in Seq(Entry) /\ Len(c) = 1 /\ c[1] = e
    BY <1>8
  <2>2. nextId \in 0 .. Len(idx)
    BY <1>3
  <2>3. idx' = w
    BY <1>1
  <2> HIDE DEF c
  <2>4. /\ w \in Seq(Entry)
        /\ Len(w) = IF Len(idx) > nextId + Len(c) THEN Len(idx)
                    ELSE nextId + Len(c)
        /\ \A i \in 1 .. Len(w) :
             w[i] = IF i > nextId /\ i <= nextId + Len(c)
                    THEN c[i - nextId] ELSE idx[i]
    BY <2>1, <2>2, <1>3, WriteAtIs
  <2> HIDE DEF w
  <2>8. Len(w) = IF Len(idx) > nextId + 1 THEN Len(idx) ELSE nextId + 1
    BY <2>1, <2>4
  <2>5. Len(w) \in Nat /\ nextId + 1 \in 1 .. Len(w)
        /\ (nextId + 1) - nextId = 1 /\ nextId + 1 > nextId
    BY <2>8, <1>3
  <2>6. w[nextId + 1] = e
    BY <2>1, <2>4, <2>5, <1>3
  <2>7. \A n \in 1 .. Len(w) : n # nextId + 1 =>
          n \in 1 .. Len(idx) /\ ~(n > nextId /\ n <= nextId + 1)
    BY <2>8, <1>3
  <2> QED
    BY <2>1, <2>3, <2>4, <2>5, <2>6, <2>7
<1>10. \A n \in 1 .. nextId : idx'[n] = idx[n] /\ n \in 1 .. Len(idx')
  BY <1>3, <1>9
<1>11. /\ Layout(seg, idx', nextId)
       /\ \A n \in 0 .. nextId : EndOf(seg, idx', n) = EndOf(seg, idx, n)
       /\ \A n \in 1 .. nextId : /\ Bytes(seg, idx', n) = Bytes(seg, idx, n)
                                 /\ Mark(seg, idx', n) = Mark(seg, idx, n)
  <2>1. AgreeTo(seg, idx, seg, idx', nextId, Len(seg))
    BY <1>3, <1>9, <1>10 DEF AgreeTo
  <2> QED
    BY SMTT(30), <2>1, <1>3, <1>9, SameBelow
<1>12. /\ Layout(seg, idx', nextId + 1)
       /\ EndOf(seg, idx', nextId + 1) = RecordEnd(seg, segLen)
  <2>1. EndOf(seg, idx', nextId) = segLen
    BY <1>3, <1>11
  <2>2. StoredChain(idx', nextId) = StoredChain(idx, nextId)
    <3>1. nextId = 0 \/ nextId \in 1 .. nextId
      BY <1>3
    <3> QED
      BY <3>1, <1>10 DEF StoredChain
  <2>3. nextId < Len(idx')
    BY <1>3, <1>9
  <2>4. idx'[nextId + 1].chain
          = ChainStep(StoredChain(idx', nextId), seg[segLen + 1].sum)
    BY <2>2, <1>6, <1>8, <1>9 DEF chain
  <2>5. idx'[nextId + 1].off = segLen
    BY <1>8, <1>9
  <2> QED
    BY SMTT(30), <2>1, <2>3, <2>4, <2>5, <1>3, <1>4, <1>9, <1>11, Grow
<1>13. Beyond(seg, idx', nextId + 1)
  <2>1. \A m \in nextId + 1 .. Len(idx) : idx[m].chain = BadChain
    BY <1>3, <1>4 DEF Beyond
  <2>2. \A m \in (nextId + 1) + 1 .. Len(idx') :
          m \in nextId + 1 .. Len(idx) /\ idx'[m] = idx[m]
    BY <1>3, <1>9
  <2> QED
    BY <2>1, <2>2 DEF Beyond
<1>14. Disk(nextId)
  BY <1>1, <1>2 DEF Recovering
<1>15. Synced(seg, idx', idxDur, segDur)
  <2>1. Synced(seg, idx, idxDur, segDur) /\ idxDur \in 0 .. nextId
    BY <1>3, <1>14 DEF Disk
  <2> QED
    BY <2>1, <1>11 DEF Synced
<1>16. ASSUME Ordinary
       PROVE  /\ nextId + 1 = Len(idx')
              /\ \A n \in 1 .. nextId + 1 : Hashed(seg, idx', n)
              /\ Mapped(reader, Len(seg), seg, idx', nextId + 1)
  <2>1. /\ nextId = Len(idx) /\ \A n \in 1 .. nextId : Hashed(seg, idx, n)
        /\ Mapped(reader, Len(seg), seg, idx, nextId)
    BY <1>14, <1>16 DEF Disk
  <2>2. nextId >= indexed
    BY <2>1, <1>1, <1>2 DEF Recovering
  <2>3. Body(seg, segLen) = seg[segLen + 1].sum
    BY <2>2, <1>1 DEF Complete
  <2>4. Hashed(seg, idx', nextId + 1)
    BY <2>3, <1>8, <1>9 DEF Hashed, Bytes, Mark
  <2>5. \A n \in 1 .. nextId : Hashed(seg, idx', n)
    BY <2>1, <1>11 DEF Hashed
  <2>6. \A n \in 1 .. nextId + 1 : n \in 1 .. nextId \/ n = nextId + 1
    BY <1>3
  <2>7. Mapped(reader, Len(seg), seg, idx', nextId + 1)
    <3>1. nextId + 1 \in Nat /\ nextId <= nextId + 1 /\ Len(seg) <= Len(seg)
      BY <1>3
    <3> QED
      BY <3>1, <2>1, <1>3, <1>11, MappedSame
  <2> QED
    BY <2>1, <2>4, <2>5, <2>6, <2>7, <1>3, <1>9
<1>17. \A n \in 1 .. promised : Bytes(seg, idx', n) = log[n]
  <2>1. \A n \in 1 .. promised : n \in 1 .. nextId
    BY <1>3
  <2> QED
    BY <2>1, <1>11, <1>14 DEF Disk
<1>18. PICK g : g = nextId + 1
  OBVIOUS
<1>22. Disk(g)'
  <2>1. promised <= g /\ promised <= Len(log) /\ idxDur <= g
    BY <1>3, <1>14, <1>18 DEF Disk
  <2>2. Layout(seg, idx', g) /\ Beyond(seg, idx', g)
    BY <1>12, <1>13, <1>18
  <2>3. Ordinary => /\ g = Len(idx')
                    /\ \A n \in 1 .. g : Hashed(seg, idx', n)
                    /\ Mapped(reader, Len(seg), seg, idx', g)
    BY <1>16, <1>18
  <2> QED
    BY <2>1, <2>2, <2>3, <1>1, <1>15, <1>17 DEF Disk, Ordinary
<1>19. Recovering'
  <2>1. head' = StoredChain(idx', nextId + 1)
    BY <1>1, <1>3, <1>8, <1>9 DEF StoredChain
  <2>2. indexed <= Len(idx') /\ (Len(idx') <= indexed \/ Len(idx') = nextId')
    <3>1. indexed <= Len(idx) /\ (Len(idx) <= indexed \/ Len(idx) = nextId)
      BY <1>1, <1>2 DEF Recovering
    <3> QED
      BY <3>1, <1>1, <1>3, <1>9
  <2>3. segLen' = EndOf(seg', idx', nextId') /\ segLen' <= Len(seg')
    BY <1>1, <1>5, <1>12
  <2>4. Disk(nextId)'
    BY <1>1, <1>18, <1>22 DEF Disk
  <2> QED
    BY <2>1, <2>2, <2>3, <2>4, <1>1, <1>2 DEF Recovering
<1>20. TypeOK'
  BY <1>1, <1>2, <1>3, <1>5, <1>7, <1>9 DEF TypeOK
<1>21. Down' /\ Writing'
  BY <1>1 DEF Down, Writing, Running
<1> QED
  BY <1>19, <1>20, <1>21 DEF StoreInv

\* The end of the forward loop preserves the invariant.
LEMMA ReindexDoneStep ==
  ASSUME StoreInv, ReindexDone
  PROVE  StoreInv'
<1>1. /\ UNCHANGED <<seg, idx, hdr, segDur, idxDur, segBuf, idxBuf, nextId,
                     segLen, head, indexed, inBatch, failed, reader, log,
                     promised, kills, powers, fails, outgrew>>
      /\ pc = "reindex" /\ pc' = "zeroIdx"
      /\ idxPos' = nextId /\ segPos' = segLen
  BY DEF ReindexDone, fileVars, boundVars
<1>2. TypeOK /\ Recovering
  BY DEF StoreInv
<1>3. nextId \in Nat /\ nextId <= Len(idx) /\ Disk(nextId)
  BY <1>1, <1>2, Recovered DEF Recovering
<1>4. TypeOK'
  BY <1>1, <1>2 DEF TypeOK
<1>5. PICK g : g = nextId
  OBVIOUS
<1>6. Disk(g)'
  BY <1>1, <1>3, <1>5 DEF Disk, Ordinary
<1>7. Disk(nextId)'
  BY <1>1, <1>5, <1>6
<1>8. \A m \in nextId + 1 .. nextId : FALSE
  BY <1>3
<1>9. Recovering'
  BY <1>1, <1>2, <1>3, <1>7, <1>8 DEF Recovering
<1>10. Down' /\ Writing'
  BY <1>1 DEF Down, Writing, Running
<1> QED
  BY <1>4, <1>9, <1>10 DEF StoreInv

\* zero_tail over the index preserves the invariant.
LEMMA ZeroIdxStep ==
  ASSUME StoreInv, ZeroIdx
  PROVE  StoreInv'
<1>1. /\ UNCHANGED <<seg, hdr, segDur, idxDur, segBuf, idxBuf, segPos, nextId,
                     segLen, head, indexed, inBatch, failed, reader, log,
                     promised, kills, powers, fails, outgrew>>
      /\ pc = "zeroIdx"
  BY DEF ZeroIdx, boundVars
<1>2. TypeOK /\ Recovering
  BY DEF StoreInv
<1>3. /\ seg \in Seq(Cell) /\ Len(seg) \in Nat
      /\ idx \in Seq(Entry) /\ Len(idx) \in Nat
      /\ nextId \in Nat /\ nextId <= Len(idx)
      /\ Layout(seg, idx, nextId) /\ Beyond(seg, idx, nextId)
      /\ segLen = EndOf(seg, idx, nextId) /\ segLen \in Nat
      /\ segLen <= Len(seg) /\ nextId \in 0 .. nextId
      /\ promised \in Nat /\ promised <= nextId /\ promised <= Len(log)
      /\ idxDur \in Nat /\ idxDur <= nextId /\ indexed \in Nat
      /\ idxPos \in Nat
  BY <1>1, <1>2, Recovered
<1>4. /\ Disk(nextId) /\ segPos = segLen /\ nextId <= idxPos
      /\ idxPos <= Len(idx) /\ indexed <= Len(idx)
      /\ Len(idx) <= indexed \/ Len(idx) = nextId
      /\ \A m \in nextId + 1 .. idxPos : idx[m] = ZeroEntry
  BY <1>1, <1>2 DEF Recovering
<1>5. Down' /\ Writing'
  BY <1>1 DEF ZeroIdx, Down, Writing, Running
<1>6. PICK g : g = nextId
  OBVIOUS
<1>7. CASE /\ idxPos >= indexed /\ pc' = "zeroSeg" /\ idxPos' = nextId
           /\ UNCHANGED idx
  <2>1. TypeOK'
    BY <1>1, <1>2, <1>7 DEF TypeOK
  <2>2. Disk(g)'
    BY <1>1, <1>4, <1>6, <1>7 DEF Disk, Ordinary
  <2>3. Disk(nextId)'
    BY <2>2, <1>1, <1>6
  <2>4. \A m \in nextId + 1 .. Len(idx) : idx[m] = ZeroEntry
    BY <1>3, <1>4, <1>7
  <2>5. \A i \in segLen + 1 .. segLen : FALSE
    BY <1>3
  <2>6. Recovering'
    BY <2>3, <2>4, <2>5, <1>1, <1>2, <1>3, <1>4, <1>7 DEF Recovering
  <2> QED
    BY <2>1, <2>6, <1>5 DEF StoreInv
<1>8. CASE /\ \E n \in 1 .. indexed - idxPos :
                /\ idx' = WriteAt(idx, idxPos, Fill(n, ZeroEntry))
                /\ idxPos' = idxPos + n
           /\ UNCHANGED pc
  <2>1. PICK n \in 1 .. indexed - idxPos :
               /\ idx' = WriteAt(idx, idxPos, Fill(n, ZeroEntry))
               /\ idxPos' = idxPos + n
    BY <1>8
  <2> DEFINE c == Fill(n, ZeroEntry)
             w == WriteAt(idx, idxPos, c)
  <2>2. n \in Nat /\ n >= 1 /\ idxPos + n <= Len(idx) /\ Len(idx) # nextId
    BY <1>3, <1>4
  <2>3. ZeroEntry \in Entry
    BY DEF ZeroEntry, Entry
  <2>4. c \in Seq(Entry) /\ Len(c) = n /\ \A i \in 1 .. n : c[i] = ZeroEntry
    BY <2>2, <2>3, FillIs
  <2>5. idx' = w /\ idxPos \in 0 .. Len(idx)
    BY <2>1, <1>3, <1>4
  <2> HIDE DEF c
  <2>6. /\ w \in Seq(Entry)
        /\ Len(w) = IF Len(idx) > idxPos + Len(c) THEN Len(idx)
                    ELSE idxPos + Len(c)
        /\ \A i \in 1 .. Len(w) :
             w[i] = IF i > idxPos /\ i <= idxPos + Len(c)
                    THEN c[i - idxPos] ELSE idx[i]
    BY SMTT(30), <2>4, <2>5, <1>3, WriteAtIs
  <2> HIDE DEF w
  <2>7. Len(w) = Len(idx)
    BY <2>2, <2>4, <2>6, <1>3
  <2>8. \A i \in 1 .. Len(idx) : w[i] = IF i > idxPos /\ i <= idxPos + n
                                        THEN ZeroEntry ELSE idx[i]
    <3> TAKE i \in 1 .. Len(idx)
    <3>1. i > idxPos /\ i <= idxPos + n => i - idxPos \in 1 .. n
      BY <2>2, <1>3
    <3> QED
      BY <3>1, <2>4, <2>6, <2>7
  <2>9. \A i \in 1 .. nextId : w[i] = idx[i]
    BY <2>8, <1>3, <1>4
  <2>10. /\ Layout(seg, w, nextId)
         /\ \A k \in 0 .. nextId : EndOf(seg, w, k) = EndOf(seg, idx, k)
         /\ \A k \in 1 .. nextId : /\ Bytes(seg, w, k) = Bytes(seg, idx, k)
                                   /\ Mark(seg, w, k) = Mark(seg, idx, k)
    <3>1. AgreeTo(seg, idx, seg, w, nextId, Len(seg))
      BY <2>7, <2>9, <1>3 DEF AgreeTo
    <3> QED
      BY <3>1, <2>6, <1>3, SameBelow
  <2>11. Beyond(seg, w, nextId)
    <3>1. \A m \in nextId + 1 .. Len(w) : m \in nextId + 1 .. Len(idx)
            /\ (w[m] = idx[m] \/ w[m].chain = BadChain)
      BY <2>7, <2>8, <1>3 DEF ZeroEntry
    <3>2. EndOf(seg, w, nextId) = EndOf(seg, idx, nextId)
      BY <2>10, <1>3
    <3> QED
      BY <3>1, <3>2, <1>3 DEF Beyond
  <2>12. ~Ordinary
    BY <2>2, <1>4 DEF Disk
  <2>13. Synced(seg, w, idxDur, segDur)
    <3>1. Synced(seg, idx, idxDur, segDur) /\ idxDur \in 0 .. nextId
      BY <1>3, <1>4 DEF Disk
    <3> QED
      BY <3>1, <2>10 DEF Synced
  <2>14. \A k \in 1 .. promised : Bytes(seg, w, k) = log[k]
    <3>1. \A k \in 1 .. promised : k \in 1 .. nextId
      BY <1>3
    <3> QED
      BY <3>1, <2>10, <1>4 DEF Disk
  <2>15. Disk(g)'
    BY <2>5, <2>10, <2>11, <2>12, <2>13, <2>14, <1>1, <1>3, <1>6
       DEF Disk, Ordinary
  <2>16. Disk(nextId)'
    BY <2>15, <1>1, <1>6
  <2>17. head = StoredChain(w, nextId)
    <3>1. head = StoredChain(idx, nextId)
      BY <1>1, <1>2 DEF Recovering
    <3>2. nextId = 0 \/ nextId \in 1 .. nextId
      BY <1>3
    <3> QED
      BY <3>1, <3>2, <2>9 DEF StoredChain
  <2>18. segLen = EndOf(seg, w, nextId)
    BY <2>10, <1>3
  <2>19. \A m \in nextId + 1 .. idxPos + n : w[m] = ZeroEntry
    <3> TAKE m \in nextId + 1 .. idxPos + n
    <3>1. m \in 1 .. Len(idx) /\ (m \in nextId + 1 .. idxPos \/ m > idxPos)
          /\ m <= idxPos + n
      BY <2>2, <1>3
    <3> QED
      BY <3>1, <2>8, <1>4
  <2>20. Recovering'
    <3>1. nextId <= idxPos + n /\ idxPos + n <= Len(w)
          /\ indexed <= Len(w) /\ (Len(w) <= indexed \/ Len(w) = nextId)
      BY <2>2, <2>7, <1>3, <1>4
    <3> QED
      BY <3>1, <2>1, <2>5, <2>16, <2>17, <2>18, <2>19, <1>1, <1>2, <1>8
         DEF Recovering
  <2>21. TypeOK'
    <3>1. idx' \in Seq(Entry) /\ idxPos' \in Nat
      BY <2>1, <2>2, <2>5, <2>6, <1>3
    <3> QED
      BY <3>1, <1>1, <1>2, <1>8 DEF TypeOK
  <2> QED
    BY <2>20, <2>21, <1>5 DEF StoreInv
<1> QED
  BY <1>7, <1>8 DEF ZeroIdx

\* zero_tail over the segment and the end of open preserve the invariant.
LEMMA ZeroSegStep ==
  ASSUME StoreInv, ZeroSeg
  PROVE  StoreInv'
<1>1. /\ UNCHANGED <<idx, hdr, segDur, idxDur, segBuf, idxBuf, idxPos, nextId,
                     segLen, head, indexed, inBatch, failed, reader, kills,
                     powers, fails, outgrew>>
      /\ pc = "zeroSeg"
  BY DEF ZeroSeg, boundVars
<1>2. TypeOK /\ Recovering
  BY DEF StoreInv
<1>3. /\ seg \in Seq(Cell) /\ Len(seg) \in Nat
      /\ idx \in Seq(Entry) /\ Len(idx) \in Nat
      /\ nextId \in Nat /\ nextId <= Len(idx)
      /\ Layout(seg, idx, nextId) /\ Beyond(seg, idx, nextId)
      /\ segLen = EndOf(seg, idx, nextId) /\ segLen \in Nat /\ segLen >= 1
      /\ segLen <= Len(seg) /\ nextId \in 0 .. nextId
      /\ promised \in Nat /\ promised <= nextId /\ promised <= Len(log)
      /\ idxDur \in Nat /\ idxDur <= nextId /\ indexed \in Nat
      /\ segPos \in Nat /\ reader.idx \in Nat /\ reader.seg \in Nat
  BY <1>1, <1>2, Recovered
<1>4. /\ Disk(nextId) /\ segLen <= segPos /\ segPos <= Len(seg)
      /\ idxPos = nextId /\ segBuf = << >> /\ idxBuf = << >> /\ ~failed
      /\ hdr = "good" /\ seg # << >> /\ seg[1] = Magic
      /\ head = StoredChain(idx, nextId)
      /\ \A m \in nextId + 1 .. Len(idx) : idx[m] = ZeroEntry
      /\ \A i \in segLen + 1 .. segPos : seg[i] = Zero
  BY <1>1, <1>2 DEF Recovering
<1>5. Synced(seg, idx, idxDur, segDur) /\ idxDur \in 0 .. nextId
  BY <1>3, <1>4 DEF Disk
<1>6. /\ \A n \in 1 .. promised : Bytes(seg, idx, n) = log[n]
      /\ \A n \in 1 .. promised : n \in 1 .. nextId
  BY <1>3, <1>4 DEF Disk
<1>7. Ordinary => /\ nextId = Len(idx)
                  /\ \A n \in 1 .. nextId : Hashed(seg, idx, n)
                  /\ Mapped(reader, Len(seg), seg, idx, nextId)
  BY <1>4 DEF Disk
<1>8. CASE /\ segPos >= Len(seg) /\ pc' = "open" /\ segPos' = segLen
           /\ log' = [i \in 1 .. nextId |->
                        IF i <= promised THEN log[i] ELSE Content(i)]
           /\ promised' = IF promised > nextId THEN promised ELSE nextId
           /\ UNCHANGED seg
  <2> DEFINE S == SubSeq(seg, 1, segLen) \o << >>
             X == SubSeq(idx, 1, nextId) \o << >>
  <2>1. Segment' = S /\ Index' = X
    BY <1>1, <1>4, <1>8 DEF Segment, Index
  <2>2. S \in Seq(Cell) /\ Len(S) = segLen
        /\ \A i \in 1 .. segLen : S[i] = seg[i]
    <3>1. segLen \in 0 .. Len(seg) /\ << >> \in Seq(Cell) /\ Len(<< >>) = 0
      BY <1>3
    <3> QED
      BY <3>1, <1>3, ImageIs
  <2>3. X \in Seq(Entry) /\ Len(X) = nextId
        /\ \A i \in 1 .. nextId : X[i] = idx[i]
    <3>1. nextId \in 0 .. Len(idx) /\ << >> \in Seq(Entry) /\ Len(<< >>) = 0
      BY <1>3
    <3> QED
      BY <3>1, <1>3, ImageIs
  <2> HIDE DEF S, X
  <2>4. /\ Layout(S, X, nextId)
        /\ \A k \in 0 .. nextId : EndOf(S, X, k) = EndOf(seg, idx, k)
        /\ \A k \in 1 .. nextId : /\ Bytes(S, X, k) = Bytes(seg, idx, k)
                                  /\ Mark(S, X, k) = Mark(seg, idx, k)
    <3>1. AgreeTo(seg, idx, S, X, nextId, segLen)
      BY <2>2, <2>3, <1>3 DEF AgreeTo
    <3> QED
      BY <3>1, <2>2, <2>3, <1>3, SameBelow
  <2>5. EndOf(S, X, nextId) = segLen
    BY <2>4, <1>3
  <2>6. promised' = nextId
    BY <1>3, <1>8
  <2>7. head = StoredChain(X, nextId)
    <3>1. nextId = 0 \/ nextId \in 1 .. nextId
      BY <1>3
    <3> QED
      BY <3>1, <2>3, <1>4 DEF StoredChain
  <2>8. \A n \in 1 .. nextId : Bytes(seg, idx, n) \in Seq(Cell)
    <3> TAKE n \in 1 .. nextId
    <3>1. /\ idx[n].off \in Nat
          /\ EndOf(seg, idx, n) = RecordEnd(seg, idx[n].off)
          /\ EndOf(seg, idx, n) <= Len(seg) /\ EndOf(seg, idx, n) \in Nat
      BY <1>3, Measured
    <3>2. idx[n].off + 2 \in Nat \ {0}
      BY <3>1
    <3> QED
      BY SMTT(30), <3>1, <3>2, <1>3, SubIs DEF Bytes, Body
  <2>9. \A n \in 1 .. nextId : log'[n] = Bytes(seg, idx, n)
    <3> TAKE n \in 1 .. nextId
    <3>1. n <= promised => n \in 1 .. promised
      BY <1>3
    <3>2. log'[n] = IF n <= promised THEN log[n] ELSE Content(n)
      BY <1>8
    <3> QED
      BY <3>1, <3>2, <1>6 DEF Content, Bytes
  <2>10. log' \in Seq(Seq(Cell)) /\ Len(log') = nextId
    <3>1. log' = [i \in 1 .. nextId |-> log'[i]]
      BY <1>8
    <3>2. log' \in [1 .. nextId -> Seq(Cell)]
      BY <3>1, <2>8, <2>9
    <3> QED
      BY <3>2, <1>3
  <2>11. TypeOK'
    BY <2>6, <2>10, <1>1, <1>2, <1>3, <1>8 DEF TypeOK
  <2>12. Ordinary => /\ nextId = Len(idx)
                     /\ \A n \in 1 .. nextId : Hashed(S, X, n)
                     /\ Mapped(reader, Len(seg), S, X, nextId)
    <3> SUFFICES ASSUME Ordinary
                 PROVE  /\ \A n \in 1 .. nextId : Hashed(S, X, n)
                        /\ Mapped(reader, Len(seg), S, X, nextId)
      BY <1>7
    <3>1. Mapped(reader, Len(seg), S, X, nextId)
      <4>1. nextId <= nextId /\ Len(seg) <= Len(seg)
        BY <1>3
      <4> QED
        BY <4>1, <2>4, <1>3, <1>7, MappedSame
    <3> QED
      BY <3>1, <2>4, <1>7 DEF Hashed
  <2>13. Synced(S, X, idxDur, segDur) /\ EndOf(S, X, idxDur) <= segLen
    <3>1. EndOf(S, X, idxDur) <= EndOf(S, X, nextId)
      BY <2>4, <1>3, <1>5 DEF Layout
    <3> QED
      BY <3>1, <2>4, <2>5, <1>5 DEF Synced
  <2>14. \A i \in segLen + 1 .. Len(seg) : seg[i] = Zero
    BY <1>3, <1>4, <1>8
  <2>15. Writing'
    <3>1. segLen <= segLen /\ nextId <= nextId
      BY <1>3
    <3>2. \A n \in 1 .. nextId : Bytes(S, X, n) = log'[n]
      BY <2>4, <2>9
    <3>3. Ordinary' = Ordinary /\ Running'
      BY <1>1, <1>8 DEF Ordinary, Running
    <3>4. /\ segPos' = segLen' /\ idxPos' = nextId' /\ nextId' = nextId
          /\ segLen' = segLen /\ seg' = seg /\ idx' = idx /\ head' = head
          /\ idxDur' = idxDur /\ segDur' = segDur /\ reader' = reader
          /\ hdr' = hdr /\ pc' = "open"
      BY <1>1, <1>4, <1>8
    <3> QED
      BY <3>1, <3>2, <3>3, <3>4, <2>1, <2>2, <2>3, <2>4, <2>5, <2>6, <2>7,
         <2>10, <2>12, <2>13, <2>14, <1>3, <1>4, <1>8 DEF Writing
  <2>16. Down' /\ Recovering'
    BY <1>8 DEF Down, Recovering
  <2> QED
    BY <2>11, <2>15, <2>16 DEF StoreInv
<1>9. CASE \E n \in 1 .. Len(seg) - segPos :
             /\ seg' = WriteAt(seg, segPos, Fill(n, Zero))
             /\ segPos' = segPos + n
             /\ UNCHANGED <<pc, log, promised>>
  <2>1. PICK n \in 1 .. Len(seg) - segPos :
               /\ seg' = WriteAt(seg, segPos, Fill(n, Zero))
               /\ segPos' = segPos + n
               /\ UNCHANGED <<pc, log, promised>>
    BY <1>9
  <2> DEFINE c == Fill(n, Zero)
             w == WriteAt(seg, segPos, c)
  <2>2. n \in Nat /\ n >= 1 /\ segPos + n <= Len(seg)
    BY <1>3, <1>4
  <2>3. Zero \in Cell
    BY DEF Cell
  <2>4. c \in Seq(Cell) /\ Len(c) = n /\ \A i \in 1 .. n : c[i] = Zero
    BY <2>2, <2>3, FillIs
  <2>5. seg' = w /\ segPos \in 0 .. Len(seg)
    BY <2>1, <1>3, <1>4
  <2> HIDE DEF c
  <2>6. /\ w \in Seq(Cell)
        /\ Len(w) = IF Len(seg) > segPos + Len(c) THEN Len(seg)
                    ELSE segPos + Len(c)
        /\ \A i \in 1 .. Len(w) :
             w[i] = IF i > segPos /\ i <= segPos + Len(c)
                    THEN c[i - segPos] ELSE seg[i]
    BY SMTT(30), <2>4, <2>5, <1>3, WriteAtIs
  <2> HIDE DEF w
  <2>7. Len(w) = Len(seg)
    BY <2>2, <2>4, <2>6, <1>3
  <2>8. \A i \in 1 .. Len(seg) : w[i] = IF i > segPos /\ i <= segPos + n
                                        THEN Zero ELSE seg[i]
    <3> TAKE i \in 1 .. Len(seg)
    <3>1. i > segPos /\ i <= segPos + n => i - segPos \in 1 .. n
      BY <2>2, <1>3
    <3> QED
      BY <3>1, <2>4, <2>6, <2>7
  <2>9. \A i \in 1 .. segLen : w[i] = seg[i]
    BY SMTT(30), <2>8, <1>3, <1>4
  <2>10. /\ Layout(w, idx, nextId)
         /\ \A k \in 0 .. nextId : EndOf(w, idx, k) = EndOf(seg, idx, k)
         /\ \A k \in 1 .. nextId : /\ Bytes(w, idx, k) = Bytes(seg, idx, k)
                                   /\ Mark(w, idx, k) = Mark(seg, idx, k)
    <3>1. AgreeTo(seg, idx, w, idx, nextId, segLen)
      BY <2>7, <2>9, <1>3 DEF AgreeTo
    <3> QED
      BY <3>1, <2>6, <1>3, SameBelow
  <2>11. Beyond(w, idx, nextId)
    <3>1. \A i \in 1 .. Len(seg) : w[i] = seg[i] \/ w[i] = Zero
      BY <2>8
    <3>2. \A off \in Nat : Starts(w, off) => Starts(seg, off)
      BY <3>1, <2>6, <2>7, <1>3, Fades
    <3>3. EndOf(w, idx, nextId) = segLen
      BY <2>10, <1>3
    <3>4. \A m \in nextId + 1 .. Len(idx) : idx[m].off \in Nat
      <4> TAKE m \in nextId + 1 .. Len(idx)
      <4>1. m \in 1 .. Len(idx)
        BY <1>3
      <4>2. idx[m] \in Entry
        BY <4>1, <1>3, ElementOfSeq
      <4> QED
        BY <4>2 DEF Entry
    <3> QED
      BY <3>2, <3>3, <3>4, <1>3 DEF Beyond
  <2>12. ASSUME Ordinary
         PROVE  /\ nextId = Len(idx)
                /\ \A k \in 1 .. nextId : Hashed(w, idx, k)
                /\ Mapped(reader, Len(w), w, idx, nextId)
    <3>1. nextId <= nextId /\ Len(seg) <= Len(w) /\ Len(w) \in Nat
      BY <2>7, <1>3
    <3>2. Mapped(reader, Len(w), w, idx, nextId)
      BY <3>1, <2>10, <2>12, <1>3, <1>7, MappedSame
    <3> QED
      BY <3>2, <2>10, <2>12, <1>7 DEF Hashed
  <2>13. Synced(w, idx, idxDur, segDur)
    BY <2>10, <1>5 DEF Synced
  <2>14. \A k \in 1 .. promised : Bytes(w, idx, k) = log[k]
    BY <2>10, <1>6
  <2>15. PICK g : g = nextId
    OBVIOUS
  <2>16. Disk(g)'
    BY <2>1, <2>5, <2>10, <2>11, <2>12, <2>13, <2>14, <2>15, <1>1, <1>3
       DEF Disk, Ordinary
  <2>17. Disk(nextId)'
    BY <2>15, <2>16, <1>1
  <2>18. segLen = EndOf(w, idx, nextId)
    BY <2>10, <1>3
  <2>19. \A i \in segLen + 1 .. segPos + n : w[i] = Zero
    <3> TAKE i \in segLen + 1 .. segPos + n
    <3>1. i \in 1 .. Len(seg) /\ (i \in segLen + 1 .. segPos \/ i > segPos)
          /\ i <= segPos + n
      BY <2>2, <1>3
    <3> QED
      BY <3>1, <2>8, <1>4
  <2>20. w # << >> /\ w[1] = Magic
    <3>1. 1 \in 1 .. segLen /\ Len(w) # 0
      BY <2>7, <1>3
    <3> QED
      BY <3>1, <2>9, <1>4
  <2>21. Recovering'
    <3>1. segLen <= segPos + n /\ segPos + n <= Len(w) /\ segLen <= Len(w)
      BY <2>2, <2>7, <1>3, <1>4
    <3> QED
      BY <3>1, <2>1, <2>5, <2>17, <2>18, <2>19, <2>20, <1>1, <1>2, <1>4
         DEF Recovering
  <2>22. TypeOK'
    <3>1. seg' \in Seq(Cell) /\ segPos' \in Nat
      BY SMTT(30), <2>1, <2>2, <2>5, <2>6, <1>3
    <3> QED
      BY <3>1, <2>1, <1>1, <1>2 DEF TypeOK
  <2>23. Down' /\ Writing'
    BY <2>1, <1>1 DEF Down, Writing, Running
  <2> QED
    BY <2>21, <2>22, <2>23 DEF StoreInv
<1> QED
  BY <1>8, <1>9 DEF ZeroSeg

\* Draining a whole buffer.
LEMMA Flushed ==
  ASSUME NEW S, NEW f \in Seq(S), NEW b \in Seq(S), NEW at \in 0 .. Len(f)
  PROVE  LET w == WriteAt(f, at, b) IN
         /\ w \in Seq(S) /\ at + Len(b) <= Len(w) /\ Len(f) <= Len(w)
         /\ SubSeq(w, 1, at + Len(b)) \o << >> = SubSeq(f, 1, at) \o b
         /\ \A i \in at + Len(b) + 1 .. Len(w) :
              i \in 1 .. Len(f) /\ w[i] = f[i]
         /\ \A i \in 1 .. at : w[i] = f[i]
         /\ Len(w) = IF Len(f) > at + Len(b) THEN Len(f) ELSE at + Len(b)
<1> DEFINE k == Len(b)
<1>1. k \in 0 .. Len(b) /\ Len(b) \in Nat
  OBVIOUS
<1>2. SubSeq(b, 1, k) = b
  OBVIOUS
<1>3. SubSeq(b, k + 1, Len(b)) = << >>
  OBVIOUS
<1> DEFINE w == WriteAt(f, at, SubSeq(b, 1, k))
<1>4. w = WriteAt(f, at, b)
  BY <1>2
<1> HIDE DEF k
<1>5. /\ w \in Seq(S) /\ at + k <= Len(w) /\ Len(f) <= Len(w)
      /\ SubSeq(w, 1, at + k) \o SubSeq(b, k + 1, Len(b))
           = SubSeq(f, 1, at) \o b
      /\ \A i \in at + k + 1 .. Len(w) : i \in 1 .. Len(f) /\ w[i] = f[i]
      /\ \A i \in 1 .. at : w[i] = f[i]
      /\ Len(w) = IF Len(f) > at + k THEN Len(f) ELSE at + k
  BY <1>1, Drain
<1> HIDE DEF w
<1> QED
  BY <1>3, <1>4, <1>5 DEF k

\* The first half of flush preserves the invariant.
LEMMA FlushSegStep ==
  ASSUME StoreInv, FlushSeg
  PROVE  StoreInv'
<1>1. /\ UNCHANGED <<idx, hdr, segDur, idxDur, idxBuf, idxPos, nextId, segLen,
                     head, indexed, inBatch, failed, reader, log, promised,
                     kills, powers, fails, outgrew>>
      /\ pc = "open" /\ pc' = "flushIdx" /\ seg' = WriteAt(seg, segPos, segBuf)
      /\ segPos' = segPos + Len(segBuf) /\ segBuf' = << >>
  BY DEF FlushSeg, boundVars
<1>2. TypeOK /\ Writing /\ Running
  BY <1>1 DEF StoreInv, Running
<1>3. /\ seg \in Seq(Cell) /\ Len(seg) \in Nat /\ segBuf \in Seq(Cell)
      /\ segPos \in 0 .. Len(seg) /\ segPos \in Nat /\ Len(segBuf) \in Nat
      /\ nextId \in Nat /\ idxPos \in 0 .. nextId /\ idxPos \in Nat
      /\ Layout(Segment, Index, nextId)
      /\ Segment \in Seq(Cell) /\ Index \in Seq(Entry)
      /\ \A n \in 0 .. nextId : EndOf(Segment, Index, n) \in Nat
  BY <1>2, Images
<1> DEFINE w == WriteAt(seg, segPos, segBuf)
<1>4. /\ w \in Seq(Cell) /\ segPos + Len(segBuf) <= Len(w)
      /\ Len(seg) <= Len(w)
      /\ SubSeq(w, 1, segPos + Len(segBuf)) \o << >>
           = SubSeq(seg, 1, segPos) \o segBuf
      /\ \A i \in segPos + Len(segBuf) + 1 .. Len(w) :
           i \in 1 .. Len(seg) /\ w[i] = seg[i]
      /\ \A i \in 1 .. segPos : w[i] = seg[i]
  BY ZenonT(60), <1>3, Flushed
<1>5. seg' = w
  BY <1>1
<1> HIDE DEF w
<1>6. Segment' = Segment /\ Index' = Index
  BY <1>1, <1>4, <1>5 DEF Segment, Index
<1>7. TypeOK'
  <2>1. segPos' \in Nat /\ << >> \in Seq(Cell)
    BY <1>1, <1>3
  <2> QED
    BY <2>1, <1>1, <1>2, <1>4, <1>5 DEF TypeOK
<1>8. \A i \in segPos + Len(segBuf) + 1 .. Len(w) : w[i] = Zero
  <2> TAKE i \in segPos + Len(segBuf) + 1 .. Len(w)
  <2>1. i \in 1 .. Len(seg) /\ w[i] = seg[i]
    BY <1>4
  <2>2. i \in segPos + 1 .. Len(seg)
    BY <2>1, <1>3
  <2> QED
    BY <2>1, <2>2, <1>2 DEF Writing
<1>9. /\ promised \in 0 .. nextId /\ idxDur \in 0 .. nextId
      /\ EndOf(Segment, Index, promised) <= segPos
      /\ EndOf(Segment, Index, idxDur) <= segPos
  <2>1. promised \in Nat /\ idxDur \in Nat /\ promised <= idxPos
        /\ idxDur <= idxPos
    BY <1>2 DEF TypeOK, Writing
  <2> QED
    BY <2>1, <1>2, <1>3 DEF Writing
<1>10. w[1] = Magic
  <2>1. EndOf(Segment, Index, promised) >= 1
    BY <1>3, <1>9, Measured
  <2>2. 1 \in 1 .. segPos
    BY <2>1, <1>3, <1>9
  <2> QED
    BY <2>2, <1>2, <1>4 DEF Writing
<1>11. ASSUME Ordinary PROVE Mapped(reader, Len(w), Segment, Index, idxPos)
  <2>1. Mapped(reader, Len(seg), Segment, Index, idxPos)
    BY <1>2, <1>11 DEF Writing
  <2>2. reader.idx \in Nat /\ reader.seg \in Nat /\ idxPos <= idxPos
        /\ Len(w) \in Nat
    BY <1>2, <1>3, <1>4 DEF TypeOK
  <2> QED
    BY <2>1, <2>2, <1>3, <1>4, MappedSame
<1>12. /\ EndOf(Segment, Index, promised) <= segPos + Len(segBuf)
       /\ EndOf(Segment, Index, idxDur) <= segPos + Len(segBuf)
       /\ Ordinary => EndOf(Segment, Index, idxPos) <= segPos + Len(segBuf)
  <2>1. Ordinary => EndOf(Segment, Index, idxPos) <= segPos
    BY <1>2 DEF Writing
  <2> QED
    BY <2>1, <1>3, <1>9
<1>13. Writing'
  <2>1. Ordinary' = Ordinary
    BY <1>1 DEF Ordinary
  <2> QED
    BY <2>1, <1>1, <1>2, <1>4, <1>5, <1>6, <1>8, <1>10, <1>11, <1>12
       DEF Writing
<1>14. Down' /\ Recovering'
  BY <1>1 DEF Down, Recovering
<1> QED
  BY <1>7, <1>13, <1>14 DEF StoreInv

\* The second half of flush preserves the invariant: when the ids escape, the
\* records they name have left the segment's buffer.
LEMMA FlushIdxStep ==
  ASSUME StoreInv, FlushIdx
  PROVE  StoreInv'
<1>1. /\ UNCHANGED <<seg, hdr, segDur, idxDur, segBuf, segPos, nextId, segLen,
                     head, indexed, failed, reader, log, kills, powers, fails,
                     outgrew>>
      /\ pc = "flushIdx" /\ pc' = "open" /\ idx' = WriteAt(idx, idxPos, idxBuf)
      /\ idxPos' = idxPos + Len(idxBuf) /\ idxBuf' = << >> /\ inBatch' = 0
      /\ promised' = IF failed /\ StopAtFailure THEN promised ELSE nextId
  BY DEF FlushIdx, boundVars
<1>2. TypeOK /\ Writing /\ Running
  BY <1>1 DEF StoreInv, Running
<1>3. /\ idx \in Seq(Entry) /\ Len(idx) \in Nat /\ idxBuf \in Seq(Entry)
      /\ idxPos \in 0 .. Len(idx) /\ idxPos \in Nat /\ Len(idxBuf) \in Nat
      /\ nextId \in Nat /\ nextId = idxPos + Len(idxBuf)
      /\ Layout(Segment, Index, nextId) /\ Len(seg) \in Nat
      /\ Segment \in Seq(Cell) /\ Index \in Seq(Entry)
      /\ \A n \in 0 .. nextId : EndOf(Segment, Index, n) \in Nat
      /\ Len(Segment) = segPos + Len(segBuf) /\ segPos \in Nat
  BY <1>2, Images
<1> DEFINE w == WriteAt(idx, idxPos, idxBuf)
<1>4. /\ w \in Seq(Entry) /\ idxPos + Len(idxBuf) <= Len(w)
      /\ SubSeq(w, 1, idxPos + Len(idxBuf)) \o << >>
           = SubSeq(idx, 1, idxPos) \o idxBuf
      /\ \A i \in idxPos + Len(idxBuf) + 1 .. Len(w) :
           i \in 1 .. Len(idx) /\ w[i] = idx[i]
      /\ Len(w) = IF Len(idx) > idxPos + Len(idxBuf) THEN Len(idx)
                  ELSE idxPos + Len(idxBuf)
  BY <1>3, Flushed
<1>5. idx' = w
  BY <1>1
<1> HIDE DEF w
<1>6. Segment' = Segment /\ Index' = Index
  BY <1>1, <1>4, <1>5 DEF Segment, Index
<1>7. segBuf = << >> /\ Len(Segment) = segPos
      /\ EndOf(Segment, Index, nextId) <= segPos
  <2>1. segBuf = << >> /\ segLen = EndOf(Segment, Index, nextId)
        /\ segLen <= Len(Segment)
    BY <1>1, <1>2 DEF Writing
  <2> QED
    BY <2>1, <1>3
<1>8. /\ promised \in Nat /\ promised <= nextId /\ idxDur <= nextId
      /\ EndOf(Segment, Index, promised) <= segPos
  <2>1. promised \in Nat /\ promised <= idxPos
        /\ idxDur \in Nat /\ idxDur <= idxPos
    BY <1>2 DEF TypeOK, Writing
  <2> QED
    BY <2>1, <1>2, <1>3 DEF Writing
<1>9. /\ promised' \in Nat /\ promised' <= nextId
      /\ EndOf(Segment, Index, promised') <= segPos
  <2>1. CASE promised' = promised
    BY <2>1, <1>8
  <2>2. CASE promised' = nextId
    BY <2>2, <1>3, <1>7
  <2> QED
    BY <2>1, <2>2, <1>1
<1>10. TypeOK'
  <2>1. idxPos' \in Nat /\ << >> \in Seq(Entry)
    BY <1>1, <1>3
  <2> QED
    BY <2>1, <1>1, <1>2, <1>4, <1>5, <1>9 DEF TypeOK
<1>11. \A i \in nextId + 1 .. Len(w) : w[i] = ZeroEntry
  <2> TAKE i \in nextId + 1 .. Len(w)
  <2>1. i \in 1 .. Len(idx) /\ w[i] = idx[i]
    BY <1>3, <1>4
  <2>2. i \in idxPos + 1 .. Len(idx)
    BY SMTT(30), <2>1, <1>3
  <2> QED
    BY <2>1, <2>2, <1>2 DEF Writing
<1>12. ASSUME Ordinary PROVE /\ Len(w) = nextId
                             /\ Mapped(reader, Len(seg), Segment, Index, nextId)
  <2>1. Mapped(reader, Len(seg), Segment, Index, idxPos) /\ Len(idx) = idxPos
    BY <1>2, <1>12 DEF Writing
  <2>2. reader.idx \in Nat /\ reader.seg \in Nat
    BY <1>2 DEF TypeOK
  <2>4. idxPos <= nextId /\ Len(seg) <= Len(seg)
    BY <1>3
  <2>3. Len(w) = nextId
    BY <2>1, <1>3, <1>4
  <2> QED
    BY <2>1, <2>2, <2>3, <2>4, <1>3, MappedSame
<1>13. Writing'
  <2>1. Ordinary' = Ordinary /\ idxPos' = nextId /\ nextId <= Len(w)
    BY <1>1, <1>3, <1>4 DEF Ordinary
  <2> QED
    BY <2>1, <1>1, <1>2, <1>5, <1>6, <1>7, <1>8, <1>9, <1>11, <1>12
       DEF Writing
<1>14. Down' /\ Recovering'
  BY <1>1 DEF Down, Recovering
<1> QED
  BY <1>10, <1>13, <1>14 DEF StoreInv

\* The types and lengths of an encoded record.
LEMMA RecordIs ==
  ASSUME NEW p \in Payloads, NEW id \in Nat
  PROVE  /\ <<Header(id, p)>> \in Seq(Cell) /\ p \in Seq(Cell)
         /\ Len(p) \in Nat /\ Len(<<Header(id, p)>>) = 1
         /\ <<Header(id, p)>> \o p \in Seq(Cell)
         /\ Len(<<Header(id, p)>> \o p) = 1 + Len(p)
<1> DEFINE hd == Header(id, p)
<1>1. p \in Seq(Data) /\ Len(p) \in Nat /\ Data \subseteq Cell
  BY StoreAssumption DEF Cell
<1>2. p \in Seq(Cell)
  BY <1>1, SeqMonotonic
<1>3. hd \in Cell
  BY <1>1 DEF Header, Headers, Cell
<1> HIDE DEF hd
<1>4. <<hd>> \in Seq(Cell) /\ Len(<<hd>>) = 1
  BY <1>3
<1>5. <<hd>> \o p \in Seq(Cell) /\ Len(<<hd>> \o p) = 1 + Len(p)
  BY <1>2, <1>4, ConcatProperties
<1> QED
  BY <1>1, <1>2, <1>4, <1>5 DEF hd

\* An append that fails half way preserves the invariant.
LEMMA FailStep ==
  ASSUME StoreInv, NEW p \in Payloads, AppendFails(p)
  PROVE  StoreInv'
<1> DEFINE r == <<Header(nextId, p)>> \o p
<1>1. /\ UNCHANGED <<seg, idx, hdr, segDur, idxDur, pc, idxBuf, segPos, idxPos,
                     nextId, segLen, head, indexed, inBatch, reader, log,
                     promised, kills, powers, outgrew>>
      /\ pc = "open" /\ failed' = TRUE /\ fails' = fails + 1
      /\ \E n \in {0, 1, 1 + Len(p)} : segBuf' = segBuf \o SubSeq(r, 1, n)
  BY DEF AppendFails, MayAppend, fileVars
<1>2. TypeOK /\ Writing /\ Running
  BY <1>1 DEF StoreInv, Running
<1>3. /\ seg \in Seq(Cell) /\ Len(seg) \in Nat /\ segBuf \in Seq(Cell)
      /\ segPos \in 0 .. Len(seg) /\ segPos \in Nat /\ Len(segBuf) \in Nat
      /\ nextId \in Nat /\ idxPos \in 0 .. nextId /\ idxPos \in Nat
      /\ Layout(Segment, Index, nextId) /\ Len(Index) = nextId
      /\ Segment \in Seq(Cell) /\ Index \in Seq(Entry)
      /\ Len(Segment) = segPos + Len(segBuf)
      /\ \A n \in 0 .. nextId : EndOf(Segment, Index, n) \in Nat
  BY <1>2, Images
<1>4. PICK n \in {0, 1, 1 + Len(p)} : segBuf' = segBuf \o SubSeq(r, 1, n)
  BY <1>1
<1>5. r \in Seq(Cell) /\ Len(r) = 1 + Len(p) /\ Len(p) \in Nat
  BY <1>3, RecordIs
<1> HIDE DEF r
<1> DEFINE t == SubSeq(r, 1, n)
<1>6. t \in Seq(Cell) /\ Len(t) \in Nat
  <2>1. n \in Nat /\ n <= Len(r) /\ 1 \in Nat \ {0}
    BY <1>4, <1>5
  <2> QED
    BY <2>1, <1>5, SubIs
<1> HIDE DEF t
<1> DEFINE S == Segment \o t
<1>7. /\ S \in Seq(Cell) /\ Len(S) = Len(Segment) + Len(t)
      /\ \A i \in 1 .. Len(Segment) + Len(t) :
           S[i] = IF i <= Len(Segment) THEN Segment[i]
                  ELSE t[i - Len(Segment)]
  <2>1. Segment \in Seq(Cell) /\ t \in Seq(Cell)
    BY <1>3, <1>6
  <2> QED
    BY <2>1, ConcatProperties
<1>8. Segment' = S /\ segBuf' \in Seq(Cell) /\ Index' = Index
  <2>1. SubSeq(seg, 1, segPos) \in Seq(Cell)
    <3>1. 1 \in Nat \ {0} /\ segPos <= Len(seg)
      BY <1>3
    <3> QED
      BY <3>1, <1>3, SubIs
  <2>2. segBuf' = segBuf \o t /\ segBuf \o t \in Seq(Cell)
    BY <1>3, <1>4, <1>6, ConcatProperties DEF t
  <2> DEFINE u == SubSeq(seg, 1, segPos)
  <2>3. Segment = u \o segBuf /\ Segment' = u \o segBuf'
    BY <1>1 DEF Segment
  <2>5. u \in Seq(Cell)
    BY <2>1
  <2> HIDE DEF u
  <2>6. segBuf \in Seq(Cell) /\ t \in Seq(Cell)
    BY <1>3, <1>6
  <2>4. (u \o segBuf) \o t = u \o (segBuf \o t)
    BY <2>5, <2>6, ConcatAssociative
  <2> QED
    BY <2>2, <2>3, <2>4, <1>1 DEF Index
<1> HIDE DEF S
<1>9. segLen = EndOf(Segment, Index, nextId) /\ segLen <= Len(Segment)
      /\ segLen \in Nat
  BY <1>2, <1>3 DEF Writing, TypeOK
<1>10. /\ Layout(S, Index, nextId)
       /\ \A k \in 0 .. nextId : EndOf(S, Index, k) = EndOf(Segment, Index, k)
       /\ \A k \in 1 .. nextId :
            /\ Bytes(S, Index, k) = Bytes(Segment, Index, k)
            /\ Mark(S, Index, k) = Mark(Segment, Index, k)
  <2>1. Len(Segment) \in Nat /\ Len(Segment) <= Len(S)
    BY <1>3, <1>6, <1>7
  <2>2. \A i \in 1 .. Len(Segment) : i \in 1 .. Len(Segment) + Len(t)
    BY <2>1, <1>6
  <2>3. \A i \in 1 .. Len(Segment) : S[i] = Segment[i]
    BY <2>1, <2>2, <1>7
  <2>4. nextId \in 0 .. nextId
    BY <1>3
  <2>5. AgreeTo(Segment, Index, S, Index, nextId, Len(Segment))
    BY <2>1, <2>3, <1>3, <1>9 DEF AgreeTo
  <2>6. /\ Segment \in Seq(Cell) /\ Index \in Seq(Entry) /\ S \in Seq(Cell)
        /\ Layout(Segment, Index, nextId)
    BY <1>3, <1>7
  <2> QED
    BY <2>4, <2>5, <2>6, SameBelow
<1>11. segLen = EndOf(S, Index, nextId) /\ segLen <= Len(S)
  BY <1>3, <1>6, <1>7, <1>9, <1>10
<1>12. TypeOK'
  <2>1. fails \in Nat
    BY <1>2 DEF TypeOK
  <2>2. fails' \in Nat
    BY <2>1, <1>1
  <2> QED
    BY <2>2, <1>1, <1>2, <1>8 DEF TypeOK
<1>13. \A k \in 1 .. nextId : Bytes(S, Index, k) = log[k]
  BY <1>2, <1>10 DEF Writing
<1>14. /\ EndOf(S, Index, promised) <= segPos
       /\ EndOf(S, Index, idxDur) <= segPos
       /\ Synced(S, Index, idxDur, segDur)
  <2>1. promised \in 0 .. nextId /\ idxDur \in 0 .. nextId
    <3>1. promised \in Nat /\ idxDur \in Nat /\ promised <= idxPos
          /\ idxDur <= idxPos
      BY <1>2 DEF TypeOK, Writing
    <3> QED
      BY <3>1, <1>3
  <2> QED
    BY <2>1, <1>2, <1>10 DEF Writing, Synced
<1>15. ASSUME Ordinary
       PROVE  /\ EndOf(S, Index, idxPos) <= segPos
              /\ \A k \in 1 .. nextId : Hashed(S, Index, k)
              /\ Mapped(reader, Len(seg), S, Index, idxPos)
  <2>1. /\ EndOf(Segment, Index, idxPos) <= segPos
        /\ \A k \in 1 .. nextId : Hashed(Segment, Index, k)
        /\ Mapped(reader, Len(seg), Segment, Index, idxPos)
    BY <1>2, <1>15 DEF Writing
  <2>2. reader.idx \in Nat /\ reader.seg \in Nat
    BY <1>2 DEF TypeOK
  <2>3. idxPos <= idxPos /\ Len(seg) <= Len(seg)
        /\ \A k \in 0 .. idxPos : k \in 0 .. nextId
    BY <1>3
  <2>4. Mapped(reader, Len(seg), S, Index, idxPos)
    BY <2>1, <2>2, <2>3, <1>3, <1>10, MappedSame
  <2> QED
    BY <2>1, <2>4, <1>3, <1>10 DEF Hashed
<1>16. Writing'
  <2>1. Ordinary' = Ordinary
    BY <1>1 DEF Ordinary
  <2> QED
    BY <2>1, <1>1, <1>2, <1>8, <1>10, <1>11, <1>13, <1>14, <1>15 DEF Writing
<1>17. Down' /\ Recovering'
  BY <1>1 DEF Down, Recovering
<1> QED
  BY <1>12, <1>16, <1>17 DEF StoreInv

\* w is f after the first k cells of buffer b were written at at.
Drained(w, f, b, at, k) ==
  /\ at + k <= Len(w) /\ Len(f) <= Len(w)
  /\ SubSeq(w, 1, at + k) \o SubSeq(b, k + 1, Len(b)) = SubSeq(f, 1, at) \o b
  /\ \A i \in at + k + 1 .. Len(w) : i \in 1 .. Len(f) /\ w[i] = f[i]
  /\ \A i \in 1 .. at : w[i] = f[i]

\* Drain, with its conclusion under a name.
LEMMA DrainIs ==
  ASSUME NEW S, NEW f \in Seq(S), NEW b \in Seq(S), NEW at \in 0 .. Len(f),
         NEW k \in 0 .. Len(b)
  PROVE  /\ WriteAt(f, at, SubSeq(b, 1, k)) \in Seq(S)
         /\ Drained(WriteAt(f, at, SubSeq(b, 1, k)), f, b, at, k)
<1> DEFINE w == WriteAt(f, at, SubSeq(b, 1, k))
<1>1. /\ w \in Seq(S) /\ at + k <= Len(w) /\ Len(f) <= Len(w)
      /\ SubSeq(w, 1, at + k) \o SubSeq(b, k + 1, Len(b))
           = SubSeq(f, 1, at) \o b
      /\ \A i \in at + k + 1 .. Len(w) : i \in 1 .. Len(f) /\ w[i] = f[i]
      /\ \A i \in 1 .. at : w[i] = f[i]
      /\ Len(w) = IF Len(f) > at + k THEN Len(f) ELSE at + k
  BY Drain
<1> HIDE DEF w
<1>2. w \in Seq(S) /\ Drained(w, f, b, at, k)
  BY <1>1 DEF Drained
<1> QED
  BY <1>2 DEF w

\* append's writes to the segment: whatever part of the buffer they drain, file
\* and buffer together are the old ones followed by the record.
LEMMA SegmentGrows ==
  ASSUME TypeOK, Writing, Running, NEW p \in Payloads, NEW d, Write(p, d),
         d \in 0 .. Len(segBuf) + 1 + Len(p)
  PROVE  /\ seg' \in Seq(Cell) /\ segBuf' \in Seq(Cell) /\ segPos' \in Nat
         /\ segPos <= segPos' /\ segPos' <= Len(seg') /\ Len(seg) <= Len(seg')
         /\ Segment' = Segment \o (<<Header(nextId, p)>> \o p)
         /\ \A i \in segPos' + 1 .. Len(seg') : seg'[i] = Zero
         /\ \A i \in 1 .. segPos : seg'[i] = seg[i]
<1> DEFINE hd == <<Header(nextId, p)>>
           out == segBuf \o hd \o p
           w == WriteAt(seg, segPos, SubSeq(out, 1, d))
           rest == SubSeq(out, d + 1, Len(out))
           u == SubSeq(seg, 1, segPos)
<1>1. seg' = w /\ segPos' = segPos + d /\ segBuf' = rest
  BY DEF Write
<1>2. /\ seg \in Seq(Cell) /\ Len(seg) \in Nat /\ segBuf \in Seq(Cell)
      /\ segPos \in 0 .. Len(seg) /\ segPos \in Nat /\ Len(segBuf) \in Nat
      /\ nextId \in Nat
  BY Images
<1>3. hd \in Seq(Cell) /\ Len(hd) = 1 /\ p \in Seq(Cell) /\ Len(p) \in Nat
      /\ hd \o p \in Seq(Cell)
  BY <1>2, RecordIs
<1>4. u \in Seq(Cell)
  <2>1. 1 \in Nat \ {0} /\ segPos <= Len(seg)
    BY <1>2
  <2> QED
    BY <2>1, <1>2, SubIs
<1>5. Segment = u \o segBuf
  BY DEF Segment
<1>6. Segment' = SubSeq(seg', 1, segPos') \o segBuf'
  BY DEF Segment
<1> HIDE DEF hd, u
<1>7. segBuf \o hd \in Seq(Cell) /\ Len(segBuf \o hd) = Len(segBuf) + 1
  <2>1. segBuf \in Seq(Cell) /\ hd \in Seq(Cell)
    BY <1>2, <1>3
  <2>2. segBuf \o hd \in Seq(Cell) /\ Len(segBuf \o hd) = Len(segBuf) + Len(hd)
    BY <2>1, ConcatProperties
  <2> QED
    BY <2>2, <1>3
<1>8. out \in Seq(Cell) /\ Len(out) = Len(segBuf) + 1 + Len(p)
  BY <1>3, <1>7, ConcatProperties
<1>9. out = segBuf \o (hd \o p)
  <2>1. segBuf \in Seq(Cell) /\ hd \in Seq(Cell) /\ p \in Seq(Cell)
    BY <1>2, <1>3
  <2> QED
    BY SMTT(30), <2>1, ConcatAssociative
<1>10. u \o out = Segment \o (hd \o p)
  <2>1. segBuf \in Seq(Cell) /\ hd \o p \in Seq(Cell)
    BY <1>2, <1>3
  <2> DEFINE r == hd \o p
  <2>2. r \in Seq(Cell) /\ out = segBuf \o r
    BY <2>1, <1>9
  <2> HIDE DEF r, out
  <2>3. (u \o segBuf) \o r = u \o (segBuf \o r)
    BY SMTT(30), <2>1, <2>2, <1>4, ConcatAssociative
  <2> QED
    BY <2>2, <2>3, <1>5 DEF r
<1> HIDE DEF out
<1>11. d \in 0 .. Len(out) /\ d \in Nat
  BY <1>2, <1>3, <1>8
<1>12. /\ w \in Seq(Cell) /\ segPos + d <= Len(w) /\ Len(seg) <= Len(w)
       /\ SubSeq(w, 1, segPos + d) \o rest = u \o out
       /\ \A i \in segPos + d + 1 .. Len(w) :
            i \in 1 .. Len(seg) /\ w[i] = seg[i]
       /\ \A i \in 1 .. segPos : w[i] = seg[i]
  <2>1. seg \in Seq(Cell) /\ out \in Seq(Cell)
        /\ segPos \in 0 .. Len(seg) /\ d \in 0 .. Len(out)
    BY <1>2, <1>8, <1>11
  <2>2. PICK f, b, at : f = seg /\ b = out /\ at = segPos
    OBVIOUS
  <2>3. f \in Seq(Cell) /\ b \in Seq(Cell)
        /\ at \in 0 .. Len(f) /\ d \in 0 .. Len(b)
    BY <2>1, <2>2
  <2> DEFINE v == WriteAt(f, at, SubSeq(b, 1, d))
  <2>6. Drained(v, f, b, at, d)
    BY <2>3, DrainIs
  <2>7. v \in Seq(Cell)
    BY <2>3, DrainIs
  <2>4. /\ v \in Seq(Cell) /\ at + d <= Len(v) /\ Len(f) <= Len(v)
        /\ SubSeq(v, 1, at + d) \o SubSeq(b, d + 1, Len(b))
             = SubSeq(f, 1, at) \o b
        /\ \A i \in at + d + 1 .. Len(v) : i \in 1 .. Len(f) /\ v[i] = f[i]
        /\ \A i \in 1 .. at : v[i] = f[i]
    BY <2>6, <2>7 DEF Drained
  <2>5. v = w /\ SubSeq(b, d + 1, Len(b)) = rest /\ SubSeq(f, 1, at) = u
    BY <2>2 DEF u
  <2> HIDE DEF v, w, rest, u
  <2> QED
    BY <2>2, <2>4, <2>5
<1>13. rest \in Seq(Cell)
  <2>1. d + 1 \in Nat \ {0} /\ Len(out) \in Nat /\ Len(out) <= Len(out)
    BY <1>8, <1>11
  <2> QED
    BY <2>1, <1>8, SubIs
<1> HIDE DEF w, rest
<1>14. \A i \in segPos + d + 1 .. Len(w) : w[i] = Zero
  <2> TAKE i \in segPos + d + 1 .. Len(w)
  <2>1. i \in 1 .. Len(seg) /\ w[i] = seg[i]
    BY <1>12
  <2>2. i \in segPos + 1 .. Len(seg)
    BY <2>1, <1>2, <1>11
  <2> QED
    BY <2>1, <2>2 DEF Writing
<1>15. Segment' = Segment \o (hd \o p)
  BY <1>1, <1>6, <1>10, <1>12
<1>16. segPos + d \in Nat /\ segPos <= segPos + d
  BY <1>2, <1>11
<1> QED
  BY <1>1, <1>12, <1>13, <1>14, <1>15, <1>16 DEF hd

\* append's write to the index, with or without a full buffer before it.
LEMMA IndexGrows ==
  ASSUME TypeOK, Writing, Running, NEW e \in Entry,
         IF Len(idxBuf) = IdxCap
         THEN /\ idx' = WriteAt(idx, idxPos, idxBuf)
              /\ idxPos' = idxPos + Len(idxBuf)
              /\ idxBuf' = <<e>>
         ELSE /\ idxBuf' = Append(idxBuf, e)
              /\ UNCHANGED <<idx, idxPos>>
  PROVE  /\ idx' \in Seq(Entry) /\ idxBuf' \in Seq(Entry) /\ idxPos' \in Nat
         /\ idxPos <= idxPos' /\ idxPos' <= Len(idx')
         /\ Index' = Append(Index, e)
         /\ \A m \in idxPos' + 1 .. Len(idx') : idx'[m] = ZeroEntry
<1>1. /\ idx \in Seq(Entry) /\ Len(idx) \in Nat /\ idxBuf \in Seq(Entry)
      /\ idxPos \in 0 .. Len(idx) /\ idxPos \in Nat /\ Len(idxBuf) \in Nat
      /\ Index \in Seq(Entry)
  BY Images
<1>2. <<e>> \in Seq(Entry)
  OBVIOUS
<1> DEFINE u == SubSeq(idx, 1, idxPos)
<1>3. u \in Seq(Entry)
  <2>1. 1 \in Nat \ {0} /\ idxPos <= Len(idx)
    BY <1>1
  <2> QED
    BY <2>1, <1>1, SubIs
<1>4. Index = u \o idxBuf /\ Index' = SubSeq(idx', 1, idxPos') \o idxBuf'
  BY DEF Index
<1>5. Append(Index, e) = Index \o <<e>>
  BY <1>1, AppendIsConcat
<1>6. \A m \in idxPos + 1 .. Len(idx) : idx[m] = ZeroEntry
  BY DEF Writing
<1>7. CASE Len(idxBuf) = IdxCap
  <2> DEFINE w == WriteAt(idx, idxPos, idxBuf)
             v == SubSeq(w, 1, idxPos + Len(idxBuf))
  <2>1. /\ w \in Seq(Entry) /\ idxPos + Len(idxBuf) <= Len(w)
        /\ v \o << >> = u \o idxBuf
        /\ \A i \in idxPos + Len(idxBuf) + 1 .. Len(w) :
             i \in 1 .. Len(idx) /\ w[i] = idx[i]
    BY <1>1, Flushed
  <2>2. idx' = w /\ idxPos' = idxPos + Len(idxBuf) /\ idxBuf' = <<e>>
    BY <1>7
  <2>3. Index' = v \o <<e>>
    BY <2>2, <1>4
  <2> HIDE DEF w
  <2>4. v \in Seq(Entry)
    <3>1. 1 \in Nat \ {0} /\ idxPos + Len(idxBuf) \in Nat
      BY <1>1
    <3> QED
      BY <3>1, <2>1, SubIs
  <2> HIDE DEF v, u
  <2>5. v = Index
    BY <2>1, <2>4, <1>4, ConcatEmptySeq
  <2>6. \A m \in idxPos + Len(idxBuf) + 1 .. Len(w) : w[m] = ZeroEntry
    <3> TAKE m \in idxPos + Len(idxBuf) + 1 .. Len(w)
    <3>1. m \in 1 .. Len(idx) /\ w[m] = idx[m]
      BY <2>1
    <3>2. m \in idxPos + 1 .. Len(idx)
      BY <3>1, <1>1
    <3> QED
      BY <3>1, <3>2, <1>6
  <2>7. idxPos + Len(idxBuf) \in Nat /\ idxPos <= idxPos + Len(idxBuf)
    BY <1>1
  <2> QED
    BY <2>1, <2>2, <2>3, <2>5, <2>6, <2>7, <1>2, <1>5
<1>8. CASE Len(idxBuf) # IdxCap
  <2>1. idxBuf' = Append(idxBuf, e) /\ idx' = idx /\ idxPos' = idxPos
    BY <1>8
  <2>2. Append(idxBuf, e) = idxBuf \o <<e>> /\ Append(idxBuf, e) \in Seq(Entry)
    BY <1>1, AppendIsConcat, AppendProperties
  <2>3. Index' = u \o (idxBuf \o <<e>>)
    BY <2>1, <2>2, <1>4
  <2>4. idxBuf \in Seq(Entry)
    BY <1>1
  <2> HIDE DEF u
  <2>5. (u \o idxBuf) \o <<e>> = u \o (idxBuf \o <<e>>)
    BY <2>4, <1>2, <1>3, ConcatAssociative
  <2>6. Index' = Append(Index, e)
    BY <2>3, <2>5, <1>4, <1>5
  <2>7. idxPos <= idxPos /\ idxPos <= Len(idx)
    BY <1>1
  <2> QED
    BY <2>1, <2>2, <2>6, <2>7, <1>1, <1>6
<1> QED
  BY <1>7, <1>8

\* append preserves the invariant, when no append failed before it.
LEMMA AppendStep ==
  ASSUME StopAtFailure, StoreInv, NEW p \in Payloads, DoAppend(p)
  PROVE  StoreInv'
<1> DEFINE e == [off |-> segLen, chain |-> ChainStep(head, p)]
<1>1. /\ UNCHANGED <<hdr, segDur, idxDur, pc, indexed, failed, reader,
                     promised, kills, powers, fails>>
      /\ pc = "open" /\ ~failed /\ segLen' = segLen + 1 + Len(p)
      /\ nextId' = nextId + 1 /\ head' = ChainStep(head, p)
      /\ inBatch' = inBatch + 1 /\ log' = Append(log, p)
      /\ outgrew' = (outgrew \/ Len(idxBuf) = IdxCap)
  BY DEF DoAppend, MayAppend
<1>2. PICK d \in 0 .. Len(segBuf) + 1 + Len(p) : Write(p, d)
  BY DEF DoAppend
<1>3. IF Len(idxBuf) = IdxCap
      THEN /\ idx' = WriteAt(idx, idxPos, idxBuf)
           /\ idxPos' = idxPos + Len(idxBuf)
           /\ idxBuf' = <<e>>
      ELSE /\ idxBuf' = Append(idxBuf, e)
           /\ UNCHANGED <<idx, idxPos>>
  BY DEF DoAppend
<1>4. TypeOK /\ Writing /\ Running
  BY <1>1 DEF StoreInv, Running
<1>5. /\ Len(seg) \in Nat /\ segPos \in Nat
      /\ nextId \in Nat /\ idxPos \in 0 .. nextId /\ idxPos \in Nat
      /\ Layout(Segment, Index, nextId) /\ Len(Index) = nextId
      /\ Segment \in Seq(Cell) /\ Index \in Seq(Entry)
      /\ \A n \in 0 .. nextId : EndOf(Segment, Index, n) \in Nat
  BY <1>4, Images
<1>6. /\ segLen = Len(Segment) /\ EndOf(Segment, Index, nextId) = Len(Segment)
      /\ segLen \in Nat /\ head = StoredChain(Index, nextId)
      /\ head \in Seq(Payloads)
  BY <1>1, <1>4 DEF Writing, TypeOK
<1>7. ChainStep(head, p) \in Seq(Payloads)
  BY <1>6 DEF ChainStep
<1>8. e \in Entry /\ e.chain = ChainStep(head, p)
  BY <1>6, <1>7 DEF Entry
<1>9. /\ seg' \in Seq(Cell) /\ segBuf' \in Seq(Cell) /\ segPos' \in Nat
      /\ segPos <= segPos' /\ segPos' <= Len(seg') /\ Len(seg) <= Len(seg')
      /\ Segment' = Segment \o (<<Header(nextId, p)>> \o p)
      /\ \A i \in segPos' + 1 .. Len(seg') : seg'[i] = Zero
      /\ \A i \in 1 .. segPos : seg'[i] = seg[i]
  BY <1>2, <1>4, SegmentGrows
<1> HIDE DEF e
<1>10. /\ idx' \in Seq(Entry) /\ idxBuf' \in Seq(Entry) /\ idxPos' \in Nat
       /\ idxPos <= idxPos' /\ idxPos' <= Len(idx')
       /\ Index' = Append(Index, e)
       /\ \A m \in idxPos' + 1 .. Len(idx') : idx'[m] = ZeroEntry
  BY <1>3, <1>4, <1>8, IndexGrows
<1>11. PICK f2, x2 : f2 = Segment' /\ x2 = Index'
  OBVIOUS
<1>12. Lengthened(Segment, Index, nextId, p, f2, x2)
  BY <1>6, <1>9, <1>10, <1>11 DEF Lengthened, e
<1>13. /\ f2 \in Seq(Cell) /\ x2 \in Seq(Entry)
       /\ Layout(f2, x2, nextId + 1) /\ EndOf(f2, x2, nextId + 1) = Len(f2)
       /\ Len(f2) = Len(Segment) + 1 + Len(p)
       /\ \A n \in 0 .. nextId : EndOf(f2, x2, n) = EndOf(Segment, Index, n)
       /\ \A n \in 1 .. nextId : /\ Bytes(f2, x2, n) = Bytes(Segment, Index, n)
                                 /\ Mark(f2, x2, n) = Mark(Segment, Index, n)
       /\ Bytes(f2, x2, nextId + 1) = p /\ Mark(f2, x2, nextId + 1).sum = p
  BY <1>5, <1>6, <1>12, Appended
<1>14. Len(x2) = nextId + 1 /\ x2[nextId + 1] = e
  BY <1>5, <1>8, <1>10, <1>11, AppendProperties
<1>15. ChainStep(head, p) = StoredChain(x2, nextId + 1)
  <2>1. nextId + 1 # 0
    BY <1>5
  <2> QED
    BY <2>1, <1>8, <1>14 DEF StoredChain
<1>16. /\ p \in Seq(Cell) /\ Len(p) \in Nat
  BY <1>5, RecordIs
<1>17. /\ log \in Seq(Seq(Cell)) /\ Len(log) = nextId
       /\ \A n \in 1 .. nextId : Bytes(Segment, Index, n) = log[n]
  BY <1>4 DEF TypeOK, Writing
<1>18. /\ log' \in Seq(Seq(Cell)) /\ Len(log') = nextId + 1
       /\ \A n \in 1 .. nextId : log'[n] = log[n]
       /\ log'[nextId + 1] = p
  BY <1>1, <1>16, <1>17, AppendProperties
<1>19. \A n \in 1 .. nextId + 1 : n \in 1 .. nextId \/ n = nextId + 1
  BY <1>5
<1>20. \A n \in 1 .. nextId + 1 : Bytes(f2, x2, n) = log'[n]
  BY <1>13, <1>17, <1>18, <1>19
<1>21. TypeOK'
  <2>1. segLen' \in Nat /\ nextId' \in Nat
    BY <1>1, <1>5, <1>6, <1>16
  <2>2. inBatch \in Nat
    BY <1>4 DEF TypeOK
  <2>3. inBatch' \in Nat
    BY <2>2, <1>1
  <2> QED
    BY <2>1, <2>3, <1>1, <1>4, <1>7, <1>9, <1>10, <1>18 DEF TypeOK
<1>22. /\ promised \in 0 .. nextId /\ idxDur \in 0 .. nextId
       /\ EndOf(Segment, Index, promised) <= segPos
       /\ EndOf(Segment, Index, idxDur) <= segPos
       /\ Synced(Segment, Index, idxDur, segDur)
       /\ promised <= idxPos /\ idxDur <= idxPos
  <2>1. /\ promised \in Nat /\ idxDur \in Nat /\ promised <= idxPos
        /\ idxDur <= idxPos /\ EndOf(Segment, Index, promised) <= segPos
        /\ EndOf(Segment, Index, idxDur) <= segPos
        /\ Synced(Segment, Index, idxDur, segDur)
    BY <1>4 DEF TypeOK, Writing
  <2> QED
    BY <2>1, <1>5
<1>23. /\ EndOf(f2, x2, promised) <= segPos' /\ EndOf(f2, x2, idxDur) <= segPos'
       /\ promised <= idxPos' /\ idxDur <= idxPos'
       /\ Synced(f2, x2, idxDur, segDur)
  <2>1. EndOf(f2, x2, promised) = EndOf(Segment, Index, promised)
        /\ EndOf(f2, x2, idxDur) = EndOf(Segment, Index, idxDur)
        /\ EndOf(f2, x2, promised) \in Nat /\ EndOf(f2, x2, idxDur) \in Nat
    BY <1>5, <1>13, <1>22
  <2>2. EndOf(f2, x2, promised) <= segPos' /\ EndOf(f2, x2, idxDur) <= segPos'
    BY SMTT(30), <2>1, <1>5, <1>9, <1>22
  <2>3. promised <= idxPos' /\ idxDur <= idxPos'
    BY SMTT(30), <1>5, <1>10, <1>22
  <2> QED
    BY <2>1, <2>2, <2>3, <1>22 DEF Synced
<1>24. seg'[1] = Magic
  <2>1. EndOf(Segment, Index, promised) >= 1
    BY <1>5, <1>22, Measured
  <2>2. 1 \in 1 .. segPos
    BY <2>1, <1>5, <1>22
  <2> QED
    BY <2>2, <1>4, <1>9 DEF Writing
<1>25. ASSUME Ordinary'
       PROVE  /\ Len(idx') = idxPos'
              /\ EndOf(f2, x2, idxPos') <= segPos'
              /\ \A n \in 1 .. nextId + 1 : Hashed(f2, x2, n)
              /\ Mapped(reader, Len(seg'), f2, x2, idxPos')
  <2>1. Ordinary /\ Len(idxBuf) # IdxCap
    BY <1>1, <1>25 DEF Ordinary
  <2>2. idx' = idx /\ idxPos' = idxPos
    BY <2>1, <1>3
  <2>3. /\ Len(idx) = idxPos /\ EndOf(Segment, Index, idxPos) <= segPos
        /\ \A n \in 1 .. nextId : Hashed(Segment, Index, n)
        /\ Mapped(reader, Len(seg), Segment, Index, idxPos)
    BY <2>1, <1>4 DEF Writing
  <2>4. Hashed(f2, x2, nextId + 1)
    BY <1>13 DEF Hashed
  <2>5. \A n \in 1 .. nextId : Hashed(f2, x2, n)
    BY <2>3, <1>13 DEF Hashed
  <2>6. reader.idx \in Nat /\ reader.seg \in Nat
    BY <1>4 DEF TypeOK
  <2>7. idxPos <= idxPos /\ Len(seg') \in Nat
        /\ \A n \in 0 .. idxPos : n \in 0 .. nextId
    BY <1>5, <1>9
  <2>8. Mapped(reader, Len(seg'), f2, x2, idxPos)
    <3>1. \A n \in 0 .. idxPos : EndOf(f2, x2, n) = EndOf(Segment, Index, n)
      BY <2>7, <1>13
    <3> QED
      BY SMTT(30), <3>1, <2>3, <2>6, <2>7, <1>5, <1>9, MappedSame
  <2>9. EndOf(f2, x2, idxPos) <= segPos'
    <3>1. EndOf(f2, x2, idxPos) = EndOf(Segment, Index, idxPos)
          /\ EndOf(Segment, Index, idxPos) \in Nat
      BY <1>5, <1>13
    <3> QED
      BY <3>1, <2>3, <1>5, <1>9
  <2> QED
    BY <2>2, <2>3, <2>4, <2>5, <2>8, <2>9, <1>19
<1>26. Writing'
  <2>1. hdr = "good"
    BY <1>4 DEF Writing
  <2>2. segLen' = EndOf(f2, x2, nextId + 1) /\ segLen' = Len(f2)
        /\ segLen' <= Len(f2)
    BY <1>1, <1>6, <1>13, <1>16
  <2> QED
    BY <2>1, <2>2, <1>1, <1>9, <1>10, <1>11, <1>13, <1>14, <1>15, <1>18,
       <1>20, <1>23, <1>24, <1>25 DEF Writing
<1>27. Down' /\ Recovering'
  BY <1>1 DEF Down, Recovering
<1> QED
  BY <1>21, <1>26, <1>27 DEF StoreInv

\* The facts a crash needs of a store that is being written.
LEMMA Written ==
  ASSUME TypeOK, Writing, Running
  PROVE  /\ promised \in 0 .. nextId /\ idxDur \in 0 .. nextId
         /\ promised <= idxPos /\ idxDur <= idxPos
         /\ EndOf(Segment, Index, promised) <= segPos
         /\ EndOf(Segment, Index, idxDur) <= segPos
         /\ Synced(Segment, Index, idxDur, segDur)
         /\ segPos >= 1 /\ seg # << >> /\ Len(seg) >= 1 /\ seg[1] = Magic
         /\ hdr = "good" /\ promised <= Len(log)
         /\ \A n \in 1 .. promised : Bytes(Segment, Index, n) = log[n]
         /\ Beyond(Segment, Index, nextId)
<1>1. /\ nextId \in Nat /\ idxPos \in 0 .. nextId /\ segPos \in 0 .. Len(seg)
      /\ Layout(Segment, Index, nextId) /\ segPos \in Nat /\ Len(seg) \in Nat
      /\ Segment \in Seq(Cell) /\ Index \in Seq(Entry) /\ Len(Index) = nextId
  BY Images
<1>2. /\ promised \in Nat /\ idxDur \in Nat /\ promised <= idxPos
      /\ idxDur <= idxPos /\ EndOf(Segment, Index, promised) <= segPos
      /\ EndOf(Segment, Index, idxDur) <= segPos
      /\ Synced(Segment, Index, idxDur, segDur)
      /\ Len(log) = nextId /\ hdr = "good" /\ seg[1] = Magic
      /\ \A n \in 1 .. nextId : Bytes(Segment, Index, n) = log[n]
  BY DEF TypeOK, Writing
<1>3. promised \in 0 .. nextId /\ idxDur \in 0 .. nextId
  BY <1>1, <1>2
<1>4. /\ EndOf(Segment, Index, promised) \in Nat
      /\ EndOf(Segment, Index, promised) >= 1
  BY <1>1, <1>3, Measured
<1>5. segPos >= 1 /\ Len(seg) >= 1 /\ seg # << >>
  BY <1>1, <1>2, <1>4
<1>6. \A n \in 1 .. promised : n \in 1 .. nextId
  BY <1>1, <1>3
<1>7. Beyond(Segment, Index, nextId)
  <2>1. \A m \in nextId + 1 .. Len(Index) : FALSE
    BY <1>1
  <2> QED
    BY <2>1 DEF Beyond
<1> QED
  BY <1>1, <1>2, <1>3, <1>5, <1>6, <1>7

\* flush(true) and drop preserve the invariant.
LEMMA CloseStep ==
  ASSUME StoreInv, Close
  PROVE  StoreInv'
<1>1. /\ UNCHANGED <<seg, idx, hdr, segBuf, idxBuf, reader, log, promised,
                     kills, powers, fails, outgrew>>
      /\ pc = "open" /\ segBuf = << >> /\ idxBuf = << >>
      /\ segDur' = segLen /\ idxDur' = nextId /\ pc' = "down"
      /\ segPos' = 0 /\ idxPos' = 0 /\ nextId' = 0 /\ segLen' = 0
      /\ head' = << >> /\ indexed' = 0 /\ inBatch' = 0 /\ failed' = FALSE
  BY DEF Close, boundVars, Genesis
<1>2. TypeOK /\ Writing /\ Running
  BY <1>1 DEF StoreInv, Running
<1>3. /\ seg \in Seq(Cell) /\ idx \in Seq(Entry) /\ segPos \in 0 .. Len(seg)
      /\ nextId \in Nat /\ Len(seg) \in Nat /\ Len(idx) \in Nat
      /\ Layout(Segment, Index, nextId) /\ nextId = idxPos + Len(idxBuf)
      /\ Segment \in Seq(Cell) /\ Index \in Seq(Entry) /\ idxPos <= Len(idx)
      /\ Len(Segment) = segPos + Len(segBuf) /\ idxPos \in Nat
      /\ \A i \in 1 .. segPos : Segment[i] = seg[i]
      /\ \A n \in 1 .. idxPos : Index[n] = idx[n]
  BY <1>2, Images
<1>4. Len(Segment) = segPos /\ nextId = idxPos
  BY <1>1, <1>3
<1>5. segLen = EndOf(Segment, Index, nextId) /\ segLen <= segPos
      /\ segLen \in Nat
  BY <1>2, <1>4 DEF Writing, TypeOK
<1>6. /\ Layout(seg, idx, nextId)
      /\ \A k \in 0 .. nextId : EndOf(seg, idx, k) = EndOf(Segment, Index, k)
      /\ \A k \in 1 .. nextId :
           /\ Bytes(seg, idx, k) = Bytes(Segment, Index, k)
           /\ Mark(seg, idx, k) = Mark(Segment, Index, k)
  <2>1. AgreeTo(Segment, Index, seg, idx, nextId, segPos)
    BY <1>3, <1>4, <1>5 DEF AgreeTo
  <2>2. nextId \in 0 .. nextId
    BY <1>3
  <2> QED
    BY <2>1, <2>2, <1>3, SameBelow
<1>7. Beyond(seg, idx, nextId)
  <2>1. \A m \in nextId + 1 .. Len(idx) : idx[m] = ZeroEntry
    BY <1>2, <1>4 DEF Writing
  <2> QED
    BY <2>1 DEF Beyond, ZeroEntry
<1>8. /\ promised \in 0 .. nextId /\ promised <= Len(log)
      /\ \A n \in 1 .. promised : Bytes(Segment, Index, n) = log[n]
      /\ hdr = "good" /\ seg # << >> /\ seg[1] = Magic
  BY <1>2, Written
<1>9. \A n \in 1 .. promised : Bytes(seg, idx, n) = log[n]
  <2>1. \A n \in 1 .. promised : n \in 1 .. nextId
    BY <1>3, <1>8
  <2> QED
    BY <2>1, <1>6, <1>8
<1>10. Synced(seg, idx, nextId, segLen)
  <2>1. EndOf(seg, idx, nextId) = segLen /\ segLen <= segLen
    BY <1>3, <1>5, <1>6
  <2> QED
    BY <2>1 DEF Synced
<1>11. ASSUME Ordinary
       PROVE  /\ nextId = Len(idx)
              /\ \A n \in 1 .. nextId : Hashed(seg, idx, n)
              /\ Mapped(reader, Len(seg), seg, idx, nextId)
  <2>1. /\ Len(idx) = idxPos
        /\ \A n \in 1 .. nextId : Hashed(Segment, Index, n)
        /\ Mapped(reader, Len(seg), Segment, Index, nextId)
    BY <1>2, <1>4, <1>11 DEF Writing
  <2>2. reader.idx \in Nat /\ reader.seg \in Nat
    BY <1>2 DEF TypeOK
  <2>3. nextId <= nextId /\ Len(seg) <= Len(seg)
    BY <1>3
  <2>4. Mapped(reader, Len(seg), seg, idx, nextId)
    BY <2>1, <2>2, <2>3, <1>3, <1>6, MappedSame
  <2> QED
    BY <2>1, <2>4, <1>4, <1>6 DEF Hashed
<1>12. PICK g : g = nextId
  OBVIOUS
<1>13. Disk(g)'
  <2>1. promised <= g /\ g <= g
    BY <1>3, <1>8, <1>12
  <2> QED
    BY <2>1, <1>1, <1>6, <1>7, <1>8, <1>9, <1>10, <1>11, <1>12
       DEF Disk, Ordinary
<1>14. Down'
  <2>1. g \in Nat
    BY <1>3, <1>12
  <2> QED
    BY <2>1, <1>1, <1>8, <1>13 DEF Down
<1>15. TypeOK'
  <2>1. << >> \in Seq(Payloads) /\ 0 \in Nat
    OBVIOUS
  <2>2. segDur' \in Nat /\ idxDur' \in Nat
    BY <1>1, <1>3, <1>5
  <2> QED
    BY <2>1, <2>2, <1>1, <1>2 DEF TypeOK
<1>16. Recovering' /\ Writing'
  BY <1>1 DEF Recovering, Writing, Running
<1> QED
  BY <1>14, <1>15, <1>16 DEF StoreInv

\* A cut after a cells and b entries spares q promised, i synced records.
Outlives(f, x, a, b, q, i, s, lg) ==
  /\ q <= b /\ (q > 0 => EndOf(f, x, q) <= a)
  /\ i <= b /\ (i > 0 => EndOf(f, x, i) <= a)
  /\ Synced(f, x, i, s)
  /\ \A n \in 1 .. q : Bytes(f, x, n) = lg[n]

\* After that cut h records remain, those among them.
Kept(f, x, g, f2, x2, a, b, q, i, s, lg, h) ==
  /\ h <= b /\ Layout(f2, x2, h) /\ Beyond(f2, x2, h)
  /\ q <= h /\ i <= h /\ Synced(f2, x2, i, s)
  /\ \A n \in 1 .. q : Bytes(f2, x2, n) = lg[n]
  /\ \A n \in 1 .. g : n <= b /\ EndOf(f, x, n) <= a =>
       /\ n <= h /\ Bytes(f2, x2, n) = Bytes(f, x, n)
       /\ Mark(f2, x2, n) = Mark(f, x, n)

\* Cut, for the promised records q and the synced ones i: when the cut spares
\* them they are among those that remain.
LEMMA Survivors ==
  ASSUME NEW f \in Seq(Cell), NEW x \in Seq(Entry), NEW g,
         Layout(f, x, g), Beyond(f, x, g),
         NEW f2 \in Seq(Cell), NEW x2 \in Seq(Entry), NEW a, NEW b,
         CutAt(f, x, g, f2, x2, a, b),
         NEW q \in 0 .. g, NEW i \in 0 .. g, NEW s, NEW lg,
         Outlives(f, x, a, b, q, i, s, lg)
  PROVE  \E h \in Nat : Kept(f, x, g, f2, x2, a, b, q, i, s, lg, h)
<1>1. PICK h \in 0 .. g :
        /\ h <= b /\ Layout(f2, x2, h) /\ Beyond(f2, x2, h)
        /\ \A n \in 0 .. h : EndOf(f2, x2, n) = EndOf(f, x, n)
        /\ \A n \in 1 .. g : n <= b /\ EndOf(f, x, n) <= a => n <= h
        /\ \A n \in 1 .. h : EndOf(f, x, n) <= a =>
             /\ Bytes(f2, x2, n) = Bytes(f, x, n)
             /\ Mark(f2, x2, n) = Mark(f, x, n)
  BY SMTT(30), Cut
<1>2. g \in Nat /\ h \in Nat /\ a \in Nat /\ b \in Nat
      /\ \A n \in 0 .. g : EndOf(f, x, n) \in Nat
  <2>1. g \in Nat /\ \A n \in 0 .. g : EndOf(f, x, n) \in Nat
    BY Measured
  <2>2. a \in 0 .. Len(f) /\ b \in 0 .. Len(x)
    BY DEF CutAt
  <2> QED
    BY <2>1, <2>2
<1>3. q <= h /\ i <= h
  <2>1. q = 0 \/ q \in 1 .. g
    BY <1>2
  <2>2. i = 0 \/ i \in 1 .. g
    BY <1>2
  <2> QED
    BY <2>1, <2>2, <1>1, <1>2 DEF Outlives
<1>4. Synced(f2, x2, i, s)
  <2>1. i \in 0 .. h
    BY <1>2, <1>3
  <2> QED
    BY <2>1, <1>1 DEF Synced, Outlives
<1>5. \A n \in 1 .. q : n \in 1 .. h /\ EndOf(f, x, n) <= a
  <2> TAKE n \in 1 .. q
  <2>1. n \in 1 .. h /\ n \in 0 .. g /\ q \in 0 .. g /\ n <= q /\ q > 0
    BY <1>2, <1>3
  <2>2. EndOf(f, x, n) <= EndOf(f, x, q)
    BY <2>1 DEF Layout
  <2>3. EndOf(f, x, q) <= a
    BY <2>1 DEF Outlives
  <2> QED
    BY <2>1, <2>2, <2>3, <1>2
<1>6. \A n \in 1 .. q : Bytes(f2, x2, n) = lg[n]
  BY <1>1, <1>5 DEF Outlives
<1>7. \A n \in 1 .. g : n <= b /\ EndOf(f, x, n) <= a =>
        /\ n <= h /\ Bytes(f2, x2, n) = Bytes(f, x, n)
        /\ Mark(f2, x2, n) = Mark(f, x, n)
  <2> TAKE n \in 1 .. g
  <2> HAVE n <= b /\ EndOf(f, x, n) <= a
  <2>1. n <= h
    BY <1>1
  <2>2. n \in 1 .. h
    BY <2>1, <1>2
  <2> QED
    BY <2>1, <2>2, <1>1
<1>8. Kept(f, x, g, f2, x2, a, b, q, i, s, lg, h)
  BY <1>1, <1>3, <1>4, <1>6, <1>7 DEF Kept
<1> QED
  BY <1>2, <1>8

\* w is f with a write at at, towards t, that stopped after k cells.
CutShort(w, f, t, at, k) ==
  /\ at + k <= Len(w)
  /\ \A i \in 1 .. at + k : w[i] = t[i]
  /\ \A i \in at + k + 1 .. Len(w) : i \in at + 1 .. Len(f) /\ w[i] = f[i]
  /\ Len(f) = at => Len(w) = at + k
  /\ k = 0 => Len(w) = Len(f)

\* A write at a cursor that stops after k cells.
LEMMA CutWrite ==
  ASSUME NEW S, NEW f \in Seq(S), NEW b \in Seq(S), NEW at \in 0 .. Len(f),
         NEW k \in 0 .. Len(b)
  PROVE  /\ WriteAt(f, at, SubSeq(b, 1, k)) \in Seq(S)
         /\ CutShort(WriteAt(f, at, SubSeq(b, 1, k)), f,
                     SubSeq(f, 1, at) \o b, at, k)
<1> DEFINE w == WriteAt(f, at, SubSeq(b, 1, k))
           t == SubSeq(f, 1, at) \o b
           rest == SubSeq(b, k + 1, Len(b))
<1>1. /\ w \in Seq(S) /\ at + k <= Len(w) /\ Len(f) <= Len(w)
      /\ SubSeq(w, 1, at + k) \o SubSeq(b, k + 1, Len(b))
           = SubSeq(f, 1, at) \o b
      /\ \A i \in at + k + 1 .. Len(w) : i \in 1 .. Len(f) /\ w[i] = f[i]
      /\ \A i \in 1 .. at : w[i] = f[i]
      /\ Len(w) = IF Len(f) > at + k THEN Len(f) ELSE at + k
  BY Drain
<1>2. Len(f) \in Nat /\ Len(b) \in Nat /\ at \in Nat /\ k \in Nat
      /\ at <= Len(f)
  OBVIOUS
<1>3. rest \in Seq(S)
  <2>1. k + 1 \in Nat \ {0} /\ Len(b) <= Len(b)
    BY <1>2
  <2> QED
    BY <2>1, <1>2, SubIs
<1>4. t = SubSeq(w, 1, at + k) \o rest
  BY <1>1
<1> HIDE DEF w, rest, t
<1>5. at + k \in 0 .. Len(w) /\ Len(w) \in Nat
  BY <1>1, <1>2
<1>6. \A i \in 1 .. at + k : t[i] = w[i]
  BY SMTT(30), <1>1, <1>3, <1>4, <1>5, ImageIs
<1>7. \A i \in at + k + 1 .. Len(w) : i \in at + 1 .. Len(f) /\ w[i] = f[i]
  <2> TAKE i \in at + k + 1 .. Len(w)
  <2>1. i \in 1 .. Len(f) /\ w[i] = f[i]
    BY <1>1
  <2> QED
    BY <2>1, <1>2
<1>8. /\ Len(f) = at => Len(w) = at + k
      /\ k = 0 => Len(w) = Len(f)
  BY <1>1, <1>2
<1>9. w \in Seq(S) /\ at + k <= Len(w)
  BY <1>1
<1>10. CutShort(w, f, t, at, k)
  BY <1>6, <1>7, <1>8, <1>9 DEF CutShort
<1> QED
  BY <1>9, <1>10 DEF w, t

\* What a kill leaves of the segment.
LEMMA SegmentCut ==
  ASSUME TypeOK, Writing, Running, NEW n \in 0 .. Len(segBuf)
  PROVE  /\ CutSeg(n) \in Seq(Cell)
         /\ segPos + n <= Len(CutSeg(n))
         /\ \A i \in 1 .. segPos + n : CutSeg(n)[i] = Segment[i]
         /\ \A i \in segPos + n + 1 .. Len(CutSeg(n)) : CutSeg(n)[i] = Zero
<1>1. /\ seg \in Seq(Cell) /\ segBuf \in Seq(Cell)
      /\ segPos \in 0 .. Len(seg)
  BY Images
<1> DEFINE w == WriteAt(seg, segPos, SubSeq(segBuf, 1, n))
           t == SubSeq(seg, 1, segPos) \o segBuf
<1>2. /\ w \in Seq(Cell) /\ segPos + n <= Len(w)
      /\ \A i \in 1 .. segPos + n : w[i] = t[i]
      /\ \A i \in segPos + n + 1 .. Len(w) :
           i \in segPos + 1 .. Len(seg) /\ w[i] = seg[i]
  <2>1. w \in Seq(Cell) /\ CutShort(w, seg, t, segPos, n)
    BY <1>1, CutWrite
  <2> HIDE DEF w, t
  <2> QED
    BY <2>1 DEF CutShort
<1>3. CutSeg(n) = w /\ Segment = t
  BY DEF CutSeg, Segment
<1> HIDE DEF w, t
<1>4. \A i \in segPos + 1 .. Len(seg) : seg[i] = Zero
  BY DEF Writing
<1> QED
  BY <1>2, <1>3, <1>4

\* What a kill leaves of the index, an entry torn in the middle included.
LEMMA IndexCut ==
  ASSUME TypeOK, Writing, Running, NEW n \in 0 .. Len(idxBuf),
         NEW torn \in BOOLEAN,
         torn => n < Len(idxBuf) /\ idxPos + n < Len(idx)
  PROVE  /\ CutIdx(n, torn) \in Seq(Entry)
         /\ idxPos + n <= Len(CutIdx(n, torn))
         /\ \A m \in 1 .. idxPos + n : CutIdx(n, torn)[m] = Index[m]
         /\ \A m \in idxPos + n + 1 .. Len(CutIdx(n, torn)) :
              CutIdx(n, torn)[m].chain = BadChain
         /\ Len(idx) = idxPos => Len(CutIdx(n, torn)) = idxPos + n
<1>1. /\ idx \in Seq(Entry) /\ idxBuf \in Seq(Entry) /\ idxPos \in Nat
      /\ idxPos \in 0 .. Len(idx) /\ Len(idx) \in Nat /\ Len(idxBuf) \in Nat
      /\ Index \in Seq(Entry) /\ Len(Index) = idxPos + Len(idxBuf)
  BY Images
<1> DEFINE c == SubSeq(idxBuf, 1, n)
           w == WriteAt(idx, idxPos, c)
           t == SubSeq(idx, 1, idxPos) \o idxBuf
<1>2. /\ w \in Seq(Entry) /\ idxPos + n <= Len(w)
      /\ \A i \in 1 .. idxPos + n : w[i] = t[i]
      /\ \A i \in idxPos + n + 1 .. Len(w) :
           i \in idxPos + 1 .. Len(idx) /\ w[i] = idx[i]
      /\ Len(idx) = idxPos => Len(w) = idxPos + n
  <2>1. w \in Seq(Entry) /\ CutShort(w, idx, t, idxPos, n)
    BY <1>1, CutWrite
  <2> HIDE DEF w, t
  <2> QED
    BY <2>1 DEF CutShort
<1>3. Index = t
  BY DEF Index
<1>4. \A i \in idxPos + 1 .. Len(idx) : idx[i].chain = BadChain
  <2>1. \A i \in idxPos + 1 .. Len(idx) : idx[i] = ZeroEntry
    BY DEF Writing
  <2> QED
    BY <2>1 DEF ZeroEntry
<1>5. c \in Seq(Entry) /\ Len(c) = n /\ n \in Nat
      /\ \A i \in 1 .. n : c[i] = idxBuf[i]
  BY <1>1
<1>6. CASE ~torn
  <2>1. CutIdx(n, torn) = w
    BY <1>6 DEF CutIdx
  <2> HIDE DEF w, t
  <2> QED
    BY <2>1, <1>2, <1>3, <1>4
<1>7. CASE torn
  <2> DEFINE e == TornEntry(idxBuf[n + 1])
             d == Append(c, e)
             v == WriteAt(idx, idxPos, d)
  <2>1. n + 1 \in 1 .. Len(idxBuf) /\ idxPos + n < Len(idx)
    BY <1>1, <1>5, <1>7
  <2>2. e \in Entry /\ e.chain = BadChain
    <3>1. idxBuf[n + 1] \in Entry
      BY <2>1, <1>1, ElementOfSeq
    <3>2. e = [off |-> idxBuf[n + 1].off, chain |-> BadChain]
      BY <3>1 DEF TornEntry, Entry
    <3> QED
      BY <3>1, <3>2 DEF Entry
  <2> HIDE DEF e
  <2>3. CutIdx(n, torn) = v
    BY <1>7 DEF CutIdx, e
  <2> HIDE DEF c
  <2>4. /\ d \in Seq(Entry) /\ Len(d) = n + 1 /\ d[n + 1] = e
        /\ \A i \in 1 .. n : d[i] = c[i]
    BY <2>2, <1>5, AppendProperties
  <2> HIDE DEF d
  <2>5. /\ v \in Seq(Entry)
        /\ Len(v) = IF Len(idx) > idxPos + Len(d) THEN Len(idx)
                    ELSE idxPos + Len(d)
        /\ \A i \in 1 .. Len(v) :
             v[i] = IF i > idxPos /\ i <= idxPos + Len(d)
                    THEN d[i - idxPos] ELSE idx[i]
    BY <2>4, <1>1, WriteAtIs
  <2> HIDE DEF v
  <2>6. Len(v) = Len(idx)
    BY <2>1, <2>4, <2>5, <1>1, <1>5
  <2>7. \A i \in 1 .. Len(idx) :
          v[i] = IF i > idxPos /\ i <= idxPos + (n + 1)
                 THEN d[i - idxPos] ELSE idx[i]
    BY <2>4, <2>5, <2>6
  <2>8. /\ \A i \in 1 .. idxPos : Index[i] = idx[i]
        /\ \A i \in 1 .. Len(idxBuf) : Index[idxPos + i] = idxBuf[i]
    BY <1>1, <1>3, ImageIs
  <2>9. \A m \in 1 .. idxPos + n : v[m] = Index[m]
    <3> TAKE m \in 1 .. idxPos + n
    <3>1. m \in 1 .. Len(idx)
      BY <2>1, <1>1, <1>5
    <3>2. CASE m <= idxPos
      <4>1. m \in 1 .. idxPos /\ ~(m > idxPos)
        BY <3>2, <1>1, <1>5
      <4> QED
        BY <4>1, <3>1, <2>7, <2>8
    <3>3. CASE m > idxPos
      <4>1. /\ m - idxPos \in 1 .. n /\ m - idxPos \in 1 .. Len(idxBuf)
            /\ idxPos + (m - idxPos) = m /\ m <= idxPos + (n + 1)
        BY <3>3, <2>1, <1>1, <1>5
      <4>2. v[m] = d[m - idxPos]
        BY <4>1, <3>1, <3>3, <2>7
      <4>3. d[m - idxPos] = idxBuf[m - idxPos]
        BY <4>1, <2>4, <1>5
      <4>4. Index[m] = idxBuf[m - idxPos]
        BY <4>1, <2>8
      <4> QED
        BY <4>2, <4>3, <4>4
    <3> QED
      BY <3>2, <3>3, <1>1, <1>5
  <2>10. \A m \in idxPos + n + 1 .. Len(v) : v[m].chain = BadChain
    <3> TAKE m \in idxPos + n + 1 .. Len(v)
    <3>1. m \in 1 .. Len(idx) /\ m \in idxPos + 1 .. Len(idx) /\ m > idxPos
      BY <2>6, <1>1, <1>5
    <3>2. CASE m = idxPos + n + 1
      <4>1. m <= idxPos + (n + 1) /\ m - idxPos = n + 1
        BY <3>2, <1>1, <1>5
      <4>2. v[m] = e
        BY <4>1, <3>1, <2>4, <2>7
      <4> QED
        BY <4>2, <2>2
    <3>3. CASE m # idxPos + n + 1
      <4>1. ~(m <= idxPos + (n + 1))
        BY <3>3, <1>1, <1>5
      <4>2. v[m] = idx[m]
        BY <4>1, <3>1, <2>7
      <4> QED
        BY <4>2, <3>1, <1>4
    <3> QED
      BY <3>2, <3>3
  <2>11. idxPos + n <= Len(v) /\ Len(idx) # idxPos
    BY <2>1, <2>6, <1>1, <1>5
  <2> QED
    BY <2>3, <2>5, <2>9, <2>10, <2>11
<1> QED
  BY <1>6, <1>7

\* Once the process is gone, a good disk is all the invariant asks.
LEMMA GoneStep ==
  ASSUME TypeOK, ProcessGone, UNCHANGED <<segDur, idxDur, log, fails>>,
         seg' \in Seq(Cell), idx' \in Seq(Entry),
         hdr' \in {"absent", "good", "zeroed"},
         promised' \in Nat, kills' \in Nat, powers' \in Nat,
         promised' > 0 => hdr' = "good" /\ seg' # << >> /\ seg'[1] = Magic,
         NEW h \in Nat, Disk(h)'
  PROVE  StoreInv'
<1>1. /\ pc' = "down" /\ segBuf' = << >> /\ idxBuf' = << >> /\ segPos' = 0
      /\ idxPos' = 0 /\ nextId' = 0 /\ segLen' = 0 /\ head' = << >>
      /\ indexed' = 0 /\ inBatch' = 0 /\ failed' = FALSE
      /\ reader' = [at |-> "none", idx |-> 0, seg |-> 0, count |-> 0]
  BY DEF ProcessGone, Genesis
<1>2. /\ << >> \in Seq(Cell) /\ << >> \in Seq(Entry) /\ << >> \in Seq(Payloads)
      /\ 0 \in Nat
  OBVIOUS
<1>3. reader' \in [at : {"none", "idx", "seg", "ready"}, idx : Nat, seg : Nat,
                   count : Nat]
  BY <1>1
<1>4. TypeOK'
  BY ZenonT(60), <1>1, <1>2, <1>3 DEF TypeOK
<1>5. Down'
  BY <1>1 DEF Down
<1>6. Recovering' /\ Writing'
  BY <1>1 DEF Recovering, Writing, Running
<1> QED
  BY <1>4, <1>5, <1>6 DEF StoreInv

\* SIGKILL preserves the invariant, whatever it interrupts.
LEMMA KillStep ==
  ASSUME StoreInv, Kill
  PROVE  StoreInv'
<1>1. /\ UNCHANGED <<hdr, segDur, idxDur, log, promised, powers, fails>>
      /\ pc \notin {"down", "refused"} /\ ProcessGone /\ kills' = kills + 1
      /\ reader'.at = "none"
  BY DEF Kill, ProcessGone
<1>2. TypeOK
  BY DEF StoreInv
<1>3. /\ promised \in Nat /\ powers \in Nat /\ idxDur \in Nat
      /\ pc \in {"reindex", "zeroIdx", "zeroSeg"} \/ Running
      /\ hdr \in {"absent", "good", "zeroed"}
  BY <1>1, <1>2 DEF TypeOK, Running
<1>4. kills' \in Nat
  <2>1. kills \in Nat
    BY <1>2 DEF TypeOK
  <2> QED
    BY <2>1, <1>1
<1>5. CASE pc \in {"reindex", "zeroIdx", "zeroSeg"}
  <2>1. Recovering /\ ~IdxDraining
    BY <1>5 DEF StoreInv, IdxDraining
  <2>2. /\ Disk(nextId) /\ segBuf = << >> /\ segPos <= Len(seg)
        /\ hdr = "good" /\ seg # << >> /\ seg[1] = Magic
    BY SMTT(30), <2>1, <1>5, <1>2 DEF Recovering, TypeOK
  <2>3. /\ seg \in Seq(Cell) /\ Len(seg) \in Nat /\ idx \in Seq(Entry)
        /\ segPos \in Nat /\ nextId \in Nat
    BY <1>2 DEF TypeOK
  <2>4. idx' = idx /\ outgrew' = outgrew
        /\ \E n \in 0 .. Len(segBuf) : seg' = CutSeg(n)
    BY <2>1 DEF Kill
  <2>5. seg' = seg
    <3>1. PICK n \in 0 .. Len(segBuf) : seg' = CutSeg(n)
      BY <2>4
    <3> DEFINE c == SubSeq(segBuf, 1, n)
               w == WriteAt(seg, segPos, c)
    <3>2. n = 0 /\ c = << >>
      BY <2>2
    <3>3. seg' = w
      BY <3>1 DEF CutSeg
    <3>4. c \in Seq(Cell) /\ Len(c) = 0
      BY <3>2
    <3> HIDE DEF c
    <3>5. segPos \in 0 .. Len(seg)
      BY <2>2, <2>3
    <3>6. /\ w \in Seq(Cell)
          /\ Len(w) = IF Len(seg) > segPos + Len(c) THEN Len(seg)
                      ELSE segPos + Len(c)
          /\ \A i \in 1 .. Len(w) :
               w[i] = IF i > segPos /\ i <= segPos + Len(c)
                      THEN c[i - segPos] ELSE seg[i]
      BY <3>4, <3>5, <2>3, WriteAtIs
    <3> HIDE DEF w
    <3>7. Len(w) = Len(seg)
      BY <3>4, <3>6, <2>2, <2>3
    <3>8. \A i \in 1 .. Len(w) : w[i] = seg[i]
      <4>1. \A i \in 1 .. Len(w) : ~(i > segPos /\ i <= segPos + Len(c))
        BY <3>4, <2>3
      <4> QED
        BY <4>1, <3>6
    <3>9. w = seg
      BY <3>6, <3>7, <3>8, <2>3, SeqEqual
    <3> QED
      BY <3>3, <3>9
  <2>6. PICK g : g = nextId
    OBVIOUS
  <2>7. Disk(g)'
    <3>1. Ordinary' = Ordinary
      BY <2>4, <1>1 DEF Ordinary
    <3>2. Mapped(reader', Len(seg), seg, idx, g)
      BY <1>1 DEF Mapped
    <3> QED
      BY <3>1, <3>2, <2>2, <2>4, <2>5, <2>6, <1>1 DEF Disk
  <2>8. seg' \in Seq(Cell) /\ idx' \in Seq(Entry) /\ g \in Nat
        /\ seg' # << >> /\ seg'[1] = Magic /\ hdr' = "good"
    BY <2>2, <2>3, <2>4, <2>5, <2>6, <1>1
  <2> QED
    BY <2>7, <2>8, <1>1, <1>2, <1>3, <1>4, GoneStep
<1>6. CASE Running
  <2>1. Writing
    BY DEF StoreInv
  <2>2. /\ segPos \in Nat /\ idxPos \in 0 .. nextId /\ idxPos \in Nat
        /\ Segment \in Seq(Cell) /\ Len(Segment) = segPos + Len(segBuf)
        /\ Index \in Seq(Entry) /\ Len(Index) = idxPos + Len(idxBuf)
        /\ \A m \in 1 .. idxPos : Index[m] = idx[m]
        /\ Len(segBuf) \in Nat /\ Len(idxBuf) \in Nat
        /\ Len(Index) = nextId /\ nextId \in Nat
        /\ Layout(Segment, Index, nextId)
        /\ \A k \in 0 .. nextId : EndOf(Segment, Index, k) \in Nat
        /\ idx \in Seq(Entry) /\ idxPos \in 0 .. Len(idx)
    BY <1>2, <1>6, <2>1, Images
  <2>3. /\ promised \in 0 .. nextId /\ idxDur \in 0 .. nextId
        /\ promised <= idxPos /\ idxDur <= idxPos
        /\ EndOf(Segment, Index, promised) <= segPos
        /\ EndOf(Segment, Index, idxDur) <= segPos
        /\ Synced(Segment, Index, idxDur, segDur)
        /\ segPos >= 1 /\ seg[1] = Magic
        /\ hdr = "good" /\ promised <= Len(log)
        /\ \A k \in 1 .. promised : Bytes(Segment, Index, k) = log[k]
        /\ Beyond(Segment, Index, nextId)
    BY <1>2, <1>6, <2>1, Written
  <2>4. PICK n \in 0 .. Len(segBuf) : seg' = CutSeg(n)
    <3>1. \A k \in {0, Len(segBuf)} : k \in 0 .. Len(segBuf)
      BY <2>2
    <3> QED
      BY <3>1 DEF Kill
  <2> DEFINE a == segPos + n
  <2>5. /\ seg' \in Seq(Cell) /\ a <= Len(seg')
        /\ \A i \in 1 .. a : seg'[i] = Segment[i]
        /\ \A i \in a + 1 .. Len(seg') : seg'[i] = Zero
    BY <2>1, <2>4, <1>2, <1>6, SegmentCut
  <2>6. \E k \in 0 .. Len(idxBuf) :
          /\ idx' \in Seq(Entry) /\ idxPos + k <= Len(idx')
          /\ \A m \in 1 .. idxPos + k : idx'[m] = Index[m]
          /\ \A m \in idxPos + k + 1 .. Len(idx') : idx'[m].chain = BadChain
          /\ Ordinary' => /\ Len(idx') = idxPos + k
                          /\ EndOf(Segment, Index, idxPos + k) <= segPos
    <3>1. CASE UNCHANGED <<idx, outgrew>>
      <4>1. 0 \in 0 .. Len(idxBuf) /\ idxPos + 0 = idxPos
        BY <2>2
      <4>2. \A m \in idxPos + 1 .. Len(idx) : idx[m].chain = BadChain
        <5>1. \A m \in idxPos + 1 .. Len(idx) : idx[m] = ZeroEntry
          BY <2>1, <1>6 DEF Writing
        <5> QED
          BY <5>1 DEF ZeroEntry
      <4>3. Ordinary' => /\ Len(idx) = idxPos
                         /\ EndOf(Segment, Index, idxPos) <= segPos
        BY <2>1, <3>1, <1>1, <1>6 DEF Ordinary, Writing
      <4>4. idxPos <= Len(idx)
        BY <2>2
      <4> QED
        BY <4>1, <4>2, <4>3, <4>4, <3>1, <2>2
    <3>2. CASE /\ outgrew' = (outgrew \/ pc = "open")
               /\ \E k \in 0 .. Len(idxBuf), torn \in BOOLEAN :
                    /\ torn => k < Len(idxBuf) /\ idxPos + k < Len(idx)
                    /\ idx' = CutIdx(k, torn)
      <4>1. PICK k \in 0 .. Len(idxBuf), torn \in BOOLEAN :
                    /\ torn => k < Len(idxBuf) /\ idxPos + k < Len(idx)
                    /\ idx' = CutIdx(k, torn)
        BY <3>2
      <4>2. /\ idx' \in Seq(Entry) /\ idxPos + k <= Len(idx')
            /\ \A m \in 1 .. idxPos + k : idx'[m] = Index[m]
            /\ \A m \in idxPos + k + 1 .. Len(idx') : idx'[m].chain = BadChain
            /\ Len(idx) = idxPos => Len(idx') = idxPos + k
        BY <4>1, <2>1, <1>2, <1>6, IndexCut
      <4>3. ASSUME Ordinary'
            PROVE  /\ Len(idx) = idxPos
                   /\ EndOf(Segment, Index, idxPos + k) <= segPos
        <5>1. Ordinary /\ pc = "flushIdx"
          BY <4>3, <3>2, <1>1, <1>6 DEF Ordinary, Running
        <5>2. /\ Len(idx) = idxPos /\ segBuf = << >>
              /\ EndOf(Segment, Index, nextId) <= Len(Segment)
          BY <5>1, <2>1, <1>6 DEF Writing
        <5>3. Len(Segment) = segPos
          BY <5>2, <2>2
        <5>4. idxPos + k \in 0 .. nextId /\ nextId \in 0 .. nextId
              /\ idxPos + k <= nextId
          BY <2>2
        <5>5. EndOf(Segment, Index, idxPos + k)
                <= EndOf(Segment, Index, nextId)
          BY <5>4, <2>2 DEF Layout
        <5>6. /\ EndOf(Segment, Index, idxPos + k) \in Nat
              /\ EndOf(Segment, Index, nextId) \in Nat
          BY <5>4, <2>2
        <5> QED
          BY <5>2, <5>3, <5>5, <5>6, <2>2
      <4> QED
        BY <4>2, <4>3
    <3> QED
      BY <3>1, <3>2 DEF Kill
  <2>7. PICK k \in 0 .. Len(idxBuf) :
          /\ idx' \in Seq(Entry) /\ idxPos + k <= Len(idx')
          /\ \A m \in 1 .. idxPos + k : idx'[m] = Index[m]
          /\ \A m \in idxPos + k + 1 .. Len(idx') : idx'[m].chain = BadChain
          /\ Ordinary' => /\ Len(idx') = idxPos + k
                          /\ EndOf(Segment, Index, idxPos + k) <= segPos
    BY <2>6
  <2> DEFINE b == idxPos + k
  <2>8. a \in 0 .. Len(Segment) /\ b \in 0 .. Len(Index) /\ b \in 0 .. nextId
        /\ a \in Nat /\ b \in Nat /\ segPos <= a /\ idxPos <= b
    BY <2>2
  <2>9. PICK f2, x2 : f2 = seg' /\ x2 = idx'
    OBVIOUS
  <2>10. CutAt(Segment, Index, nextId, f2, x2, a, b)
    BY <2>2, <2>5, <2>7, <2>8, <2>9 DEF CutAt
  <2>11. Outlives(Segment, Index, a, b, promised, idxDur, segDur, log)
    <3>1. EndOf(Segment, Index, promised) \in Nat
          /\ EndOf(Segment, Index, idxDur) \in Nat
      BY <2>2, <2>3
    <3>2. promised <= b /\ idxDur <= b
      BY SMTT(30), <2>2, <2>3, <2>8
    <3>3. /\ EndOf(Segment, Index, promised) <= a
          /\ EndOf(Segment, Index, idxDur) <= a
      BY SMTT(30), <3>1, <2>2, <2>3, <2>8
    <3> QED
      BY <3>2, <3>3, <2>3 DEF Outlives
  <2> HIDE DEF a, b
  <2>12. f2 \in Seq(Cell) /\ x2 \in Seq(Entry)
    BY <2>5, <2>7, <2>9
  <2>13. PICK h \in Nat :
           /\ h <= b /\ Layout(f2, x2, h) /\ Beyond(f2, x2, h)
           /\ promised <= h /\ idxDur <= h /\ Synced(f2, x2, idxDur, segDur)
           /\ \A j \in 1 .. promised : Bytes(f2, x2, j) = log[j]
           /\ \A j \in 1 .. nextId : j <= b /\ EndOf(Segment, Index, j) <= a =>
                /\ j <= h /\ Bytes(f2, x2, j) = Bytes(Segment, Index, j)
                /\ Mark(f2, x2, j) = Mark(Segment, Index, j)
    <3>1. /\ Segment \in Seq(Cell) /\ Index \in Seq(Entry)
          /\ Layout(Segment, Index, nextId) /\ Beyond(Segment, Index, nextId)
          /\ promised \in 0 .. nextId /\ idxDur \in 0 .. nextId
      BY <2>2, <2>3
    <3>2. \E h \in Nat : Kept(Segment, Index, nextId, f2, x2, a, b, promised,
                             idxDur, segDur, log, h)
      BY <3>1, <2>10, <2>11, <2>12, Survivors
    <3> QED
      BY <3>2 DEF Kept
  <2>14. ASSUME Ordinary'
         PROVE  h = Len(x2) /\ \A j \in 1 .. h : Hashed(f2, x2, j)
    <3>1. Len(x2) = b /\ EndOf(Segment, Index, b) <= segPos
      BY <2>7, <2>9, <2>14 DEF b
    <3>2. \A j \in 1 .. b : /\ j \in 1 .. nextId /\ j <= b
                            /\ EndOf(Segment, Index, j) <= a
      <4> TAKE j \in 1 .. b
      <4>1. j \in 1 .. nextId /\ j <= b /\ j \in 0 .. nextId
        BY SMTT(30), <2>2, <2>8
      <4>2. EndOf(Segment, Index, j) <= EndOf(Segment, Index, b)
        BY <4>1, <2>2, <2>8 DEF Layout
      <4>3. /\ EndOf(Segment, Index, j) \in Nat
            /\ EndOf(Segment, Index, b) \in Nat
        BY <4>1, <2>2, <2>8
      <4> QED
        BY <4>1, <4>2, <4>3, <3>1, <2>2, <2>8
    <3>3. h = b
      <4>1. b = 0 \/ b \in 1 .. b
        BY <2>8
      <4>2. b <= h
        BY <4>1, <3>2, <2>8, <2>13
      <4> QED
        BY <4>2, <2>8, <2>13
    <3>4. Ordinary
      <4>1. outgrew => outgrew'
        BY DEF Kill
      <4> QED
        BY <4>1, <2>14, <1>1 DEF Ordinary
    <3>5. \A j \in 1 .. nextId : Hashed(Segment, Index, j)
      BY <3>4, <2>1, <1>6 DEF Writing
    <3> QED
      BY <3>1, <3>2, <3>3, <3>5, <2>13 DEF Hashed
  <2>15. Disk(h)'
    <3>1. Mapped(reader', Len(f2), f2, x2, h)
      BY <1>1 DEF Mapped
    <3> QED
      BY <3>1, <2>3, <2>9, <2>13, <2>14, <1>1 DEF Disk
  <2>16. seg' # << >> /\ seg'[1] = Magic
    <3>3. Len(seg') \in Nat /\ segPos >= 1 /\ segPos \in Nat /\ a \in Nat
          /\ segPos <= a /\ a <= Len(seg')
      BY <2>2, <2>3, <2>5, <2>8
    <3>1. 1 \in 1 .. a /\ Len(seg') # 0 /\ 1 \in 1 .. segPos
      BY <3>3
    <3>2. Segment[1] = seg[1]
      BY <3>1, <2>1, <1>2, <1>6, Images
    <3> QED
      BY <3>1, <3>2, <2>3, <2>5
  <2>17. seg' \in Seq(Cell) /\ idx' \in Seq(Entry) /\ hdr' = "good"
    BY <2>3, <2>5, <2>7, <1>1
  <2> QED
    BY <2>15, <2>16, <2>17, <1>1, <1>2, <1>3, <1>4, GoneStep
<1> QED
  BY <1>3, <1>5, <1>6

\* What power loss leaves of a file.
LEMMA SurvivesIs ==
  ASSUME NEW S, NEW f \in Seq(S), NEW dur \in Nat, NEW z \in S,
         NEW w \in Survives(f, dur, z)
  PROVE  \E n \in dur .. Len(f) :
           /\ w \in Seq(S) /\ n <= Len(w) /\ Len(w) <= Len(f)
           /\ \A i \in 1 .. n : w[i] = f[i]
           /\ \A i \in n + 1 .. Len(w) : w[i] = z
<1>1. PICK n \in dur .. Len(f) : \/ w = SubSeq(f, 1, n)
                                 \/ w = SubSeq(f, 1, n) \o Fill(Len(f) - n, z)
  BY DEF Survives
<1>2. n \in Nat /\ n \in 0 .. Len(f) /\ Len(f) \in Nat /\ n <= Len(f)
  OBVIOUS
<1> DEFINE u == SubSeq(f, 1, n)
           v == Fill(Len(f) - n, z)
<1>3. u \in Seq(S) /\ Len(u) = n /\ \A i \in 1 .. n : u[i] = f[i]
  BY <1>2
<1>4. CASE w = u
  <2> HIDE DEF u
  <2>1. \A i \in n + 1 .. Len(w) : FALSE
    BY <1>2, <1>3, <1>4
  <2> QED
    BY <2>1, <1>2, <1>3, <1>4
<1>5. CASE w = u \o v
  <2>5. PICK k \in Nat : k = Len(f) - n
    BY <1>2
  <2>6. Fill(k, z) \in Seq(S) /\ Len(Fill(k, z)) = k
        /\ \A i \in 1 .. k : Fill(k, z)[i] = z
    BY FillIs
  <2>1. v \in Seq(S) /\ Len(v) = Len(f) - n /\ Len(f) - n \in Nat
        /\ \A i \in 1 .. Len(f) - n : v[i] = z
    BY <2>5, <2>6
  <2> HIDE DEF v
  <2>2. /\ w \in Seq(S) /\ Len(w) = n + Len(v)
        /\ \A i \in 1 .. n : w[i] = f[i]
        /\ \A i \in 1 .. Len(v) : w[n + i] = v[i]
    BY SMTT(30), <2>1, <1>2, <1>5, ImageIs
  <2> HIDE DEF u
  <2>3. Len(w) = Len(f)
    BY <2>1, <2>2, <1>2
  <2>4. \A i \in n + 1 .. Len(w) : w[i] = z
    <3> TAKE i \in n + 1 .. Len(w)
    <3>1. i - n \in 1 .. Len(v) /\ n + (i - n) = i
          /\ i - n \in 1 .. Len(f) - n
      BY <2>1, <2>3, <1>2
    <3> QED
      BY <3>1, <2>1, <2>2
  <2>7. n <= Len(w) /\ Len(w) <= Len(f)
    BY <2>3, <1>2
  <2> QED
    BY <2>2, <2>4, <2>7, <1>2
<1> QED
  BY <1>1, <1>4, <1>5

\* Power loss preserves the invariant: the promise shrinks to what was synced.
LEMMA PowerStep ==
  ASSUME StoreInv, PowerLoss
  PROVE  StoreInv'
<1>1. /\ UNCHANGED <<segDur, idxDur, log, kills, fails, outgrew>>
      /\ pc # "refused" /\ ProcessGone /\ powers' = powers + 1
      /\ seg' \in Survives(seg, segDur, Zero)
      /\ \/ /\ idx' \in Survives(idx, idxDur, ZeroEntry)
            /\ hdr' = hdr
         \/ /\ segDur = 0
            /\ \/ hdr' = "absent" /\ idx' = << >>
               \/ hdr' = "zeroed" /\ idx' = Fill(Len(idx), ZeroEntry)
      /\ promised' = IF promised < idxDur THEN promised ELSE idxDur
  BY DEF PowerLoss
<1>2. TypeOK
  BY DEF StoreInv
<1>3. /\ seg \in Seq(Cell) /\ idx \in Seq(Entry) /\ Len(seg) \in Nat
      /\ Len(idx) \in Nat /\ segDur \in Nat /\ idxDur \in Nat
      /\ promised \in Nat /\ powers \in Nat /\ kills \in Nat
      /\ hdr \in {"absent", "good", "zeroed"}
  BY SMTT(30), <1>2 DEF TypeOK
<1>4. /\ Zero \in Cell /\ ZeroEntry \in Entry /\ ZeroEntry.chain = BadChain
  BY DEF Cell, Entry, ZeroEntry
<1>5. /\ promised' \in Nat /\ promised' <= promised /\ promised' <= idxDur
      /\ powers' \in Nat /\ kills' \in Nat
  BY <1>1, <1>3
<1>6. ~Ordinary'
  BY <1>1, <1>3 DEF Ordinary
<1>7. PICK f \in Seq(Cell), x \in Seq(Entry), g \in Nat, p \in Nat, b0 \in Nat :
        /\ Layout(f, x, g) /\ Beyond(f, x, g) /\ promised <= g /\ idxDur <= g
        /\ promised <= Len(log)
        /\ \A n \in 1 .. promised : Bytes(f, x, n) = log[n]
        /\ Synced(f, x, idxDur, segDur)
        /\ p <= Len(f) /\ p <= Len(seg) /\ b0 <= Len(x) /\ b0 <= Len(idx)
        /\ \A i \in 1 .. p : f[i] = seg[i]
        /\ \A i \in p + 1 .. Len(seg) : seg[i] = Zero
        /\ \A m \in 1 .. b0 : x[m] = idx[m]
        /\ \A m \in b0 + 1 .. Len(idx) : idx[m].chain = BadChain
        /\ idxDur <= b0 /\ (idxDur > 0 => EndOf(f, x, idxDur) <= p)
        /\ Len(seg) <= Len(f) \/ g = Len(x)
        /\ promised > 0 => hdr = "good" /\ seg[1] = Magic
  <2>1. CASE Running
    <3>1. Writing
      BY DEF StoreInv
    <3>2. /\ Segment \in Seq(Cell) /\ Index \in Seq(Entry) /\ nextId \in Nat
          /\ Layout(Segment, Index, nextId) /\ segPos \in Nat /\ idxPos \in Nat
          /\ Len(Index) = nextId /\ Len(Segment) = segPos + Len(segBuf)
          /\ Len(segBuf) \in Nat /\ segPos \in 0 .. Len(seg)
          /\ idxPos \in 0 .. Len(idx) /\ idxPos \in 0 .. nextId
          /\ \A i \in 1 .. segPos : Segment[i] = seg[i]
          /\ \A n \in 1 .. idxPos : Index[n] = idx[n]
      BY <3>1, <2>1, <1>2, Images
    <3>3. /\ promised \in 0 .. nextId /\ idxDur \in 0 .. nextId
          /\ idxDur <= idxPos
          /\ EndOf(Segment, Index, idxDur) <= segPos
          /\ Synced(Segment, Index, idxDur, segDur)
          /\ seg[1] = Magic /\ hdr = "good" /\ promised <= Len(log)
          /\ \A n \in 1 .. promised : Bytes(Segment, Index, n) = log[n]
          /\ Beyond(Segment, Index, nextId)
      BY <3>1, <2>1, <1>2, Written
    <3>4. /\ \A i \in segPos + 1 .. Len(seg) : seg[i] = Zero
          /\ \A m \in idxPos + 1 .. Len(idx) : idx[m].chain = BadChain
      BY <3>1, <2>1, <1>4 DEF Writing
    <3>5. segPos <= Len(Segment) /\ segPos <= Len(seg) /\ idxPos <= Len(Index)
          /\ idxPos <= Len(idx) /\ promised <= nextId /\ idxDur <= nextId
      BY <3>2, <3>3
    <3> QED
      BY <3>2, <3>3, <3>4, <3>5
  <2>2. CASE ~Running
    <3>1. PICK g \in Nat : Disk(g)
      BY <2>2, <1>1, <1>2 DEF StoreInv, TypeOK, Down, Recovering, Running
    <3>2. promised > 0 => hdr = "good" /\ seg[1] = Magic
      BY <2>2, <1>2 DEF StoreInv, TypeOK, Down, Recovering, Running
    <3>3. /\ Layout(seg, idx, g) /\ Beyond(seg, idx, g) /\ promised <= g
          /\ idxDur <= g /\ promised <= Len(log)
          /\ \A n \in 1 .. promised : Bytes(seg, idx, n) = log[n]
          /\ Synced(seg, idx, idxDur, segDur)
      BY <3>1 DEF Disk
    <3>4. /\ \A i \in Len(seg) + 1 .. Len(seg) : seg[i] = Zero
          /\ \A m \in Len(idx) + 1 .. Len(idx) : idx[m].chain = BadChain
          /\ Len(seg) <= Len(seg) /\ Len(idx) <= Len(idx)
      BY <1>3
    <3>5. g <= Len(idx) /\ idxDur <= Len(idx)
      <4>1. g <= Len(idx)
        BY <3>3, <1>3, Measured
      <4> QED
        BY <4>1, <3>1, <3>3, <1>3
    <3>6. idxDur > 0 => EndOf(seg, idx, idxDur) <= Len(seg)
      <4>1. idxDur > 0 => idxDur \in 1 .. g
        BY <3>3, <1>3
      <4> QED
        BY <4>1, <3>3, <1>3, Measured
    <3> QED
      BY <3>2, <3>3, <3>4, <3>5, <3>6, <1>3
  <2> QED
    BY <2>1, <2>2
<1>8. PICK n \in segDur .. Len(seg) :
        /\ seg' \in Seq(Cell) /\ n <= Len(seg') /\ Len(seg') <= Len(seg)
        /\ \A i \in 1 .. n : seg'[i] = seg[i]
        /\ \A i \in n + 1 .. Len(seg') : seg'[i] = Zero
  BY SMTT(30), <1>1, <1>3, <1>4, SurvivesIs
<1>9. /\ promised \in 0 .. g /\ idxDur \in 0 .. g /\ promised' \in 0 .. g
      /\ \A k \in 0 .. g : EndOf(f, x, k) \in Nat /\ EndOf(f, x, k) >= 1
  <2>1. promised \in 0 .. g /\ idxDur \in 0 .. g /\ promised' \in 0 .. g
    BY <1>3, <1>5, <1>7
  <2> QED
    BY <2>1, <1>7, Measured
<1>10. /\ idxDur > 0 => EndOf(f, x, idxDur) <= segDur
       /\ segDur = 0 => idxDur = 0
  BY SMTT(30), <1>3, <1>7, <1>9 DEF Synced
<1>11. PICK c \in idxDur .. Len(idx) :
         /\ idx' \in Seq(Entry) /\ c <= Len(idx')
         /\ \A m \in 1 .. c : idx'[m] = idx[m]
         /\ \A m \in c + 1 .. Len(idx') : idx'[m].chain = BadChain
         /\ hdr' = hdr \/ idxDur = 0
         /\ hdr' \in {"absent", "good", "zeroed"}
  <2>1. CASE idx' \in Survives(idx, idxDur, ZeroEntry) /\ hdr' = hdr
    <3>2. idx \in Seq(Entry) /\ idxDur \in Nat /\ ZeroEntry \in Entry
          /\ idx' \in Survives(idx, idxDur, ZeroEntry)
      BY <2>1, <1>3, <1>4
    <3>1. \E k \in idxDur .. Len(idx) :
            /\ idx' \in Seq(Entry) /\ k <= Len(idx') /\ Len(idx') <= Len(idx)
            /\ \A m \in 1 .. k : idx'[m] = idx[m]
            /\ \A m \in k + 1 .. Len(idx') : idx'[m] = ZeroEntry
      BY <3>2, SurvivesIs
    <3> QED
      BY <3>1, <2>1, <1>3, <1>4
  <2>2. CASE /\ segDur = 0
             /\ \/ hdr' = "absent" /\ idx' = << >>
                \/ hdr' = "zeroed" /\ idx' = Fill(Len(idx), ZeroEntry)
    <3>1. idxDur = 0 /\ 0 \in idxDur .. Len(idx)
      BY <2>2, <1>3, <1>10
    <3>2. /\ << >> \in Seq(Entry) /\ Len(<< >>) = 0
          /\ Fill(Len(idx), ZeroEntry) \in Seq(Entry)
          /\ Len(Fill(Len(idx), ZeroEntry)) = Len(idx)
          /\ \A m \in 1 .. Len(idx) : Fill(Len(idx), ZeroEntry)[m] = ZeroEntry
      BY <1>3, <1>4, FillIs
    <3>3. /\ idx' \in Seq(Entry) /\ Len(idx') \in Nat
          /\ \A m \in 0 + 1 .. Len(idx') : idx'[m] = ZeroEntry
      <4>1. CASE idx' = << >>
        BY <4>1, <3>2
      <4>2. CASE idx' = Fill(Len(idx), ZeroEntry)
        BY <4>2, <3>2, <1>3
      <4> QED
        BY <4>1, <4>2, <2>2
    <3>4. /\ 0 <= Len(idx') /\ hdr' \in {"absent", "good", "zeroed"}
          /\ \A m \in 1 .. 0 : idx'[m] = idx[m]
      BY <3>3, <2>2
    <3> QED
      BY <3>1, <3>3, <3>4, <1>4
  <2> QED
    BY <2>1, <2>2, <1>1
<1> DEFINE a == IF n <= p THEN n ELSE p
           b == IF c <= b0 THEN c ELSE b0
<1>12. /\ a \in Nat /\ b \in Nat /\ a <= n /\ a <= p /\ b <= c /\ b <= b0
       /\ n \in Nat /\ c \in Nat /\ (a = n \/ a = p) /\ (b = c \/ b = b0)
       /\ a \in 0 .. Len(f) /\ b \in 0 .. Len(x)
  <2>1. n \in Nat /\ c \in Nat /\ p \in Nat /\ b0 \in Nat /\ p <= Len(f)
        /\ b0 <= Len(x) /\ Len(f) \in Nat /\ Len(x) \in Nat
    BY <1>3, <1>7
  <2> QED
    BY <2>1
<1>13. PICK f2, x2 : f2 = seg' /\ x2 = idx'
  OBVIOUS
<1> HIDE DEF a, b
<1>14. CutAt(f, x, g, f2, x2, a, b)
  <2>1. f2 \in Seq(Cell) /\ Len(f2) \in Nat /\ Len(f2) <= Len(seg)
        /\ n <= Len(f2) /\ x2 \in Seq(Entry) /\ Len(x2) \in Nat /\ c <= Len(x2)
        /\ Len(f) \in Nat
    BY <1>8, <1>11, <1>13
  <2>2. a <= Len(f2) /\ b <= Len(x2)
    BY <2>1, <1>12
  <2>3. \A i \in 1 .. a : f2[i] = f[i]
    <3>1. \A i \in 1 .. a : i \in 1 .. n /\ i \in 1 .. p
      BY <1>7, <1>12
    <3> QED
      BY <3>1, <1>7, <1>8, <1>13
  <2>4. \A i \in a + 1 .. Len(f2) : f2[i] = Zero
    <3> TAKE i \in a + 1 .. Len(f2)
    <3>1. CASE i <= n
      <4>1. i \in 1 .. n /\ i \in p + 1 .. Len(seg)
        BY SMTT(30), <3>1, <2>1, <1>3, <1>7, <1>12
      <4> QED
        BY <4>1, <1>7, <1>8, <1>13
    <3>2. CASE ~(i <= n)
      <4>1. i \in n + 1 .. Len(seg')
        BY <3>2, <2>1, <1>12, <1>13
      <4> QED
        BY <4>1, <1>8, <1>13
    <3> QED
      BY <3>1, <3>2
  <2>5. \A m \in 1 .. b : x2[m] = x[m]
    <3>1. \A m \in 1 .. b : m \in 1 .. c /\ m \in 1 .. b0
      BY <1>7, <1>12
    <3> QED
      BY <3>1, <1>7, <1>11, <1>13
  <2>6. \A m \in b + 1 .. Len(x2) : x2[m].chain = BadChain
    <3> TAKE m \in b + 1 .. Len(x2)
    <3>1. CASE m <= c
      <4>1. m \in 1 .. c /\ m \in b0 + 1 .. Len(idx)
        BY SMTT(30), <3>1, <2>1, <1>3, <1>7, <1>12
      <4> QED
        BY <4>1, <1>7, <1>11, <1>13
    <3>2. CASE ~(m <= c)
      <4>1. m \in c + 1 .. Len(idx')
        BY <3>2, <2>1, <1>12, <1>13
      <4> QED
        BY <4>1, <1>11, <1>13
    <3> QED
      BY <3>1, <3>2
  <2>7. Len(f2) <= Len(f) \/ g = Len(x)
    BY <2>1, <1>3, <1>7
  <2> QED
    BY <2>2, <2>3, <2>4, <2>5, <2>6, <2>7, <1>12 DEF CutAt
<1>15. Outlives(f, x, a, b, promised', idxDur, segDur, log)
  <2>1. idxDur <= b
    BY <1>3, <1>7, <1>11, <1>12
  <2>2. idxDur > 0 => EndOf(f, x, idxDur) <= a
    <3> SUFFICES ASSUME idxDur > 0 PROVE EndOf(f, x, idxDur) <= a
      OBVIOUS
    <3>1. EndOf(f, x, idxDur) <= segDur /\ EndOf(f, x, idxDur) <= p
          /\ segDur <= n /\ EndOf(f, x, idxDur) \in Nat
      BY SMTT(30), <1>7, <1>8, <1>9, <1>10
    <3> QED
      BY <3>1, <1>3, <1>12
  <2>3. promised' > 0 => EndOf(f, x, promised') <= a
    <3> SUFFICES ASSUME promised' > 0 PROVE EndOf(f, x, promised') <= a
      OBVIOUS
    <3>0. /\ promised' \in 0 .. g /\ idxDur \in 0 .. g
          /\ promised' <= idxDur /\ idxDur > 0
      BY <1>3, <1>5, <1>9
    <3>1. EndOf(f, x, promised') <= EndOf(f, x, idxDur)
      <4>1. \A i, j \in 0 .. g : i <= j => EndOf(f, x, i) <= EndOf(f, x, j)
        BY <1>7 DEF Layout
      <4> QED
        BY <3>0, <4>1
    <3>2. EndOf(f, x, promised') \in Nat /\ EndOf(f, x, idxDur) \in Nat
      BY <1>9
    <3> QED
      BY <3>0, <3>1, <3>2, <2>2, <1>12
  <2>4. promised' <= b
    BY <2>1, <1>3, <1>5, <1>12
  <2>5. \A k \in 1 .. promised' : Bytes(f, x, k) = log[k]
    <3>1. \A k \in 1 .. promised' : k \in 1 .. promised
      BY <1>3, <1>5
    <3> QED
      BY <3>1, <1>7
  <2> QED
    BY <2>1, <2>2, <2>3, <2>4, <2>5, <1>7 DEF Outlives
<1>16. PICK q : q = promised'
  OBVIOUS
<1>17. f2 \in Seq(Cell) /\ x2 \in Seq(Entry)
       /\ Outlives(f, x, a, b, q, idxDur, segDur, log)
       /\ q \in 0 .. g /\ idxDur \in 0 .. g
  BY <1>8, <1>9, <1>11, <1>13, <1>15, <1>16
<1>18. PICK h \in Nat :
         /\ h <= b /\ Layout(f2, x2, h) /\ Beyond(f2, x2, h)
         /\ q <= h /\ idxDur <= h /\ Synced(f2, x2, idxDur, segDur)
         /\ \A k \in 1 .. q : Bytes(f2, x2, k) = log[k]
         /\ \A k \in 1 .. g : k <= b /\ EndOf(f, x, k) <= a =>
              /\ k <= h /\ Bytes(f2, x2, k) = Bytes(f, x, k)
              /\ Mark(f2, x2, k) = Mark(f, x, k)
  <2>1. Layout(f, x, g) /\ Beyond(f, x, g)
    BY <1>7
  <2>2. \E h \in Nat :
          Kept(f, x, g, f2, x2, a, b, q, idxDur, segDur, log, h)
    BY <2>1, <1>14, <1>17, Survivors
  <2> QED
    BY <2>2 DEF Kept
<1>19. Disk(h)'
  <2>1. q <= Len(log)
    <3>1. Len(log) \in Nat
      BY <1>2 DEF TypeOK
    <3> QED
      BY SMTT(30), <3>1, <1>3, <1>5, <1>7, <1>16
  <2> QED
    BY <2>1, <1>1, <1>6, <1>13, <1>16, <1>18 DEF Disk
<1>20. ASSUME promised' > 0
       PROVE  hdr' = "good" /\ seg' # << >> /\ seg'[1] = Magic
  <2>1. promised > 0 /\ idxDur > 0
    BY <1>3, <1>5, <1>20
  <2>2. hdr' = "good" /\ seg[1] = Magic
    BY <2>1, <1>7, <1>11
  <2>3. EndOf(f, x, idxDur) <= segDur /\ EndOf(f, x, idxDur) >= 1
        /\ EndOf(f, x, idxDur) \in Nat /\ segDur <= n
    BY <2>1, <1>8, <1>9, <1>10
  <2>4. 1 \in 1 .. n /\ n <= Len(seg') /\ Len(seg') \in Nat
    BY <2>3, <1>3, <1>8, <1>12
  <2>5. Len(seg') # 0
    BY <2>4, <1>12
  <2> QED
    BY <2>2, <2>4, <2>5, <1>8
<1>21. seg' \in Seq(Cell) /\ idx' \in Seq(Entry)
       /\ hdr' \in {"absent", "good", "zeroed"}
  BY <1>8, <1>11
<1> QED
  BY <1>1, <1>2, <1>5, <1>19, <1>20, <1>21, GoneStep
-----------------------------------------------------------------------------
(* The theorems.                                                           *)

\* The store that does not exist yet satisfies the invariant.
LEMMA StoreInit ==
  ASSUME Init
  PROVE  StoreInv
<1>1. /\ seg = << >> /\ idx = << >> /\ hdr = "absent" /\ segDur = 0
      /\ idxDur = 0 /\ pc = "down" /\ segBuf = << >> /\ idxBuf = << >>
      /\ segPos = 0 /\ idxPos = 0 /\ nextId = 0 /\ segLen = 0 /\ head = << >>
      /\ indexed = 0 /\ inBatch = 0 /\ failed = FALSE
      /\ reader = [at |-> "none", idx |-> 0, seg |-> 0, count |-> 0]
      /\ log = << >> /\ promised = 0 /\ kills = 0 /\ powers = 0 /\ fails = 0
  BY DEF Init, Genesis
<1>2. /\ << >> \in Seq(Cell) /\ << >> \in Seq(Entry) /\ << >> \in Seq(Payloads)
      /\ << >> \in Seq(Seq(Cell)) /\ 0 \in Nat /\ Len(<< >>) = 0
  OBVIOUS
<1>3. reader \in [at : {"none", "idx", "seg", "ready"}, idx : Nat, seg : Nat,
                  count : Nat]
  BY <1>1
<1>4. TypeOK
  BY <1>1, <1>2, <1>3 DEF TypeOK
<1>5. Layout(seg, idx, 0)
  <2>1. EndOf(seg, idx, 0) = 1
    BY DEF EndOf
  <2>2. 0 \in 0 .. Len(idx) /\ \A n \in 1 .. 0 : FALSE
    BY <1>1, <1>2
  <2>3. \A m \in 0 .. 0 : m = 0
    OBVIOUS
  <2> QED
    BY <2>1, <2>2, <2>3 DEF Layout
<1>6. Beyond(seg, idx, 0)
  BY <1>1, <1>2 DEF Beyond
<1>7. Disk(0)
  <2>1. Synced(seg, idx, idxDur, segDur)
    BY <1>1 DEF Synced
  <2>2. Mapped(reader, Len(seg), seg, idx, 0)
    BY <1>1 DEF Mapped
  <2>3. \A n \in 1 .. 0 : FALSE
    OBVIOUS
  <2> QED
    BY <2>1, <2>2, <2>3, <1>1, <1>2, <1>5, <1>6 DEF Disk
<1>8. Down
  BY <1>1, <1>2, <1>7 DEF Down
<1>9. Recovering /\ Writing
  BY <1>1 DEF Recovering, Writing, Running
<1> QED
  BY <1>4, <1>8, <1>9 DEF StoreInv

\* Every step preserves the invariant.
LEMMA StoreStep ==
  ASSUME StopAtFailure, StoreInv, [Next]_vars
  PROVE  StoreInv'
<1>1. CASE Open
  BY <1>1, OpenStep
<1>2. CASE OpenRefused
  BY <1>2, RefusedStep
<1>3. CASE Reindex
  BY <1>3, ReindexStep
<1>4. CASE ReindexDone
  BY <1>4, ReindexDoneStep
<1>5. CASE ZeroIdx
  BY <1>5, ZeroIdxStep
<1>6. CASE ZeroSeg
  BY <1>6, ZeroSegStep
<1>7. CASE \E p \in Payloads : DoAppend(p)
  BY <1>7, AppendStep
<1>8. CASE \E p \in Payloads : AppendFails(p)
  BY <1>8, FailStep
<1>9. CASE FlushSeg
  BY <1>9, FlushSegStep
<1>10. CASE FlushIdx
  BY <1>10, FlushIdxStep
<1>11. CASE Close
  BY <1>11, CloseStep
<1>12. CASE Kill
  BY <1>12, KillStep
<1>13. CASE PowerLoss
  BY <1>13, PowerStep
<1>14. CASE ReaderMapIdx \/ ReaderMapSeg \/ ReaderCount \/ ReaderClose
  BY <1>14, ReaderStep
<1>15. CASE UNCHANGED vars
  <2>1. UNCHANGED <<seg, idx, hdr, segDur, idxDur, pc, segBuf, idxBuf, segPos,
                    idxPos, nextId, segLen, head, indexed, inBatch, failed,
                    reader, log, promised, kills, powers, fails, outgrew>>
    BY <1>15 DEF vars, fileVars, writerVars, boundVars
  <2>2. Segment' = Segment /\ Index' = Index /\ Ordinary' = Ordinary
        /\ Running' = Running
    BY <2>1 DEF Segment, Index, Ordinary, Running
  <2>3. TypeOK'
    BY <2>1 DEF StoreInv, TypeOK
  <2>4. ASSUME NEW g, Disk(g) PROVE Disk(g)'
    BY <2>1, <2>2, <2>4 DEF Disk
  <2>5. Down'
    BY <2>1, <2>4 DEF StoreInv, Down
  <2>6. Recovering'
    <3> SUFFICES ASSUME pc \in {"reindex", "zeroIdx", "zeroSeg"}
                 PROVE  Recovering'
      BY <2>1 DEF Recovering
    <3>1. PICK g : g = nextId
      OBVIOUS
    <3>2. Disk(g)'
      BY <3>1, <2>4 DEF StoreInv, Recovering
    <3>3. Disk(nextId)'
      BY <3>1, <3>2, <2>1 DEF Disk
    <3> QED
      BY <3>3, <2>1 DEF StoreInv, Recovering
  <2>7. Writing'
    BY <2>1, <2>2 DEF StoreInv, Writing
  <2> QED
    BY <2>3, <2>5, <2>6, <2>7 DEF StoreInv
<1> QED
  BY <1>1, <1>2, <1>3, <1>4, <1>5, <1>6, <1>7, <1>8, <1>9, <1>10, <1>11,
     <1>12, <1>13, <1>14, <1>15 DEF Next

\* StoreInv is invariant: in every reachable state, down, recovering or
\* writing, the files and buffers describe one sequence of linked records that
\* holds the promised and the synced ones (store.rs, as a whole).  The
\* hypothesis is the discipline of `run`: no append after a failed one.
THEOREM StoreInvariant ==
  ASSUME StopAtFailure
  PROVE  Spec => []StoreInv
<1>1. Init => StoreInv
  BY StoreInit
<1>2. StoreInv /\ [Next]_vars => StoreInv'
  BY StoreStep
<1> QED
  BY <1>1, <1>2, PTL DEF Spec

\* The promised records are whole in the files themselves, with their bytes,
\* below everything that recovery and the writer still write.
LEMMA Held ==
  ASSUME StoreInv
  PROVE  /\ Layout(seg, idx, promised) /\ promised \in Nat
         /\ \A n \in 1 .. promised :
              promised <= Len(log) /\ Bytes(seg, idx, n) = log[n]
         /\ Running =>
              /\ EndOf(seg, idx, promised) <= segPos /\ promised <= idxPos
              /\ promised <= nextId
         /\ pc \in {"reindex", "zeroIdx", "zeroSeg"} =>
              EndOf(seg, idx, promised) <= segLen /\ promised <= nextId
<1>1. TypeOK
  BY DEF StoreInv
<1>2. seg \in Seq(Cell) /\ idx \in Seq(Entry) /\ promised \in Nat
  BY <1>1 DEF TypeOK
<1>3. CASE Running
  <2>1. Writing
    BY DEF StoreInv
  <2>2. /\ Segment \in Seq(Cell) /\ Index \in Seq(Entry)
        /\ Layout(Segment, Index, nextId) /\ nextId \in Nat
        /\ segPos \in Nat /\ segPos \in 0 .. Len(seg)
        /\ idxPos \in 0 .. Len(idx)
        /\ Len(Segment) = segPos + Len(segBuf) /\ Len(segBuf) \in Nat
        /\ \A i \in 1 .. segPos : Segment[i] = seg[i]
        /\ \A n \in 1 .. idxPos : Index[n] = idx[n]
    BY <2>1, <1>1, <1>3, Images
  <2>3. /\ promised \in 0 .. nextId /\ promised <= idxPos
        /\ EndOf(Segment, Index, promised) <= segPos /\ promised <= Len(log)
        /\ \A n \in 1 .. promised : Bytes(Segment, Index, n) = log[n]
    BY <2>1, <1>1, <1>3, Written
  <2>4. AgreeTo(Segment, Index, seg, idx, promised, segPos)
    <3>1. promised <= Len(idx) /\ segPos <= Len(Segment) /\ segPos <= Len(seg)
      BY <2>2, <2>3
    <3>2. \A n \in 1 .. promised : n \in 1 .. idxPos
      BY <2>2, <2>3
    <3> QED
      BY <3>1, <3>2, <2>2, <2>3 DEF AgreeTo
  <2>5. /\ Layout(seg, idx, promised)
        /\ \A n \in 0 .. promised :
             EndOf(seg, idx, n) = EndOf(Segment, Index, n)
        /\ \A n \in 1 .. promised :
             /\ Bytes(seg, idx, n) = Bytes(Segment, Index, n)
             /\ Mark(seg, idx, n) = Mark(Segment, Index, n)
    BY SMTT(30), <2>2, <2>3, <2>4, <1>2, SameBelow
  <2>6. EndOf(seg, idx, promised) <= segPos
    <3>1. promised \in 0 .. promised
      BY <1>2
    <3> QED
      BY <3>1, <2>3, <2>5
  <2>7. promised <= nextId /\ pc \notin {"reindex", "zeroIdx", "zeroSeg"}
    BY <2>2, <2>3, <1>3 DEF Running
  <2> QED
    BY <2>3, <2>5, <2>6, <2>7, <1>2
<1>4. CASE ~Running
  <2>1. PICK g \in Nat : Disk(g)
         /\ (pc \in {"reindex", "zeroIdx", "zeroSeg"} => g = nextId)
    <3>1. CASE pc \in {"down", "refused"}
      BY <3>1 DEF StoreInv, Down
    <3>2. CASE pc \in {"reindex", "zeroIdx", "zeroSeg"}
      BY <3>2, <1>1 DEF StoreInv, Recovering, TypeOK
    <3> QED
      BY <3>1, <3>2, <1>1, <1>4 DEF TypeOK, Running
  <2>2. /\ Layout(seg, idx, g) /\ promised <= g /\ promised <= Len(log)
        /\ \A n \in 1 .. promised : Bytes(seg, idx, n) = log[n]
    BY <2>1 DEF Disk
  <2>3. promised \in 0 .. g /\ g \in 0 .. g /\ g <= Len(idx)
    BY <2>2, <1>2, Measured
  <2>4. Layout(seg, idx, promised)
    <3>1. promised \in 0 .. Len(idx)
      BY <2>3, <1>2
    <3>2. /\ \A n \in 1 .. promised : n \in 1 .. g
          /\ \A n \in 0 .. promised : n \in 0 .. g
      BY <2>1, <2>3
    <3> QED
      BY <3>1, <3>2, <2>2 DEF Layout
  <2>5. EndOf(seg, idx, promised) <= EndOf(seg, idx, g)
    BY <2>2, <2>3 DEF Layout
  <2>6. pc \in {"reindex", "zeroIdx", "zeroSeg"} => segLen = EndOf(seg, idx, g)
    BY <2>1 DEF StoreInv, Recovering
  <2> QED
    BY <2>1, <2>2, <2>4, <2>5, <2>6, <1>2, <1>4
<1> QED
  BY <1>3, <1>4

\* PromiseKept: an id that escaped reads back with its bytes, in every run of
\* the writer after any kills, interrupted recoveries and, for synced records,
\* power losses; and open refuses no store that holds one (append, flush,
\* recover, idx_header).
THEOREM StoreKeepsItsPromise ==
  ASSUME StopAtFailure
  PROVE  Spec => []PromiseKept
<1>1. StoreInv => PromiseKept
  <2> SUFFICES ASSUME StoreInv PROVE PromiseKept
    OBVIOUS
  <2>1. /\ Layout(seg, idx, promised) /\ promised \in Nat
        /\ \A n \in 1 .. promised : Bytes(seg, idx, n) = log[n]
        /\ Running => promised <= nextId
    BY Held
  <2>2. pc = "refused" => promised = 0
    BY DEF StoreInv, Down
  <2>3. ASSUME NEW n \in 1 .. promised PROVE ReadsBack(n)
    <3>1. idx \in Seq(Entry) /\ Len(idx) \in Nat /\ promised <= Len(idx)
      <4>1. seg \in Seq(Cell) /\ idx \in Seq(Entry)
        BY DEF StoreInv, TypeOK
      <4> QED
        BY <4>1, <2>1, Measured
    <3>2. n <= Len(idx)
      BY <3>1, <2>1
    <3>3. Whole(seg, idx, n)
      BY <2>1 DEF Layout
    <3>4. Complete(seg, idx[n].off, n - 1, FALSE)
      BY <3>3 DEF Whole, Starts, Complete
    <3>5. Content(n) = log[n]
      BY <2>1 DEF Content, Bytes
    <3> QED
      BY <3>2, <3>4, <3>5 DEF ReadsBack
  <2> QED
    BY <2>1, <2>2, <2>3 DEF PromiseKept
<1> QED
  BY <1>1, StoreInvariant, PTL

\* A hashed record of a layout passes RawReader::check.
LEMMA CleanIsChecked ==
  ASSUME NEW f, NEW g, Layout(f, idx, g), NEW n \in 1 .. g,
         Hashed(f, idx, n)
  PROVE  Checks(f, n)
<1>1. Whole(f, idx, n)
  BY DEF Layout
<1>2. Body(f, idx[n].off) = f[idx[n].off + 1].sum
  BY DEF Hashed, Bytes, Mark
<1>3. Complete(f, idx[n].off, n - 1, TRUE)
  BY <1>1, <1>2 DEF Whole, Starts, Complete
<1> QED
  BY <1>1, <1>3 DEF Whole, Checks

\* StoreIsClean: the state is well typed, and at the end of recover every
\* record passes RawReader::check, short of power loss and of batches larger
\* than the index's buffer (recover).
THEOREM RecoveryLeavesItClean ==
  ASSUME StopAtFailure
  PROVE  Spec => []StoreIsClean
<1>1. StoreInv => StoreIsClean
  <2> SUFFICES ASSUME StoreInv, pc = "zeroSeg", Ordinary
               PROVE  \A n \in 1 .. nextId : Checks(seg, n)
    BY DEF StoreIsClean, RecoveredClean, StoreInv
  <2>1. Disk(nextId)
    BY DEF StoreInv, Recovering
  <2>2. /\ Layout(seg, idx, nextId)
        /\ \A n \in 1 .. nextId : Hashed(seg, idx, n)
    BY <2>1 DEF Disk
  <2> QED
    BY <2>2, CleanIsChecked
<1> QED
  BY <1>1, StoreInvariant, PTL

\* What a reader has mapped is, in an ordinary run, a clean layout.
LEMMA ReaderView ==
  ASSUME StoreInv, Ordinary
  PROVE  \E g \in Nat : /\ Layout(seg, idx, g)
                        /\ \A n \in 1 .. g : Hashed(seg, idx, n)
                        /\ Mapped(reader, Len(seg), seg, idx, g)
<1>1. TypeOK
  BY DEF StoreInv
<1>2. seg \in Seq(Cell) /\ idx \in Seq(Entry)
  BY <1>1 DEF TypeOK
<1>3. CASE ~Running
  <2>1. PICK g \in Nat : Disk(g)
    <3>1. CASE pc \in {"down", "refused"}
      BY <3>1 DEF StoreInv, Down
    <3>2. CASE pc \in {"reindex", "zeroIdx", "zeroSeg"}
      BY <3>2, <1>1 DEF StoreInv, Recovering, TypeOK
    <3> QED
      BY <3>1, <3>2, <1>1, <1>3 DEF TypeOK, Running
  <2> QED
    BY <2>1 DEF Disk
<1>4. CASE Running
  <2>1. Writing
    BY DEF StoreInv
  <2>2. /\ Segment \in Seq(Cell) /\ Index \in Seq(Entry)
        /\ Layout(Segment, Index, nextId) /\ nextId \in Nat /\ Len(seg) \in Nat
        /\ segPos \in Nat /\ segPos \in 0 .. Len(seg)
        /\ idxPos \in 0 .. Len(idx)
        /\ Len(Segment) = segPos + Len(segBuf) /\ Len(segBuf) \in Nat
        /\ \A i \in 1 .. segPos : Segment[i] = seg[i]
        /\ \A n \in 1 .. idxPos : Index[n] = idx[n]
        /\ idxPos \in 0 .. nextId /\ idxPos \in Nat
    BY <2>1, <1>1, <1>4, Images
  <2>3. /\ EndOf(Segment, Index, idxPos) <= segPos
        /\ \A n \in 1 .. nextId : Hashed(Segment, Index, n)
        /\ Mapped(reader, Len(seg), Segment, Index, idxPos)
    BY <2>1, <1>4 DEF Writing
  <2>4. AgreeTo(Segment, Index, seg, idx, idxPos, segPos)
    <3>1. idxPos <= Len(idx) /\ segPos <= Len(Segment) /\ segPos <= Len(seg)
      BY <2>2
    <3> QED
      BY <3>1, <2>2, <2>3 DEF AgreeTo
  <2>5. /\ Layout(seg, idx, idxPos)
        /\ \A n \in 0 .. idxPos : EndOf(seg, idx, n) = EndOf(Segment, Index, n)
        /\ \A n \in 1 .. idxPos :
             /\ Bytes(seg, idx, n) = Bytes(Segment, Index, n)
             /\ Mark(seg, idx, n) = Mark(Segment, Index, n)
    BY <2>2, <2>4, <1>2, SameBelow
  <2>6. \A n \in 1 .. idxPos : Hashed(seg, idx, n)
    <3>1. \A n \in 1 .. idxPos : n \in 1 .. nextId
      BY <2>2
    <3> QED
      BY <3>1, <2>3, <2>5 DEF Hashed
  <2>7. Mapped(reader, Len(seg), seg, idx, idxPos)
    <3>1. reader.idx \in Nat /\ reader.seg \in Nat
      BY <1>1 DEF TypeOK
    <3>2. idxPos <= idxPos /\ Len(seg) <= Len(seg)
      BY <2>2
    <3> QED
      BY <3>1, <3>2, <2>2, <2>3, <2>5, MappedSame
  <2> QED
    BY <2>2, <2>5, <2>6, <2>7
<1> QED
  BY <1>3, <1>4

\* ReaderClean: a reader that opens the store beside a live writer finds every
\* record it counts whole, hashed and linked inside its mapping, because it
\* maps the index before the segment (RawReader::open, check).
THEOREM ReaderSeesACleanStore ==
  ASSUME StopAtFailure
  PROVE  Spec => []ReaderClean
<1>1. StoreInv => ReaderClean
  <2> SUFFICES ASSUME StoreInv, reader.at = "ready", Ordinary
               PROVE  \A n \in 1 .. reader.count :
                        Checks(SubSeq(seg, 1, reader.seg), n)
    BY DEF ReaderClean
  <2>1. PICK g \in Nat : /\ Layout(seg, idx, g)
                         /\ \A n \in 1 .. g : Hashed(seg, idx, n)
                         /\ Mapped(reader, Len(seg), seg, idx, g)
    BY ReaderView
  <2>2. /\ reader.idx \in Nat /\ reader.seg \in Nat /\ reader.count \in Nat
        /\ seg \in Seq(Cell) /\ idx \in Seq(Entry)
    BY DEF StoreInv, TypeOK
  <2>3. /\ reader.count <= reader.idx /\ reader.idx <= g
        /\ reader.seg <= Len(seg)
        /\ reader.idx > 0 => EndOf(seg, idx, reader.idx) <= reader.seg
    BY <2>1 DEF Mapped
  <2> DEFINE f == SubSeq(seg, 1, reader.seg)
             h == reader.count
  <2>4. /\ f \in Seq(Cell) /\ Len(f) = reader.seg
        /\ \A i \in 1 .. reader.seg : f[i] = seg[i]
    <3>1. reader.seg \in 0 .. Len(seg)
      BY <2>2, <2>3
    <3> QED
      BY <3>1, <2>2
  <2> HIDE DEF f
  <2>5. h \in 0 .. g /\ h <= Len(idx)
        /\ \A n \in 0 .. g : EndOf(seg, idx, n) \in Nat
    <3>1. g <= Len(idx) /\ \A n \in 0 .. g : EndOf(seg, idx, n) \in Nat
      BY <2>1, <2>2, Measured
    <3> QED
      BY <3>1, <2>1, <2>2, <2>3
  <2>6. h > 0 => EndOf(seg, idx, h) <= reader.seg
    <3> SUFFICES ASSUME h > 0 PROVE EndOf(seg, idx, h) <= reader.seg
      OBVIOUS
    <3>1. reader.idx > 0 /\ reader.idx \in 0 .. g /\ h <= reader.idx
      BY <2>2, <2>3
    <3>2. EndOf(seg, idx, h) <= EndOf(seg, idx, reader.idx)
      BY <3>1, <2>1, <2>5 DEF Layout
    <3> QED
      BY <3>1, <3>2, <2>2, <2>3, <2>5
  <2>7. AgreeTo(seg, idx, f, idx, h, reader.seg)
    BY <2>2, <2>3, <2>4, <2>5, <2>6 DEF AgreeTo
  <2>8. /\ Layout(f, idx, h)
        /\ \A n \in 1 .. h : /\ Bytes(f, idx, n) = Bytes(seg, idx, n)
                             /\ Mark(f, idx, n) = Mark(seg, idx, n)
    BY <2>1, <2>2, <2>4, <2>5, <2>7, SameBelow
  <2>9. \A n \in 1 .. h : Hashed(f, idx, n)
    <3>1. \A n \in 1 .. h : n \in 1 .. g
      BY <2>5
    <3> QED
      BY <3>1, <2>1, <2>8 DEF Hashed
  <2>10. \A n \in 1 .. h : Checks(f, n)
    BY <2>8, <2>9, CleanIsChecked
  <2> QED
    BY <2>10 DEF f
<1> QED
  BY <1>1, StoreInvariant, PTL

\* A write leaves what is below its cursor.
LEMMA BelowTheCursor ==
  ASSUME NEW f, NEW c, NEW at \in Nat, Len(f) \in Nat, Len(c) \in Nat
  PROVE  \A i \in 1 .. at : i <= Len(f) => WriteAt(f, at, c)[i] = f[i]
<1> TAKE i \in 1 .. at
<1> HAVE i <= Len(f)
<1> DEFINE L == IF Len(f) > at + Len(c) THEN Len(f) ELSE at + Len(c)
<1>1. i \in 1 .. L /\ ~(i > at)
  OBVIOUS
<1>2. WriteAt(f, at, c) = [j \in 1 .. L |->
        IF j > at /\ j <= at + Len(c) THEN c[j - at] ELSE f[j]]
  BY DEF WriteAt
<1> HIDE DEF L
<1> QED
  BY <1>1, <1>2

\* The step leaves the first e cells, and they hold the promised records.
Untouched(e) ==
  /\ EndOf(seg, idx, promised) <= e /\ e \in Nat
  /\ e <= Len(seg) /\ e <= Len(seg')
  /\ \A i \in 1 .. e : seg'[i] = seg[i]
  /\ \A n \in 1 .. promised : idx'[n] = idx[n]

\* No step but a crash touches a promised record or its entry.
LEMMA NothingTouched ==
  ASSUME StopAtFailure, StoreInv, [Next]_vars, kills' = kills,
         powers' = powers, promised > 0
  PROVE  \E e \in Nat : Untouched(e)
<1>1. TypeOK
  BY DEF StoreInv
<1>2. /\ seg \in Seq(Cell) /\ Len(seg) \in Nat /\ idx \in Seq(Entry)
      /\ Len(idx) \in Nat /\ promised \in Nat /\ segPos \in Nat
      /\ idxPos \in Nat /\ nextId \in Nat /\ segLen \in Nat
      /\ segBuf \in Seq(Cell) /\ Len(segBuf) \in Nat
      /\ Len(idxBuf) \in Nat /\ kills \in Nat /\ powers \in Nat
  BY SMTT(30), <1>1 DEF TypeOK
<1>3. /\ Layout(seg, idx, promised)
      /\ Running => /\ EndOf(seg, idx, promised) <= segPos
                    /\ promised <= idxPos
      /\ pc \in {"reindex", "zeroIdx", "zeroSeg"} =>
           EndOf(seg, idx, promised) <= segLen /\ promised <= nextId
  BY Held
<1>4. /\ promised <= Len(idx) /\ EndOf(seg, idx, promised) \in Nat
      /\ EndOf(seg, idx, promised) <= Len(seg)
  <2>1. promised \in 1 .. promised /\ promised \in 0 .. promised
    BY <1>2
  <2> QED
    BY <2>1, <1>2, <1>3, Measured
<1>5. ASSUME seg' = seg, \A n \in 1 .. promised : idx'[n] = idx[n]
      PROVE  \E e \in Nat : Untouched(e)
  <2>1. Untouched(Len(seg))
    BY <1>2, <1>4, <1>5 DEF Untouched
  <2> QED
    BY <2>1, <1>2
<1>6. ASSUME NEW at \in Nat, NEW c, Len(c) \in Nat,
             idx' = WriteAt(idx, at, c), promised <= at
      PROVE  \A n \in 1 .. promised : idx'[n] = idx[n]
  <2> TAKE n \in 1 .. promised
  <2>1. n \in 1 .. at /\ n <= Len(idx)
    BY <1>2, <1>4, <1>6
  <2> QED
    BY <2>1, <1>2, <1>6, BelowTheCursor
<1>7. ASSUME NEW c \in Seq(Cell), seg' = WriteAt(seg, segPos, c),
             segPos <= Len(seg), EndOf(seg, idx, promised) <= segPos,
             \A n \in 1 .. promised : idx'[n] = idx[n]
      PROVE  \E e \in Nat : Untouched(e)
  <2> DEFINE w == WriteAt(seg, segPos, c)
  <2>1. segPos \in 0 .. Len(seg) /\ Len(c) \in Nat
    BY <1>2, <1>7
  <2>2. /\ w \in Seq(Cell)
        /\ Len(w) = IF Len(seg) > segPos + Len(c) THEN Len(seg)
                    ELSE segPos + Len(c)
        /\ \A i \in 1 .. Len(w) :
             w[i] = IF i > segPos /\ i <= segPos + Len(c)
                    THEN c[i - segPos] ELSE seg[i]
    BY <2>1, <1>2, <1>7, WriteAtIs
  <2>3. seg' = w
    BY <1>7
  <2> HIDE DEF w
  <2>4. Len(w) \in Nat /\ segPos <= Len(w)
    BY <2>1, <2>2, <1>2
  <2>5. \A i \in 1 .. segPos : i \in 1 .. Len(w) /\ ~(i > segPos)
    BY <2>4, <1>2
  <2>6. \A i \in 1 .. segPos : w[i] = seg[i]
    BY <2>2, <2>5
  <2>7. Untouched(segPos)
    BY <2>3, <2>4, <2>6, <1>2, <1>7 DEF Untouched
  <2> QED
    BY <2>7, <1>2
<1>8. CASE Open
  <2>1. seg # << >>
    BY <1>8, <1>2 DEF StoreInv, Down, Open
  <2> QED
    BY <2>1, <1>5, <1>8 DEF Open
<1>9. CASE Reindex
  <2>1. PICK e : idx' = WriteAt(idx, nextId, <<e>>) /\ seg' = seg
    BY <1>9 DEF Reindex
  <2>2. promised <= nextId /\ Len(<<e>>) \in Nat
    BY <1>3, <1>9 DEF Reindex
  <2> QED
    BY <2>1, <2>2, <1>2, <1>5, <1>6
<1>10. CASE ZeroIdx
  <2>1. promised <= idxPos /\ seg' = seg
    <3>1. nextId <= idxPos
      BY <1>10 DEF StoreInv, Recovering, ZeroIdx
    <3> QED
      BY <3>1, <1>2, <1>3, <1>10 DEF ZeroIdx
  <2>2. CASE idx' = idx
    BY <2>1, <2>2, <1>5
  <2>3. CASE \E n \in Nat : idx' = WriteAt(idx, idxPos, Fill(n, ZeroEntry))
    <3>1. PICK n \in Nat : idx' = WriteAt(idx, idxPos, Fill(n, ZeroEntry))
      BY <2>3
    <3>2. Len(Fill(n, ZeroEntry)) = n
      <4>1. ZeroEntry \in Entry
        BY DEF ZeroEntry, Entry
      <4> QED
        BY <4>1, FillIs
    <3> QED
      BY <3>1, <3>2, <2>1, <1>2, <1>5, <1>6
  <2>4. \A n \in 1 .. indexed - idxPos : n \in Nat
    BY <1>1, <1>2 DEF TypeOK
  <2> QED
    BY <2>2, <2>3, <2>4, <1>10 DEF ZeroIdx
<1>11. CASE ZeroSeg
  <2>1. idx' = idx
    BY <1>11 DEF ZeroSeg
  <2>2. CASE seg' = seg
    BY <2>1, <2>2, <1>5
  <2>3. CASE \E n \in Nat : seg' = WriteAt(seg, segPos, Fill(n, Zero))
    <3>1. PICK n \in Nat : seg' = WriteAt(seg, segPos, Fill(n, Zero))
      BY <2>3
    <3>2. Fill(n, Zero) \in Seq(Cell)
      <4>1. Zero \in Cell
        BY DEF Cell
      <4> QED
        BY <4>1, FillIs
    <3>3. segLen <= segPos /\ segPos <= Len(seg)
      BY <1>11 DEF StoreInv, Recovering, ZeroSeg
    <3>4. EndOf(seg, idx, promised) <= segPos
      BY <3>3, <1>2, <1>3, <1>4, <1>11 DEF ZeroSeg
    <3> QED
      BY <3>1, <3>2, <3>3, <3>4, <2>1, <1>7
  <2>4. \A n \in 1 .. Len(seg) - segPos : n \in Nat
    BY <1>2
  <2> QED
    BY <2>2, <2>3, <2>4, <1>11 DEF ZeroSeg
<1>12. ASSUME Running
       PROVE  segPos <= Len(seg) /\ EndOf(seg, idx, promised) <= segPos
              /\ promised <= idxPos /\ Writing
  BY <1>3, <1>12 DEF StoreInv, Writing
<1>13. CASE \E p \in Payloads : DoAppend(p)
  <2>1. PICK p \in Payloads : DoAppend(p)
    BY <1>13
  <2>2. Running
    BY <2>1 DEF DoAppend, MayAppend, Running
  <2>3. PICK d \in 0 .. Len(segBuf) + 1 + Len(p) : Write(p, d)
    BY <2>1 DEF DoAppend
  <2>4. /\ seg' \in Seq(Cell) /\ segPos' \in Nat
        /\ segPos <= segPos' /\ segPos' <= Len(seg')
        /\ \A i \in 1 .. segPos : seg'[i] = seg[i]
    BY <2>2, <2>3, <1>1, <1>12, SegmentGrows
  <2>5. \A n \in 1 .. promised : idx'[n] = idx[n]
    <3>1. CASE idx' = idx
      BY <3>1
    <3>2. CASE idx' = WriteAt(idx, idxPos, idxBuf)
      BY <3>2, <2>2, <1>2, <1>6, <1>12
    <3> QED
      BY <3>1, <3>2, <2>1 DEF DoAppend
  <2>6. Untouched(segPos)
    <3>1. segPos <= Len(seg') /\ segPos <= Len(seg)
      <4>1. Len(seg') \in Nat
        BY <2>4
      <4> QED
        BY <4>1, <2>2, <2>4, <1>2, <1>12
    <3> QED
      BY <3>1, <2>2, <2>4, <2>5, <1>2, <1>12 DEF Untouched
  <2> QED
    BY <2>6, <1>2
<1>14. CASE FlushSeg
  <2>1. Running /\ idx' = idx /\ seg' = WriteAt(seg, segPos, segBuf)
    BY <1>14 DEF FlushSeg, Running
  <2> QED
    BY <2>1, <1>2, <1>7, <1>12
<1>15. CASE FlushIdx
  <2>1. Running /\ seg' = seg /\ idx' = WriteAt(idx, idxPos, idxBuf)
    BY <1>15 DEF FlushIdx, Running
  <2> QED
    BY <2>1, <1>2, <1>5, <1>6, <1>12
<1>16. CASE \/ OpenRefused \/ ReindexDone \/ \E p \in Payloads : AppendFails(p)
            \/ Close \/ ReaderMapIdx \/ ReaderMapSeg \/ ReaderCount
            \/ ReaderClose \/ UNCHANGED vars
  <2>1. seg' = seg /\ idx' = idx
    BY <1>16 DEF OpenRefused, ReindexDone, AppendFails, Close, ReaderMapIdx,
       ReaderMapSeg, ReaderCount, ReaderClose, vars, fileVars
  <2> QED
    BY <2>1, <1>5
<1>17. ~Kill /\ ~PowerLoss
  BY <1>2 DEF Kill, PowerLoss
<1> QED
  BY <1>8, <1>9, <1>10, <1>11, <1>13, <1>14, <1>15, <1>16, <1>17 DEF Next

\* AppendOnly: no step but a crash changes a byte of a promised record, nor
\* where its entry points (append, flush, recover, zero_tail).
THEOREM StoreIsAppendOnly ==
  ASSUME StopAtFailure
  PROVE  Spec => AppendOnly
<1> DEFINE Same(n) ==
      /\ idx'[n].off = idx[n].off
      /\ SubSeq(seg', idx[n].off + 1, RecordEnd(seg, idx[n].off)) =
         SubSeq(seg, idx[n].off + 1, RecordEnd(seg, idx[n].off))
<1>1. ASSUME StoreInv, StoreInv', [Next]_vars, kills' = kills,
             powers' = powers, NEW n \in 1 .. promised
      PROVE  Same(n)
  <2>1. Layout(seg, idx, promised) /\ promised \in Nat
    BY <1>1, Held
  <2>2. promised > 0 /\ n \in 0 .. promised /\ promised \in 0 .. promised
        /\ n <= promised
    BY <2>1
  <2>3. PICK e \in Nat : Untouched(e)
    BY <2>2, <1>1, NothingTouched
  <2>4. seg \in Seq(Cell) /\ seg' \in Seq(Cell) /\ idx \in Seq(Entry)
    BY <1>1 DEF StoreInv, TypeOK
  <2>5. /\ EndOf(seg, idx, n) = RecordEnd(seg, idx[n].off)
        /\ idx[n].off \in Nat /\ EndOf(seg, idx, n) \in Nat
        /\ EndOf(seg, idx, promised) \in Nat
    BY <2>1, <2>2, <2>4, Measured
  <2>6. EndOf(seg, idx, n) <= EndOf(seg, idx, promised)
    BY <2>1, <2>2 DEF Layout
  <2> DEFINE lo == idx[n].off + 1
             hi == RecordEnd(seg, idx[n].off)
  <2>7. lo \in Nat \ {0} /\ hi \in Nat /\ hi <= e
    BY <2>3, <2>5, <2>6 DEF Untouched
  <2> HIDE DEF lo, hi
  <2>8. hi <= Len(seg) /\ hi <= Len(seg') /\ \A i \in lo .. hi : i \in 1 .. e
    <3>1. Len(seg) \in Nat /\ Len(seg') \in Nat /\ e <= Len(seg)
          /\ e <= Len(seg')
      BY <2>3, <2>4 DEF Untouched
    <3> QED
      BY <3>1, <2>7
  <2>9. \A i \in lo .. hi : seg'[i] = seg[i]
    BY <2>3, <2>8 DEF Untouched
  <2>10. SubSeq(seg', lo, hi) = SubSeq(seg, lo, hi)
    BY <2>4, <2>7, <2>8, <2>9, SubSame
  <2>11. idx'[n].off = idx[n].off
    BY <2>3 DEF Untouched
  <2> QED
    BY <2>10, <2>11 DEF lo, hi
<1>2. StoreInv /\ StoreInv' /\ [Next]_vars =>
        [ (kills' = kills /\ powers' = powers) =>
          \A n \in 1 .. promised :
            n <= Len(idx) /\ Complete(seg, idx[n].off, n - 1, FALSE) =>
              /\ idx'[n].off = idx[n].off
              /\ SubSeq(seg', idx[n].off + 1, RecordEnd(seg, idx[n].off)) =
                 SubSeq(seg, idx[n].off + 1, RecordEnd(seg, idx[n].off)) ]_vars
  BY <1>1
<1> QED
  BY <1>2, StoreInvariant, PTL DEF Spec, AppendOnly
=============================================================================
