------------------------------ MODULE TailRing ------------------------------
(***************************************************************************)
(* The ring of the most recently emitted lines (crates/ulpf/src/tail.rs):  *)
(* a sequence of raw ids, oldest first.                                    *)
(***************************************************************************)
EXTENDS Integers, Sequences, SequencesExt

NoPosition == -1

\* push_batch: n lines from raw id first on; the oldest ones are evicted.
PushBatch(ring, capacity, first, n) ==
  LET all == ring \o [i \in 1 .. n |-> first + i - 1]
      drop == IF Len(all) > capacity THEN Len(all) - capacity ELSE 0
  IN  SubSeq(all, drop + 1, Len(all))

Latest(ring) == IF ring = << >> THEN NoPosition ELSE Last(ring)

\* Mutant: only what the limit cut is counted.
EvictedNone(ring, after) == 0

\* The evicted half of `skipped`: ids between the caller's and the oldest.
Evicted(ring, after) ==
  IF after # NoPosition /\ ring # << >> /\ ring[1] > after + 1
  THEN ring[1] - (after + 1) ELSE 0

\* since: the newest `limit` of the lines newer than `after`.
Since(ring, after, limit) ==
  LET newer == SelectSeq(ring, LAMBDA id : after = NoPosition \/ id > after)
      cut == IF Len(newer) > limit THEN Len(newer) - limit ELSE 0
  IN  [events |-> SubSeq(newer, cut + 1, Len(newer)),
       skipped |-> Evicted(ring, after) + cut, latest |-> Latest(ring)]
=============================================================================
